---------------------------- MODULE CatalogProofs ----------------------------
(***************************************************************************)
(* Theorems about Catalog, for any threads, ISBNs, copy counts, files and  *)
(* MaxId, with and without failing statements.                             *)
(*                                                                         *)
(* A step of a worker has a shape, ArriveShape or ServeShape: it replaces  *)
(* the worker's call by one in order, and does one of four things to the   *)
(* table.  The invariants, the refinement and, at the end, what is true of *)
(* writers that do not overlap follow from the shapes.                     *)
(***************************************************************************)
EXTENDS Catalog, TLAPS, FiniteSetTheorems, WellFoundedInduction

AnyIsbn == Isbns \union {NoIsbn}

\* What the checks before a section guarantee about the call that reaches it.
WellFormed(c) ==
  /\ c.pc \in {"createLookup", "createInsert"} => c.available = c.total
  /\ c.pc \in {"updateLookup", "updateWrite"} => c.available \in 0 .. c.total
  /\ c.pc = "importRead" => c.imported = 0
  /\ c.pc = "importLine" => c.todo = {}

TypeInv == TypeOK /\ \A w \in Workers : WellFormed(calls[w])

\* Ids above lastId are in no row and no snapshot, and no two rows share one.
IdsHandedOut ==
  /\ \A b, c \in books : b.id = c.id => b = c
  /\ \A b \in books : b.id <= lastId
  /\ \A w \in Workers : \A id \in calls[w].seen : id <= lastId

CatalogInv == TypeInv /\ AvailableWithinTotal /\ IdsHandedOut

-----------------------------------------------------------------------------
(* The shapes of the steps.                                                 *)

\* The worker's call becomes one in order, whose snapshot was taken before or
\* is the table.
CallShape(w) ==
  \E c \in Call : /\ calls' = [calls EXCEPT ![w] = c]
                  /\ WellFormed(c)
                  /\ c.seen \subseteq calls[w].seen \union IdsOf(books)

\* What a section does to the table.
TableShape ==
  \/ UNCHANGED <<books, lastId>>
  \/ \E isbn \in AnyIsbn, total \in Int : Insert(isbn, total, total)
  \/ \E id \in Ids \union {0}, isbn \in AnyIsbn, total, available \in Int :
       /\ available \in 0 .. total
       /\ Update(id, isbn, total, available) /\ UNCHANGED lastId
  \/ \E id : Remove(id) /\ UNCHANGED lastId

LEMMA BlankShape ==
  /\ Blank \in Call /\ WellFormed(Blank) /\ Blank.seen = {}
BY DEF Blank, Call, Places, Modes, Statuses, WellFormed

LEMMA AnsweredShape ==
  ASSUME NEW status \in Statuses
  PROVE  /\ Answered(status) \in Call /\ WellFormed(Answered(status))
         /\ Answered(status).seen = {}
<1>1. Answered(status) \in Call /\ Answered(status).seen = {}
  BY BlankShape DEF Answered, Call
<1>2. WellFormed(Answered(status))
  BY DEF Answered, Blank, WellFormed
<1> QED
  BY <1>1, <1>2

LEMMA BecomeShape ==
  ASSUME NEW w \in Workers, NEW c \in Call, WellFormed(c),
         c.seen \subseteq calls[w].seen \union IdsOf(books), Become(w, c)
  PROVE  CallShape(w)
BY DEF Become, CallShape

LEMMA AnswerShape ==
  ASSUME NEW w \in Workers, NEW status \in Statuses, Answer(w, status)
  PROVE  CallShape(w)
BY AnsweredShape, BecomeShape DEF Answer

\* What becomes of a guarded call is its refusal or what it asked to become.
LEMMA RequireRoleShape ==
  ASSUME NEW w \in Workers, NEW role, NEW minimum,
         NEW call \in Call, WellFormed(call), call.seen = {},
         RequireRole(w, role, minimum, call)
  PROVE  CallShape(w)
<1>1. Become(w, call) \/ \E status \in Statuses : Answer(w, status)
  BY DEF RequireRole, Answer, Statuses
<1> QED
  BY <1>1, AnswerShape, BecomeShape

LEMMA ArriveShape ==
  ASSUME NEW w \in Workers, Arrive(w)
  PROVE  CallShape(w) /\ UNCHANGED <<books, lastId, up>>
<1>1. ASSUME NEW role, NEW complete, NEW isbn \in AnyIsbn, NEW total \in Copies,
             CreateBook(w, role, complete, isbn, total)
      PROVE  CallShape(w) /\ UNCHANGED <<books, lastId, up>>
  <2> DEFINE asked == [Blank EXCEPT
                 !.pc = IF isbn = NoIsbn THEN "createInsert" ELSE "createLookup",
                 !.isbn = isbn, !.total = total, !.available = total]
  <2>1. asked \in Call /\ WellFormed(asked) /\ asked.seen = {}
    <3>1. total \in Int
      BY CatalogAssumption
    <3>2. asked \in Call /\ asked.seen = {}
      BY <3>1, BlankShape DEF Call, Places, AnyIsbn
    <3>3. WellFormed(asked)
      BY DEF Blank, WellFormed
    <3> QED
      BY <3>2, <3>3
  <2>2. "INVALID_ARGUMENT" \in Statuses
    BY DEF Statuses
  <2> HIDE DEF asked
  <2> DEFINE c == IF ~complete \/ total < 1 THEN Answered("INVALID_ARGUMENT")
                                            ELSE asked
  <2>3. c \in Call /\ WellFormed(c) /\ c.seen = {}
    BY <2>1, <2>2, AnsweredShape
  <2>4. RequireRole(w, role, "Admin", c)
    BY <1>1 DEF CreateBook, asked
  <2> HIDE DEF c
  <2> QED
    BY <1>1, <2>3, <2>4, RequireRoleShape DEF CreateBook, Unwritten
<1>2. ASSUME NEW role, NEW complete, NEW id \in Ids, NEW isbn \in AnyIsbn,
             NEW total \in Copies, NEW available \in Copies,
             UpdateBook(w, role, complete, id, isbn, total, available)
      PROVE  CallShape(w) /\ UNCHANGED <<books, lastId, up>>
  <2> DEFINE asked == [Blank EXCEPT
                 !.pc = IF isbn = NoIsbn THEN "updateWrite" ELSE "updateLookup",
                 !.id = id, !.isbn = isbn, !.total = total,
                 !.available = available]
  <2>1. asked \in Call /\ asked.seen = {}
    <3>1. total \in Int /\ available \in Int
      BY CatalogAssumption
    <3> QED
      BY <3>1, BlankShape DEF Call, Places, AnyIsbn
  <2>2. CopiesAllowed(total, available) => WellFormed(asked)
    <3>1. total \in Int /\ available \in Int
      BY CatalogAssumption
    <3>2. CopiesAllowed(total, available) => available \in 0 .. total
      BY <3>1 DEF CopiesAllowed
    <3> QED
      BY <3>2 DEF Blank, WellFormed
  <2>3. "INVALID_ARGUMENT" \in Statuses
    BY DEF Statuses
  <2> HIDE DEF asked
  <2> DEFINE c == IF ~complete \/ ~CopiesAllowed(total, available)
                    THEN Answered("INVALID_ARGUMENT") ELSE asked
  <2>4. c \in Call /\ WellFormed(c) /\ c.seen = {}
    BY <2>1, <2>2, <2>3, AnsweredShape
  <2>5. RequireRole(w, role, "Admin", c)
    BY <1>2 DEF UpdateBook, asked
  <2> HIDE DEF c
  <2> QED
    BY <1>2, <2>4, <2>5, RequireRoleShape DEF UpdateBook, Unwritten
<1>3. ASSUME NEW role, NEW id \in Ids, DeleteBook(w, role, id)
      PROVE  CallShape(w) /\ UNCHANGED <<books, lastId, up>>
  <2> DEFINE c == [Blank EXCEPT !.pc = "deleteRemove", !.id = id]
  <2>1. c \in Call /\ c.seen = {}
    BY BlankShape DEF Call, Places
  <2>2. WellFormed(c)
    BY DEF Blank, WellFormed
  <2>3. RequireRole(w, role, "Admin", c)
    BY <1>3 DEF DeleteBook
  <2> HIDE DEF c
  <2> QED
    BY <1>3, <2>1, <2>2, <2>3, RequireRoleShape DEF DeleteBook, Unwritten
<1>4. ASSUME NEW role, NEW id \in Ids, GetBook(w, role, id)
      PROVE  CallShape(w) /\ UNCHANGED <<books, lastId, up>>
  <2> DEFINE c == [Blank EXCEPT !.pc = "getRead", !.id = id]
  <2>1. c \in Call /\ c.seen = {}
    BY BlankShape DEF Call, Places
  <2>2. WellFormed(c)
    BY DEF Blank, WellFormed
  <2>3. RequireRole(w, role, "User", c)
    BY <1>4 DEF GetBook
  <2> HIDE DEF c
  <2> QED
    BY <1>4, <2>1, <2>2, <2>3, RequireRoleShape DEF GetBook, Unwritten
<1>5. ASSUME NEW role, NEW minimum, ListBooks(w, role, minimum)
      PROVE  CallShape(w) /\ UNCHANGED <<books, lastId, up>>
  <2> DEFINE c == [Blank EXCEPT !.pc = "listRead"]
  <2>1. c \in Call /\ c.seen = {}
    BY BlankShape DEF Call, Places
  <2>2. WellFormed(c)
    BY DEF Blank, WellFormed
  <2>3. RequireRole(w, role, minimum, c)
    BY <1>5 DEF ListBooks
  <2> HIDE DEF c
  <2> QED
    BY <1>5, <2>1, <2>2, <2>3, RequireRoleShape DEF ListBooks, Unwritten
<1>6. ASSUME NEW role, NEW mode \in Modes, NEW file \in Files,
             ImportBooks(w, role, mode, file)
      PROVE  CallShape(w) /\ UNCHANGED <<books, lastId, up>>
  <2> DEFINE c == [Blank EXCEPT
          !.pc = IF mode = "Replace" THEN "importRead" ELSE "importLine",
          !.mode = mode, !.lines = file]
  <2>1. file \in Seq(Lines)
    BY CatalogAssumption
  <2>2. c \in Call /\ WellFormed(c) /\ c.seen = {}
    <3>1. c \in Call /\ c.seen = {}
      BY <2>1, BlankShape DEF Call, Places
    <3>2. WellFormed(c)
      BY DEF Blank, WellFormed
    <3> QED
      BY <3>1, <3>2
  <2>3. RequireRole(w, role, "Admin", c)
    BY <1>6 DEF ImportBooks
  <2> HIDE DEF c
  <2> QED
    BY <1>6, <2>2, <2>3, RequireRoleShape DEF ImportBooks, Unwritten
<1> QED
  BY <1>1, <1>2, <1>3, <1>4, <1>5, <1>6 DEF Arrive, Sent, AnyIsbn

\* A section of the call goes on to the next.
LEMMA GotoShape ==
  ASSUME TypeInv, NEW w \in Workers, NEW place \in Places, Goto(w, place),
         WellFormed([calls[w] EXCEPT !.pc = place])
  PROVE  CallShape(w)
<1>1. calls[w] \in Call
  BY DEF TypeInv, TypeOK
<1> DEFINE c == [calls[w] EXCEPT !.pc = place]
<1>2. c \in Call /\ c.seen = calls[w].seen
  BY <1>1 DEF Call
<1>3. WellFormed(c) /\ Become(w, c)
  BY DEF Goto
<1> QED
  BY <1>2, <1>3, BecomeShape

\* create, for a call that becomes stored or failed.
LEMMA CreateShape ==
  ASSUME NEW w \in Workers, NEW isbn \in AnyIsbn, NEW total \in Int,
         NEW available, available = total,
         NEW stored \in Call, WellFormed(stored),
         stored.seen \subseteq calls[w].seen,
         NEW failed \in Call, WellFormed(failed),
         failed.seen \subseteq calls[w].seen,
         Create(w, isbn, total, available, stored, failed)
  PROVE  CallShape(w) /\ TableShape
<1>1. Become(w, stored) \/ Become(w, failed)
  BY DEF Create
<1>2. TableShape
  BY DEF Create, TableShape
<1> QED
  BY <1>1, <1>2, BecomeShape

LEMMA ServeShape ==
  ASSUME TypeInv, NEW w \in Workers, Serve(w)
  PROVE  CallShape(w) /\ TableShape /\ UNCHANGED up
<1>1. /\ calls[w] \in Call
      /\ WellFormed(calls[w])
  BY DEF TypeInv, TypeOK
<1>2. /\ \A status \in {"OK", "INVALID_ARGUMENT", "NOT_FOUND"} :
            status \in Statuses
      /\ \A place \in {"createInsert", "updateWrite", "importLine"} :
            place \in Places
  BY DEF Statuses, Places
<1>3. CASE CreateBookLookup(w)
  <2>1. Answer(w, "INVALID_ARGUMENT") \/ Goto(w, "createInsert")
    BY <1>3 DEF CreateBookLookup, CheckIsbn
  <2>2. WellFormed([calls[w] EXCEPT !.pc = "createInsert"])
    BY <1>1, <1>3 DEF CreateBookLookup, At, WellFormed, Call
  <2> QED
    BY <1>2, <1>3, <2>1, <2>2, AnswerShape, GotoShape
       DEF CreateBookLookup, Unwritten, TableShape
<1>4. CASE CreateBookInsert(w)
  <2>1. /\ calls[w].isbn \in AnyIsbn /\ calls[w].total \in Int
        /\ calls[w].available = calls[w].total
    BY <1>1, <1>4 DEF CreateBookInsert, At, WellFormed, Call, AnyIsbn
  <2> QED
    BY <1>2, <1>4, <2>1, AnsweredShape, CreateShape DEF CreateBookInsert
<1>5. CASE UpdateBookLookup(w)
  <2>1. Answer(w, "INVALID_ARGUMENT") \/ Goto(w, "updateWrite")
    BY <1>5 DEF UpdateBookLookup, CheckIsbn
  <2>2. WellFormed([calls[w] EXCEPT !.pc = "updateWrite"])
    BY <1>1, <1>5 DEF UpdateBookLookup, At, WellFormed, Call
  <2> QED
    BY <1>2, <1>5, <2>1, <2>2, AnswerShape, GotoShape
       DEF UpdateBookLookup, Unwritten, TableShape
<1>6. CASE UpdateBookWrite(w)
  <2>1. \E status \in Statuses : Answer(w, status)
    BY <1>2, <1>6 DEF UpdateBookWrite
  <2>2. /\ calls[w].id \in Ids \union {0}
        /\ calls[w].isbn \in AnyIsbn /\ calls[w].total \in Int
        /\ calls[w].available \in Int
        /\ calls[w].available \in 0 .. calls[w].total
    BY <1>1, <1>6 DEF UpdateBookWrite, At, WellFormed, Call, AnyIsbn
  <2> QED
    BY <1>6, <2>1, <2>2, AnswerShape DEF UpdateBookWrite, TableShape
<1>7. CASE DeleteBookRemove(w)
  <2>1. \E status \in Statuses : Answer(w, status)
    BY <1>2, <1>7 DEF DeleteBookRemove
  <2> QED
    BY <1>7, <2>1, AnswerShape DEF DeleteBookRemove, TableShape
<1>8. CASE GetBookRead(w) \/ ListBooksRead(w)
  <2>1. \E status \in Statuses : Answer(w, status)
    BY <1>2, <1>8 DEF GetBookRead, ListBooksRead
  <2> QED
    BY <1>8, <2>1, AnswerShape
       DEF GetBookRead, ListBooksRead, Unwritten, TableShape
<1>9. CASE ImportRead(w)
  <2>1. PICK rows \in FindAll :
          Become(w, [calls[w] EXCEPT !.pc = "importRemove", !.seen = IdsOf(rows),
                                     !.todo = IdsOf(rows)])
    BY <1>9 DEF ImportRead
  <2> DEFINE c == [calls[w] EXCEPT !.pc = "importRemove", !.seen = IdsOf(rows),
                                   !.todo = IdsOf(rows)]
  <2>2. rows \subseteq books
    BY DEF FindAll
  <2>3. IdsOf(rows) \subseteq IdsOf(books) /\ IdsOf(rows) \subseteq Ids
    BY <2>2 DEF IdsOf, TypeInv, TypeOK, Row
  <2>4. c \in Call /\ WellFormed(c) /\ c.seen = IdsOf(rows)
    BY <1>1, <2>3 DEF Call, Places, WellFormed
  <2> QED
    BY <1>9, <2>1, <2>3, <2>4, BecomeShape
       DEF ImportRead, Unwritten, TableShape
<1>10. CASE ImportRemove(w)
  <2>1. ASSUME NEW id, Become(w, [calls[w] EXCEPT !.todo = @ \ {id}])
        PROVE  CallShape(w)
    <3> DEFINE c == [calls[w] EXCEPT !.todo = @ \ {id}]
    <3>1. c \in Call /\ WellFormed(c) /\ c.seen = calls[w].seen
      BY <1>1 DEF Call, WellFormed
    <3> QED
      BY <2>1, <3>1, BecomeShape
  <2>2. calls[w].todo = {} => WellFormed([calls[w] EXCEPT !.pc = "importLine"])
    BY <1>1 DEF Call, WellFormed
  <2>3. CallShape(w)
    BY <1>2, <1>10, <2>1, <2>2, GotoShape DEF ImportRemove
  <2> QED
    BY <1>10, <2>3 DEF ImportRemove, TableShape
<1>11. CASE ImportLine(w)
  <2> DEFINE line == Head(calls[w].lines)
  <2>1. /\ calls[w].lines \in Seq(Lines) /\ calls[w].lines # <<>>
        /\ calls[w].imported \in Nat /\ calls[w].skipped \in Nat
        /\ calls[w].pc = "importLine"
    BY <1>1, <1>11 DEF ImportLine, At, Call
  <2>2. line \in Lines /\ Tail(calls[w].lines) \in Seq(Lines)
    BY <2>1
  <2>4. /\ Imported(calls[w]) \in Call /\ WellFormed(Imported(calls[w]))
        /\ Imported(calls[w]).seen = calls[w].seen
    <3>1. calls[w].imported + 1 \in Nat
      BY <2>1
    <3>2. /\ Imported(calls[w]) \in Call
          /\ Imported(calls[w]).seen = calls[w].seen
      BY <1>1, <2>2, <3>1 DEF Imported, Call
    <3>3. WellFormed(Imported(calls[w]))
      BY <1>1, <2>1 DEF Imported, Call, WellFormed
    <3> QED
      BY <3>2, <3>3
  <2>5. /\ Skipped(calls[w]) \in Call /\ WellFormed(Skipped(calls[w]))
        /\ Skipped(calls[w]).seen = calls[w].seen
    <3>1. calls[w].skipped + 1 \in Nat
      BY <2>1
    <3>2. /\ Skipped(calls[w]) \in Call
          /\ Skipped(calls[w]).seen = calls[w].seen
      BY <1>1, <2>2, <3>1 DEF Skipped, Call
    <3>3. WellFormed(Skipped(calls[w]))
      BY <1>1, <2>1 DEF Skipped, Call, WellFormed
    <3> QED
      BY <3>2, <3>3
  <2>7. CASE line.kind = "malformed"
    <3>1. Become(w, Skipped(calls[w])) /\ UNCHANGED <<books, lastId>>
      BY <1>11, <2>7 DEF ImportLine
    <3> QED
      BY <1>11, <2>5, <3>1, BecomeShape DEF ImportLine, TableShape
  <2>8. CASE line.kind = "book"
    <3>1. Create(w, line.isbn, line.total, line.total,
                 Imported(calls[w]), Skipped(calls[w]))
      BY <1>11, <2>8 DEF ImportLine
    <3>2. line.isbn \in AnyIsbn /\ line.total \in Int
      BY <2>2, <2>8, CatalogAssumption DEF Lines, BookLines, AnyIsbn
    <3> HIDE DEF line
    <3>3. CallShape(w) /\ TableShape
      BY <2>4, <2>5, <3>1, <3>2, CreateShape
    <3> QED
      BY <1>11, <3>3 DEF ImportLine
  <2> QED
    BY <2>2, <2>7, <2>8 DEF Lines, BookLines
<1>12. CASE ImportReply(w)
  <2> DEFINE c == [Answered("OK") EXCEPT !.imported = calls[w].imported,
                                         !.skipped = calls[w].skipped]
  <2>1. c \in Call /\ WellFormed(c) /\ c.seen = {}
    <3>1. "OK" \in Statuses
      BY DEF Statuses
    <3>2. Answered("OK") \in Call /\ Answered("OK").seen = {}
      BY <3>1, AnsweredShape
    <3>3. c \in Call /\ c.seen = {}
      BY <1>1, <3>2 DEF Call
    <3>4. WellFormed(c)
      BY DEF Answered, Blank, WellFormed
    <3> QED
      BY <3>3, <3>4
  <2>2. Become(w, c) /\ UNCHANGED <<books, lastId, up>>
    BY <1>12 DEF ImportReply, Unwritten
  <2> QED
    BY <2>1, <2>2, BecomeShape DEF TableShape
<1> QED
  BY <1>3, <1>4, <1>5, <1>6, <1>7, <1>8, <1>9, <1>10, <1>11, <1>12
     DEF Serve, ImportStep

-----------------------------------------------------------------------------
(* The invariant.                                                           *)

LEMMA InitInv == Init => CatalogInv
<1> SUFFICES ASSUME Init PROVE CatalogInv
  OBVIOUS
<1>1. TypeInv
  BY BlankShape DEF Init, TypeInv, TypeOK
<1>2. AvailableWithinTotal /\ IdsHandedOut
  BY BlankShape DEF Init, AvailableWithinTotal, IdsHandedOut
<1> QED
  BY <1>1, <1>2 DEF CatalogInv

CopiesInOrder(b) == b.available = b.total \/ b.available \in 0 .. b.total

LEMMA EachInOrder == AvailableWithinTotal <=> \A b \in books : CopiesInOrder(b)
BY DEF AvailableWithinTotal, CopiesInOrder

\* What the table's part of a step does to the rows and to the ids.
LEMMA TableStep ==
  ASSUME CatalogInv, TableShape
  PROVE  /\ books' \subseteq Row /\ lastId' \in Ids \union {0}
         /\ lastId <= lastId'
         /\ \A b \in books' : CopiesInOrder(b)
         /\ \A b \in books' : b.id <= lastId' /\ (b.id \in IdsOf(books)
                                                  \/ b.id = lastId + 1)
         /\ \A b, c \in books' : b.id = c.id => b = c
<1>1. /\ books \subseteq Row /\ lastId \in Ids \union {0}
      /\ \A b \in books : /\ b.id <= lastId
                           /\ CopiesInOrder(b)
      /\ \A b \in books : b.id \in IdsOf(books)
      /\ \A b, c \in books : b.id = c.id => b = c
  BY EachInOrder DEF CatalogInv, TypeInv, TypeOK, IdsHandedOut, IdsOf
<1>2. Ids \subseteq Int /\ lastId \in Int
  BY <1>1, CatalogAssumption DEF Ids
<1>3. CASE UNCHANGED <<books, lastId>>
  BY <1>1, <1>2, <1>3
<1>4. ASSUME NEW isbn \in AnyIsbn, NEW total \in Int, Insert(isbn, total, total)
      PROVE  /\ books' \subseteq Row /\ lastId' \in Ids \union {0}
             /\ lastId <= lastId'
             /\ \A b \in books' : CopiesInOrder(b)
             /\ \A b \in books' : b.id <= lastId' /\ (b.id \in IdsOf(books)
                                                      \/ b.id = lastId + 1)
             /\ \A b, c \in books' : b.id = c.id => b = c
  <2> DEFINE new == [id |-> NextRowId, isbn |-> isbn, total |-> total,
                     available |-> total]
  <2>1. /\ books' = books \union {new} /\ lastId' = lastId + 1
        /\ NextRowId \in Ids /\ NextRowId = lastId + 1
    BY <1>4 DEF Insert, CanInsert, NextRowId
  <2>2. new \in Row /\ new.id = lastId + 1 /\ CopiesInOrder(new)
    BY <2>1 DEF Row, AnyIsbn, CopiesInOrder
  <2> HIDE DEF new
  <2>3. books' \subseteq Row /\ lastId' \in Ids \union {0}
    BY <1>1, <2>1, <2>2
  <2>4. lastId \in Int /\ \A b \in books : b.id \in Int
    <3>1. \A b \in books : b.id \in Ids
      BY <1>1 DEF Row
    <3> QED
      BY <1>1, <1>2, <3>1
  <2>5. ASSUME NEW b \in books'
        PROVE  /\ CopiesInOrder(b)
               /\ b.id <= lastId'
               /\ b.id \in IdsOf(books) \/ b.id = lastId + 1
    <3>1. CASE b = new
      BY <2>1, <2>2, <2>4, <3>1
    <3>2. CASE b \in books
      BY <1>1, <2>1, <2>4, <3>2
    <3> QED
      BY <2>1, <3>1, <3>2
  <2>6. \A b, c \in books' : b.id = c.id => b = c
    <3>1. \A b \in books : b.id # new.id
      BY <1>1, <2>2, <2>4
    <3> QED
      BY <1>1, <2>1, <3>1
  <2> QED
    BY <2>1, <2>3, <2>4, <2>5, <2>6
<1>5. ASSUME NEW id, NEW isbn \in AnyIsbn, NEW total \in Int,
             NEW available \in Int, available \in 0 .. total,
             Update(id, isbn, total, available), UNCHANGED lastId
      PROVE  /\ books' \subseteq Row /\ lastId' \in Ids \union {0}
             /\ lastId <= lastId'
             /\ \A b \in books' : CopiesInOrder(b)
             /\ \A b \in books' : b.id <= lastId' /\ (b.id \in IdsOf(books)
                                                      \/ b.id = lastId + 1)
             /\ \A b, c \in books' : b.id = c.id => b = c
  <2>1. ASSUME NEW c \in books'
        PROVE  /\ c \in Row /\ c.id <= lastId /\ c.id \in IdsOf(books)
               /\ CopiesInOrder(c)
    <3>1. PICK b \in books :
            c = IF b.id = id THEN [b EXCEPT !.isbn = isbn, !.total = total,
                                            !.available = available]
                             ELSE b
      BY <1>5 DEF Update
    <3>2. b \in Row
      BY <1>1
    <3>3. c \in Row /\ c.id = b.id
      BY <1>5, <3>1, <3>2 DEF Row, AnyIsbn
    <3>4. CASE b.id = id
      <4>1. c.available = available /\ c.total = total
        BY <3>1, <3>2, <3>4 DEF Row
      <4>2. CopiesInOrder(c)
        BY <1>5, <4>1 DEF CopiesInOrder
      <4> QED
        BY <1>1, <3>3, <4>2
    <3>5. CASE b.id # id
      BY <1>1, <3>1, <3>3, <3>5
    <3> QED
      BY <3>4, <3>5
  <2>2. \A b, c \in books' : b.id = c.id => b = c
    <3> TAKE d, e \in books'
    <3> HAVE d.id = e.id
    <3>1. PICK b \in books :
            d = IF b.id = id THEN [b EXCEPT !.isbn = isbn, !.total = total,
                                            !.available = available]
                             ELSE b
      BY <1>5 DEF Update
    <3>2. PICK c \in books :
            e = IF c.id = id THEN [c EXCEPT !.isbn = isbn, !.total = total,
                                            !.available = available]
                             ELSE c
      BY <1>5 DEF Update
    <3>3. b \in Row /\ c \in Row
      BY <1>1
    <3>4. d.id = b.id /\ e.id = c.id
      BY <3>1, <3>2, <3>3 DEF Row
    <3>5. b = c
      BY <1>1, <3>4
    <3> QED
      BY <3>1, <3>2, <3>5
  <2> QED
    BY <1>1, <1>2, <1>5, <2>1, <2>2
<1>6. ASSUME NEW id, Remove(id), UNCHANGED lastId
      PROVE  /\ books' \subseteq Row /\ lastId' \in Ids \union {0}
             /\ lastId <= lastId'
             /\ \A b \in books' : CopiesInOrder(b)
             /\ \A b \in books' : b.id <= lastId' /\ (b.id \in IdsOf(books)
                                                      \/ b.id = lastId + 1)
             /\ \A b, c \in books' : b.id = c.id => b = c
  BY <1>1, <1>2, <1>6 DEF Remove
<1> QED
  BY <1>3, <1>4, <1>5, <1>6 DEF TableShape

LEMMA WorkerStep ==
  ASSUME CatalogInv, NEW w \in Workers, CallShape(w), TableShape, UNCHANGED up
  PROVE  CatalogInv'
<1>1. /\ books' \subseteq Row /\ lastId' \in Ids \union {0}
      /\ lastId <= lastId'
      /\ \A b \in books' : CopiesInOrder(b)
      /\ \A b \in books' : b.id <= lastId'
      /\ \A b, d \in books' : b.id = d.id => b = d
  BY TableStep
<1>2. PICK c \in Call : /\ calls' = [calls EXCEPT ![w] = c]
                        /\ WellFormed(c)
                        /\ c.seen \subseteq calls[w].seen \union IdsOf(books)
  BY DEF CallShape
<1>3. /\ calls \in [Workers -> Call]
      /\ \A v \in Workers : WellFormed(calls[v])
      /\ lastId \in Ids \union {0} /\ up \in BOOLEAN
      /\ books \subseteq Row
  BY DEF CatalogInv, TypeInv, TypeOK
<1>4. TypeOK'
  BY <1>1, <1>2, <1>3 DEF TypeOK
<1>5. \A v \in Workers : WellFormed(calls'[v])
  BY <1>2, <1>3
<1>6. TypeInv'
  BY <1>4, <1>5 DEF TypeInv, WellFormed
<1>7. ASSUME NEW v \in Workers, NEW id \in calls'[v].seen
      PROVE  id <= lastId'
  <2>1. Ids \subseteq Int
    BY CatalogAssumption DEF Ids
  <2>2. id \in calls[v].seen \/ id \in IdsOf(books)
    BY <1>2, <1>3, <1>7
  <2>3. id \in Ids /\ id <= lastId
    BY <1>3, <2>2, SMTT(30) DEF CatalogInv, IdsHandedOut, IdsOf, Row, Call
  <2> QED
    BY <1>1, <1>3, <2>1, <2>3
<1>8. IdsHandedOut'
  BY <1>1, <1>7 DEF IdsHandedOut
<1>9. AvailableWithinTotal'
  BY <1>1 DEF AvailableWithinTotal, CopiesInOrder
<1> QED
  BY <1>6, <1>8, <1>9 DEF CatalogInv

LEMMA StepInv == CatalogInv /\ [Next]_vars => CatalogInv'
<1> SUFFICES ASSUME CatalogInv, [Next]_vars PROVE CatalogInv'
  OBVIOUS
<1>1. CASE UNCHANGED vars
  BY <1>1 DEF vars, CatalogInv, TypeInv, TypeOK, WellFormed,
              AvailableWithinTotal, IdsHandedOut
<1>2. CASE Boot
  BY <1>2 DEF Boot, CatalogInv, TypeInv, TypeOK, WellFormed,
              AvailableWithinTotal, IdsHandedOut
<1>3. CASE Crash
  <2>1. calls' = [v \in Workers |-> Blank] /\ UNCHANGED <<books, lastId>>
        /\ up' \in BOOLEAN
    BY <1>3 DEF Crash
  <2>2. TypeInv'
    BY <2>1, BlankShape DEF CatalogInv, TypeInv, TypeOK, WellFormed
  <2>3. IdsHandedOut' /\ AvailableWithinTotal'
    BY <2>1, BlankShape DEF CatalogInv, IdsHandedOut, AvailableWithinTotal
  <2> QED
    BY <2>2, <2>3 DEF CatalogInv
<1>4. ASSUME NEW w \in Workers, Arrive(w) PROVE CatalogInv'
  BY <1>4, ArriveShape, WorkerStep DEF TableShape
<1>5. ASSUME NEW w \in Workers, Serve(w) PROVE CatalogInv'
  BY <1>5, ServeShape, WorkerStep DEF CatalogInv
<1> QED
  BY <1>1, <1>2, <1>3, <1>4, <1>5 DEF Next

LEMMA Invariance == Spec => []CatalogInv
BY InitInv, StepInv, PTL DEF Spec

-----------------------------------------------------------------------------
(* The theorems.                                                            *)

\* The table and every call keep the types of the code, whatever calls overlap
\* and wherever the process stops (SqliteBookRepository.cpp, CsvService.cpp).
THEOREM TypeCorrect == Spec => []TypeOK
<1>1. CatalogInv => TypeOK
  BY DEF CatalogInv, TypeInv
<1> QED
  BY <1>1, Invariance, PTL

\* The available copies of a book are ever within its total, or all of it, also
\* below zero: each way to the table checks that before the section that writes,
\* on values the call carries along (BookService.cpp:53 and :80,
\* CsvService.cpp:132).
THEOREM CopiesWithinTotal == Spec => []AvailableWithinTotal
<1>1. CatalogInv => AvailableWithinTotal
  BY DEF CatalogInv
<1> QED
  BY <1>1, Invariance, PTL

\* A book of a Replace import's snapshot that is gone never comes back while the
\* import runs, because AUTOINCREMENT never hands out an id a snapshot holds
\* (CsvService.cpp:90-94, DatabaseMigrator.cpp).
THEOREM ClearedBooksStayGone == Spec => ClearedStayGone
<1> DEFINE Kept == \A w \in Workers :
              calls[w].pc \in {"importRemove", "importLine"} =>
                calls[w].seen \intersect IdsOf(books)' \subseteq IdsOf(books)
<1>1. ASSUME CatalogInv, [Next]_vars PROVE Kept
  <2>1. TableShape
    <3>1. ASSUME NEW w \in Workers, Arrive(w) PROVE TableShape
      BY <3>1, ArriveShape DEF TableShape
    <3>2. ASSUME NEW w \in Workers, Serve(w) PROVE TableShape
      BY <1>1, <3>2, ServeShape DEF CatalogInv
    <3> QED
      BY <1>1, <3>1, <3>2 DEF Next, Boot, Crash, vars, TableShape
  <2>2. \A b \in books' : b.id \in IdsOf(books) \/ b.id = lastId + 1
    BY <1>1, <2>1, TableStep
  <2>3. ASSUME NEW w \in Workers, lastId + 1 \in calls[w].seen PROVE FALSE
    <3>1. lastId \in Int
      BY <1>1, CatalogAssumption DEF CatalogInv, TypeInv, TypeOK, Ids
    <3>2. lastId + 1 <= lastId
      BY <1>1, <2>3 DEF CatalogInv, IdsHandedOut
    <3> QED
      BY <3>1, <3>2
  <2> QED
    BY <2>2, <2>3 DEF IdsOf
<1>2. CatalogInv /\ [Next]_vars => [Kept]_vars
  BY <1>1
<1> QED
  BY <1>2, Invariance, PTL DEF Spec, ClearedStayGone
-----------------------------------------------------------------------------
(* The refinement.                                                          *)

Requested == [w \in Workers |-> RequestOf(calls[w])]

\* Each place of a call is a stage of a request.
LEMMA RequestAt ==
  ASSUME NEW c
  PROVE  /\ c.pc = "idle" =>
              RequestOf(c) = [kind |-> "none", reply |-> c.reply,
                              counted |-> c.imported]
         /\ c.pc \in {"createLookup", "createInsert"} =>
              RequestOf(c) = [kind |-> "create", isbn |-> c.isbn,
                              total |-> c.total]
         /\ c.pc \in {"updateLookup", "updateWrite"} =>
              RequestOf(c) = [kind |-> "update", id |-> c.id, isbn |-> c.isbn,
                              total |-> c.total, available |-> c.available]
         /\ c.pc = "deleteRemove" =>
              RequestOf(c) = [kind |-> "delete", id |-> c.id]
         /\ c.pc \in {"getRead", "listRead"} => RequestOf(c) = [kind |-> "other"]
         /\ c.pc = "importRead" =>
              RequestOf(c) = [kind |-> "replace", carries |-> CarriedBy(c.lines)]
         /\ c.pc \in {"importRemove", "importLine"} =>
              RequestOf(c) = [kind |-> "import", clears |-> c.todo,
                              carries |-> CarriedBy(c.lines),
                              counted |-> c.imported]
BY DEF RequestOf

\* A call that is replaced is a request that is replaced.
LEMMA BecomeRequest ==
  ASSUME TypeOK, NEW w \in Workers, NEW c, Become(w, c)
  PROVE  Shelf!Become(w, RequestOf(c))
<1>1. calls' = [calls EXCEPT ![w] = c] /\ DOMAIN calls = Workers
  BY DEF Become, TypeOK
<1>2. Requested' = [Requested EXCEPT ![w] = RequestOf(c)]
  BY <1>1 DEF Requested
<1> QED
  BY <1>2 DEF Requested, Shelf!Become

LEMMA SameRequest ==
  ASSUME TypeOK, NEW w \in Workers, NEW c, Become(w, c),
         RequestOf(c) = RequestOf(calls[w]), UNCHANGED <<books, lastId>>
  PROVE  UNCHANGED Shelf!vars
<1>1. calls' = [calls EXCEPT ![w] = c] /\ DOMAIN calls = Workers
  BY DEF Become, TypeOK
<1>2. Requested' = Requested
  BY <1>1 DEF Requested
<1> QED
  BY <1>2 DEF Requested, Shelf!vars

LEMMA AnswerRequest ==
  ASSUME TypeOK, NEW w \in Workers, NEW status, Answer(w, status)
  PROVE  Shelf!Become(w, Shelf!Reply(status))
<1>1. RequestOf(Answered(status))
        = [kind |-> "none", reply |-> status, counted |-> 0]
  <2>1. Answered(status).pc = "idle" /\ Answered(status).reply = status
        /\ Answered(status).imported = 0
    BY DEF Answered, Blank
  <2> QED
    BY <2>1, RequestAt
<1>2. Shelf!Become(w, RequestOf(Answered(status)))
  BY BecomeRequest DEF Answer
<1> QED
  BY <1>1, <1>2 DEF Shelf!Reply

LEMMA RequestIs ==
  ASSUME NEW w \in Workers
  PROVE  /\ Requested[w] = RequestOf(calls[w])
         /\ Shelf!Kind(w) = RequestOf(calls[w]).kind
BY DEF Requested, Shelf!Kind

\* What a file carries has the types a request needs, and less of it is left
\* after a line.
LEMMA CarriedType ==
  ASSUME NEW lines \in Seq(Lines)
  PROVE  CarriedBy(lines) \subseteq Shelf!Carried
<1> SUFFICES ASSUME NEW i \in DOMAIN lines, lines[i].kind = "book"
             PROVE  [isbn |-> lines[i].isbn, total |-> lines[i].total]
                      \in Shelf!Carried
  BY DEF CarriedBy
<1>1. lines[i] \in BookLines
  BY DEF Lines, BookLines
<1> QED
  BY <1>1 DEF BookLines, Shelf!Carried

LEMMA CarriedTail ==
  ASSUME NEW lines \in Seq(Lines), lines # <<>>
  PROVE  /\ CarriedBy(Tail(lines)) \subseteq CarriedBy(lines)
         /\ Head(lines).kind = "book" =>
              [isbn |-> Head(lines).isbn, total |-> Head(lines).total]
                \in CarriedBy(lines)
<1>1. /\ Len(lines) \in Nat \ {0} /\ DOMAIN lines = 1 .. Len(lines)
      /\ DOMAIN Tail(lines) = 1 .. (Len(lines) - 1)
      /\ \A i \in 1 .. (Len(lines) - 1) : Tail(lines)[i] = lines[i + 1]
      /\ Head(lines) = lines[1]
  OBVIOUS
<1>2. CarriedBy(Tail(lines)) \subseteq CarriedBy(lines)
  <2> SUFFICES ASSUME NEW i \in DOMAIN Tail(lines), Tail(lines)[i].kind = "book"
               PROVE  [isbn |-> Tail(lines)[i].isbn, total |-> Tail(lines)[i].total]
                        \in CarriedBy(lines)
    BY DEF CarriedBy
  <2>1. i + 1 \in DOMAIN lines /\ Tail(lines)[i] = lines[i + 1]
    BY <1>1
  <2> QED
    BY <2>1 DEF CarriedBy
<1>3. 1 \in DOMAIN lines
  BY <1>1
<1> QED
  BY <1>1, <1>2, <1>3 DEF CarriedBy

\* A guarded call is read, or asked.
LEMMA ArrivesAsRequest ==
  ASSUME TypeOK, NEW w \in Workers, At(w, "idle"), NEW role, NEW minimum,
         NEW call, RequireRole(w, role, minimum, call),
         \/ RequestOf(call) \in Shelf!Requests
         \/ call = Answered("INVALID_ARGUMENT"),
         UNCHANGED <<books, lastId>>
  PROVE  Shelf!Ask(w) \/ Shelf!Read(w)
<1>1. Shelf!Kind(w) = "none" /\ UNCHANGED <<books, 1 .. lastId>>
  <2>1. calls[w].pc = "idle"
    BY DEF At
  <2> QED
    BY <2>1, RequestIs, RequestAt
<1>2. CASE \E status \in Shelf!Refusals : Answer(w, status)
  BY <1>1, <1>2, AnswerRequest DEF Shelf!Read
<1>3. CASE Become(w, call) /\ RequestOf(call) \in Shelf!Requests
  <2>1. Shelf!Become(w, RequestOf(call))
    BY <1>3, BecomeRequest
  <2>2. Requested' = [Requested EXCEPT ![w] = RequestOf(call)]
    BY <2>1 DEF Shelf!Become, Requested
  <2>3. Requested'[w] = RequestOf(call)
    BY <2>2 DEF Requested
  <2> QED
    BY <1>1, <1>3, <2>1, <2>3 DEF Shelf!Ask, Requested
<1>4. Become(w, call) \/ \E status \in Shelf!Refusals : Answer(w, status)
  BY DEF RequireRole, Answer, Shelf!Refusals
<1>5. Become(w, call) /\ call = Answered("INVALID_ARGUMENT") =>
        \E status \in Shelf!Refusals : Answer(w, status)
  BY DEF Answer, Shelf!Refusals
<1> QED
  BY <1>2, <1>3, <1>4, <1>5

LEMMA ArriveRefines ==
  ASSUME CatalogInv, NEW w \in Workers, Arrive(w)
  PROVE  Shelf!Ask(w) \/ Shelf!Read(w)
<1>1. TypeOK
  BY DEF CatalogInv, TypeInv
<1>2. ASSUME NEW role, NEW complete, NEW isbn \in AnyIsbn, NEW total \in Copies,
             CreateBook(w, role, complete, isbn, total)
      PROVE  Shelf!Ask(w) \/ Shelf!Read(w)
  <2> DEFINE asked == [Blank EXCEPT
                 !.pc = IF isbn = NoIsbn THEN "createInsert" ELSE "createLookup",
                 !.isbn = isbn, !.total = total, !.available = total]
             c == IF ~complete \/ total < 1 THEN Answered("INVALID_ARGUMENT")
                                            ELSE asked
  <2>1. /\ asked.pc \in {"createLookup", "createInsert"}
        /\ asked.isbn = isbn /\ asked.total = total
    BY DEF Blank
  <2>2. RequestOf(asked) = [kind |-> "create", isbn |-> isbn, total |-> total]
    <3> HIDE DEF asked
    <3> QED
      BY <2>1, RequestAt
  <2>3. RequestOf(asked) \in Shelf!Requests
    BY <2>2 DEF Shelf!Requests, Shelf!Creations, Shelf!AnyIsbn, AnyIsbn
  <2>4. RequireRole(w, role, "Admin", c) /\ At(w, "idle")
        /\ UNCHANGED <<books, lastId>>
    BY <1>2 DEF CreateBook, Unwritten
  <2> HIDE DEF asked
  <2>5. RequestOf(c) \in Shelf!Requests \/ c = Answered("INVALID_ARGUMENT")
    BY <2>3
  <2> HIDE DEF c
  <2> QED
    BY <1>1, <2>4, <2>5, ArrivesAsRequest
<1>3. ASSUME NEW role, NEW complete, NEW id \in Ids, NEW isbn \in AnyIsbn,
             NEW total \in Copies, NEW available \in Copies,
             UpdateBook(w, role, complete, id, isbn, total, available)
      PROVE  Shelf!Ask(w) \/ Shelf!Read(w)
  <2> DEFINE asked == [Blank EXCEPT
                 !.pc = IF isbn = NoIsbn THEN "updateWrite" ELSE "updateLookup",
                 !.id = id, !.isbn = isbn, !.total = total,
                 !.available = available]
             c == IF ~complete \/ ~CopiesAllowed(total, available)
                    THEN Answered("INVALID_ARGUMENT") ELSE asked
  <2>1. /\ asked.pc \in {"updateLookup", "updateWrite"} /\ asked.id = id
        /\ asked.isbn = isbn /\ asked.total = total
        /\ asked.available = available
    BY DEF Blank
  <2>2. RequestOf(asked) = [kind |-> "update", id |-> id, isbn |-> isbn,
                            total |-> total, available |-> available]
    <3> HIDE DEF asked
    <3> QED
      BY <2>1, RequestAt
  <2>3. RequestOf(asked) \in Shelf!Requests
    BY <2>2 DEF Shelf!Requests, Shelf!Updates, Shelf!AnyIsbn, AnyIsbn
  <2>4. RequireRole(w, role, "Admin", c) /\ At(w, "idle")
        /\ UNCHANGED <<books, lastId>>
    BY <1>3 DEF UpdateBook, Unwritten
  <2> HIDE DEF asked
  <2>5. RequestOf(c) \in Shelf!Requests \/ c = Answered("INVALID_ARGUMENT")
    BY <2>3
  <2> HIDE DEF c
  <2> QED
    BY <1>1, <2>4, <2>5, ArrivesAsRequest
<1>4. ASSUME NEW role, NEW id \in Ids, DeleteBook(w, role, id)
      PROVE  Shelf!Ask(w) \/ Shelf!Read(w)
  <2> DEFINE c == [Blank EXCEPT !.pc = "deleteRemove", !.id = id]
  <2>1. c.pc = "deleteRemove" /\ c.id = id
    BY DEF Blank
  <2>2. RequireRole(w, role, "Admin", c) /\ At(w, "idle")
        /\ UNCHANGED <<books, lastId>>
    BY <1>4 DEF DeleteBook, Unwritten
  <2> HIDE DEF c
  <2>3. RequestOf(c) \in Shelf!Requests
    BY <2>1, RequestAt DEF Shelf!Requests, Shelf!Deletions
  <2> QED
    BY <1>1, <2>2, <2>3, ArrivesAsRequest
<1>5. ASSUME NEW role, NEW id, GetBook(w, role, id)
      PROVE  Shelf!Ask(w) \/ Shelf!Read(w)
  <2> DEFINE c == [Blank EXCEPT !.pc = "getRead", !.id = id]
  <2>1. c.pc = "getRead"
    BY DEF Blank
  <2>2. RequireRole(w, role, "User", c) /\ At(w, "idle")
        /\ UNCHANGED <<books, lastId>>
    BY <1>5 DEF GetBook, Unwritten
  <2> HIDE DEF c
  <2>3. RequestOf(c) \in Shelf!Requests
    BY <2>1, RequestAt DEF Shelf!Requests, Shelf!Readings
  <2> QED
    BY <1>1, <2>2, <2>3, ArrivesAsRequest
<1>6. ASSUME NEW role, NEW minimum, ListBooks(w, role, minimum)
      PROVE  Shelf!Ask(w) \/ Shelf!Read(w)
  <2> DEFINE c == [Blank EXCEPT !.pc = "listRead"]
  <2>1. c.pc = "listRead"
    BY DEF Blank
  <2>2. RequireRole(w, role, minimum, c) /\ At(w, "idle")
        /\ UNCHANGED <<books, lastId>>
    BY <1>6 DEF ListBooks, Unwritten
  <2> HIDE DEF c
  <2>3. RequestOf(c) \in Shelf!Requests
    BY <2>1, RequestAt DEF Shelf!Requests, Shelf!Readings
  <2> QED
    BY <1>1, <2>2, <2>3, ArrivesAsRequest
<1>7. ASSUME NEW role, NEW mode \in Modes, NEW file \in Files,
             ImportBooks(w, role, mode, file)
      PROVE  Shelf!Ask(w) \/ Shelf!Read(w)
  <2> DEFINE c == [Blank EXCEPT
          !.pc = IF mode = "Replace" THEN "importRead" ELSE "importLine",
          !.mode = mode, !.lines = file]
  <2>1. /\ c.pc \in {"importRead", "importLine"} /\ c.lines = file
        /\ c.todo = {} /\ c.imported = 0
    BY DEF Blank
  <2>2. RequireRole(w, role, "Admin", c) /\ At(w, "idle")
        /\ UNCHANGED <<books, lastId>>
    BY <1>7 DEF ImportBooks, Unwritten
  <2> HIDE DEF c
  <2>3. CarriedBy(file) \in SUBSET Shelf!Carried
    BY CatalogAssumption, CarriedType
  <2>4. \/ RequestOf(c) = [kind |-> "replace", carries |-> CarriedBy(file)]
        \/ RequestOf(c) = [kind |-> "import", clears |-> {},
                           carries |-> CarriedBy(file), counted |-> 0]
    BY <2>1, RequestAt
  <2>5. RequestOf(c) \in Shelf!Imports
    BY <2>3, <2>4 DEF Shelf!Imports
  <2>6. RequestOf(c) \in Shelf!Requests
    BY <2>5 DEF Shelf!Requests
  <2> QED
    BY <1>1, <2>2, <2>6, ArrivesAsRequest
<1> QED
  BY <1>2, <1>3, <1>4, <1>5, <1>6, <1>7 DEF Arrive, Sent, AnyIsbn
\* A row that is inserted is added under an id that was not used.
LEMMA InsertAdds ==
  ASSUME TypeOK, NEW isbn, NEW total, Insert(isbn, total, total)
  PROVE  Shelf!Add(isbn, total)
<1>1. /\ lastId' = lastId + 1 /\ lastId + 1 \in Ids
      /\ books' = books \union {[id |-> lastId + 1, isbn |-> isbn,
                                 total |-> total, available |-> total]}
  BY DEF Insert, CanInsert, NextRowId
<1>2. lastId \in Nat
  BY CatalogAssumption DEF TypeOK, Ids
<1>3. /\ lastId + 1 \notin 1 .. lastId
      /\ 1 .. lastId' = 1 .. lastId \union {lastId + 1}
  BY <1>1, <1>2
<1> QED
  BY <1>1, <1>3 DEF Shelf!Add

LEMMA ServeRefines ==
  ASSUME CatalogInv, NEW w \in Workers, Serve(w)
  PROVE  Shelf!Next \/ UNCHANGED Shelf!vars
<1>1. /\ TypeOK /\ calls[w] \in Call /\ WellFormed(calls[w])
  BY DEF CatalogInv, TypeInv, TypeOK
<1> DEFINE c == calls[w]
<1>2. /\ Requested[w] = RequestOf(c)
      /\ Shelf!Kind(w) = RequestOf(c).kind
  BY RequestIs
<1>3. /\ c.pc \in Places /\ c.id \in Ids \union {0} /\ c.isbn \in AnyIsbn
      /\ c.total \in Int /\ c.available \in Int
      /\ c.todo \subseteq Ids /\ c.lines \in Seq(Lines) /\ c.imported \in Nat
  BY <1>1 DEF Call, AnyIsbn
<1>4. Answer(w, "INVALID_ARGUMENT") \/ Answer(w, "NOT_FOUND") =>
        \E status \in Shelf!Refusals :
          Shelf!Become(w, Shelf!Reply(status))
  BY <1>1, AnswerRequest DEF Shelf!Refusals
<1>5. Answer(w, "OK") => Shelf!Become(w, Shelf!Reply("OK"))
  BY <1>1, AnswerRequest
<1>6. ASSUME c.pc \in {"createLookup", "createInsert", "updateLookup",
                       "updateWrite", "deleteRemove"},
             Answer(w, "INVALID_ARGUMENT") \/ Answer(w, "NOT_FOUND"),
             UNCHANGED <<books, lastId>>
      PROVE  Shelf!Refuse(w)
  <2>1. Shelf!Kind(w) \in {"create", "update", "delete"}
    BY <1>2, <1>6, RequestAt
  <2>2. UNCHANGED <<books, 1 .. lastId>>
    BY <1>6
  <2> QED
    BY <1>4, <1>6, <2>1, <2>2 DEF Shelf!Refuse
<1>7. CASE CreateBookLookup(w) \/ UpdateBookLookup(w)
  <2> DEFINE place == IF c.pc = "createLookup" THEN "createInsert"
                                               ELSE "updateWrite"
             d == [calls[w] EXCEPT !.pc = place]
  <2>1. /\ c.pc \in {"createLookup", "updateLookup"}
        /\ UNCHANGED <<books, lastId>>
        /\ Answer(w, "INVALID_ARGUMENT") \/ Become(w, d)
    BY <1>7 DEF CreateBookLookup, UpdateBookLookup, CheckIsbn, Goto, Unwritten, At
  <2>2. CASE Answer(w, "INVALID_ARGUMENT")
    BY <1>6, <2>1, <2>2 DEF Shelf!Next
  <2>3. CASE Become(w, d)
    <3>1. /\ d.pc = place /\ d.id = c.id /\ d.isbn = c.isbn
          /\ d.total = c.total /\ d.available = c.available
      BY <1>1 DEF Call
    <3> HIDE DEF d
    <3>2. RequestOf(d) = RequestOf(calls[w])
      BY <2>1, <3>1, RequestAt
    <3> QED
      BY <1>1, <2>1, <2>3, <3>2, SameRequest
  <2> QED
    BY <2>1, <2>2, <2>3
<1>8. CASE CreateBookInsert(w)
  <2>1. /\ c.pc = "createInsert" /\ c.available = c.total
        /\ Create(w, c.isbn, c.total, c.available,
                  Answered("OK"), Answered("INVALID_ARGUMENT"))
    BY <1>1, <1>8 DEF CreateBookInsert, At, WellFormed
  <2>2. Requested[w].kind = "create" /\ Requested[w].isbn = c.isbn
        /\ Requested[w].total = c.total
    BY <1>2, <2>1, RequestAt
  <2>3. CASE Insert(c.isbn, c.total, c.total)
             /\ (Answer(w, "OK") \/ Answer(w, "INVALID_ARGUMENT"))
    <3>1. Shelf!Add(Requested[w].isbn, Requested[w].total)
      BY <1>1, <2>2, <2>3, InsertAdds
    <3>2. \E status \in {"OK", "INVALID_ARGUMENT"} :
             Shelf!Become(w, Shelf!Reply(status))
      BY <1>1, <2>3, AnswerRequest
    <3> QED
      BY <1>2, <2>2, <3>1, <3>2 DEF Shelf!Create, Shelf!Next, Requested
  <2>4. CASE Answer(w, "INVALID_ARGUMENT") /\ UNCHANGED <<books, lastId>>
    BY <1>6, <2>1, <2>4 DEF Shelf!Next
  <2> QED
    BY <2>1, <2>3, <2>4 DEF Create, Answer
<1>9. CASE UpdateBookWrite(w)
  <2>1. c.pc = "updateWrite"
    BY <1>9 DEF UpdateBookWrite, At
  <2>2. RequestOf(c) = [kind |-> "update", id |-> c.id, isbn |-> c.isbn,
                        total |-> c.total, available |-> c.available]
    BY <2>1, RequestAt
  <2>3. CASE /\ Has(c.id) /\ Answer(w, "OK")
             /\ Update(c.id, c.isbn, c.total, c.available)
             /\ UNCHANGED lastId
    <3>1. PICK b \in books : b.id = c.id
      BY <2>3 DEF Has, IdsOf
    <3>2. b \in Row /\ \A d \in books : d.id = c.id => d = b
      BY <1>1, <3>1 DEF TypeOK, CatalogInv, IdsHandedOut
    <3>3. [b EXCEPT !.isbn = c.isbn, !.total = c.total,
                    !.available = c.available]
            = [id |-> b.id, isbn |-> c.isbn, total |-> c.total,
               available |-> c.available]
      <4> DEFINE old == [b EXCEPT !.isbn = c.isbn, !.total = c.total,
                                  !.available = c.available]
                 new == [id |-> b.id, isbn |-> c.isbn, total |-> c.total,
                         available |-> c.available]
      <4>1. old \in Row /\ new \in Row
        BY <1>3, <3>2 DEF Row, AnyIsbn
      <4>2. /\ old.id = new.id /\ old.isbn = new.isbn
            /\ old.total = new.total /\ old.available = new.available
        BY <3>2 DEF Row
      <4> HIDE DEF old, new
      <4>3. old = new
        BY <4>1, <4>2 DEF Row
      <4> QED
        BY <4>3 DEF old, new
    <3>4. books' = (books \ {b}) \union
             {[id |-> b.id, isbn |-> c.isbn, total |-> c.total,
               available |-> c.available]}
      BY <2>3, <3>1, <3>2, <3>3, ZenonT(30) DEF Update
    <3> QED
      BY <1>2, <1>5, <2>2, <2>3, <3>1, <3>4
         DEF Shelf!Update, Shelf!Next, Requested
  <2>4. CASE Answer(w, "INVALID_ARGUMENT") /\ UNCHANGED <<books, lastId>>
    BY <1>6, <2>1, <2>4 DEF Shelf!Next
  <2> QED
    BY <1>9, <2>3, <2>4 DEF UpdateBookWrite
<1>10. CASE DeleteBookRemove(w)
  <2>1. c.pc = "deleteRemove"
    BY <1>10 DEF DeleteBookRemove, At
  <2>2. RequestOf(c) = [kind |-> "delete", id |-> c.id]
    BY <2>1, RequestAt
  <2>3. CASE Has(c.id) /\ Remove(c.id) /\ Answer(w, "OK") /\ UNCHANGED lastId
    BY <1>2, <1>5, <2>2, <2>3
       DEF Shelf!Delete, Shelf!Next, Requested, Has, Remove, IdsOf, Shelf!IdsOf
  <2>4. CASE Answer(w, "NOT_FOUND") /\ UNCHANGED <<books, lastId>>
    BY <1>6, <2>1, <2>4 DEF Shelf!Next
  <2> QED
    BY <1>10, <2>3, <2>4 DEF DeleteBookRemove
<1>11. CASE GetBookRead(w) \/ ListBooksRead(w)
  <2>1. c.pc \in {"getRead", "listRead"} /\ UNCHANGED <<books, lastId>>
        /\ (Answer(w, "OK") \/ Answer(w, "NOT_FOUND"))
    BY <1>11 DEF GetBookRead, ListBooksRead, At, Unwritten
  <2>2. Shelf!Kind(w) = "other" /\ UNCHANGED <<books, 1 .. lastId>>
    BY <1>2, <2>1, RequestAt
  <2> QED
    BY <1>4, <1>5, <2>1, <2>2 DEF Shelf!Read, Shelf!Next
<1>12. CASE ImportRead(w)
  <2>1. c.pc = "importRead" /\ c.imported = 0 /\ UNCHANGED <<books, lastId>>
    BY <1>1, <1>12 DEF ImportRead, At, Unwritten, WellFormed
  <2>2. PICK rows \in FindAll :
          Become(w, [calls[w] EXCEPT !.pc = "importRemove", !.seen = IdsOf(rows),
                                     !.todo = IdsOf(rows)])
    BY <1>12 DEF ImportRead
  <2> DEFINE d == [calls[w] EXCEPT !.pc = "importRemove", !.seen = IdsOf(rows),
                                   !.todo = IdsOf(rows)]
  <2>3. d.pc = "importRemove" /\ d.todo = IdsOf(rows) /\ d.lines = c.lines
        /\ d.imported = c.imported
    BY <1>1 DEF Call
  <2>4. Become(w, d)
    BY <2>2
  <2> HIDE DEF d
  <2>5. RequestOf(d) = [kind |-> "import", clears |-> IdsOf(rows),
                        carries |-> CarriedBy(c.lines), counted |-> 0]
    BY <2>1, <2>3, RequestAt
  <2>6. RequestOf(c) = [kind |-> "replace", carries |-> CarriedBy(c.lines)]
    BY <2>1, RequestAt
  <2>7. IdsOf(rows) \in SUBSET Shelf!IdsOf(books)
    BY DEF FindAll, IdsOf, Shelf!IdsOf
  <2>8. Shelf!Become(w, RequestOf(d))
    BY <1>1, <2>4, BecomeRequest
  <2>9. Shelf!Look(w)
    BY <1>2, <2>1, <2>5, <2>6, <2>7, <2>8 DEF Shelf!Look, Requested
  <2> QED
    BY <2>9 DEF Shelf!Next
<1>13. CASE ImportRemove(w)
  <2>1. c.pc = "importRemove" /\ UNCHANGED lastId
    BY <1>13 DEF ImportRemove, At
  <2>2. RequestOf(c) = [kind |-> "import", clears |-> c.todo,
                        carries |-> CarriedBy(c.lines), counted |-> c.imported]
    BY <2>1, RequestAt
  <2>3. ASSUME NEW id \in c.todo, Remove(id) \/ UNCHANGED books,
               Become(w, [calls[w] EXCEPT !.todo = @ \ {id}])
        PROVE  Shelf!Clear(w)
    <3> DEFINE d == [calls[w] EXCEPT !.todo = @ \ {id}]
    <3>1. d.pc = c.pc /\ d.todo = c.todo \ {id} /\ d.lines = c.lines
          /\ d.imported = c.imported
      BY <1>1 DEF Call
    <3>2. Become(w, d)
      BY <2>3
    <3> HIDE DEF d
    <3>3. RequestOf(d) = [RequestOf(c) EXCEPT !.clears = @ \ {id}]
      BY <2>1, <2>2, <3>1, RequestAt
    <3>4. Shelf!Become(w, [Requested[w] EXCEPT !.clears = @ \ {id}])
      BY <1>1, <1>2, <3>2, <3>3, BecomeRequest
    <3>5. \E gone \in SUBSET {id} : books' = {b \in books : b.id \notin gone}
      <4>1. CASE Remove(id)
        <5> WITNESS {id} \in SUBSET {id}
        <5> QED
          BY <4>1 DEF Remove
      <4>2. CASE UNCHANGED books
        <5> WITNESS {} \in SUBSET {id}
        <5> QED
          BY <4>2
      <4> QED
        BY <2>3, <4>1, <4>2
    <3>6. {id} \in SUBSET Requested[w].clears
      BY <1>2, <2>2
    <3>7. Shelf!Kind(w) = "import" /\ UNCHANGED (1 .. lastId)
      BY <1>2, <2>1, <2>2
    <3> QED
      BY <3>4, <3>5, <3>6, <3>7 DEF Shelf!Clear, Requested
  <2>4. CASE c.todo = {} /\ Goto(w, "importLine") /\ UNCHANGED books
    <3> DEFINE d == [calls[w] EXCEPT !.pc = "importLine"]
    <3>1. d.pc = "importLine" /\ d.todo = c.todo /\ d.lines = c.lines
          /\ d.imported = c.imported
      BY <1>1 DEF Call
    <3>2. Become(w, d)
      BY <2>4 DEF Goto
    <3> HIDE DEF d
    <3>3. RequestOf(d) = RequestOf(calls[w])
      BY <2>1, <3>1, RequestAt
    <3> QED
      BY <1>1, <2>1, <2>4, <3>2, <3>3, SameRequest
  <2> QED
    BY <1>13, <2>3, <2>4 DEF ImportRemove, Shelf!Next
<1>14. CASE ImportLine(w)
  <2>1. c.pc = "importLine" /\ c.lines # <<>> /\ c.todo = {}
    BY <1>1, <1>14 DEF ImportLine, At, WellFormed
  <2>2. RequestOf(c) = [kind |-> "import", clears |-> {},
                        carries |-> CarriedBy(c.lines), counted |-> c.imported]
    BY <2>1, RequestAt
  <2>3. CarriedBy(Tail(c.lines)) \in SUBSET CarriedBy(c.lines)
    BY <1>3, <2>1, CarriedTail
  <2> DEFINE line == Head(calls[w].lines)
             reads(d, more) == /\ d.pc = "importLine" /\ d.todo = {}
                               /\ d.lines = Tail(c.lines)
                               /\ d.imported = c.imported + more
             Stores == \E book \in Requested[w].carries :
                         Shelf!Add(book.isbn, book.total)
  <2>4. ASSUME NEW d, NEW more \in {0, 1}, Become(w, d), reads(d, more),
               Stores \/ (more = 0 /\ UNCHANGED <<books, 1 .. lastId>>)
        PROVE  Shelf!Line(w)
    <3> DEFINE asked == Requested[w]
               left == CarriedBy(Tail(c.lines))
               counted == c.imported
    <3>1. RequestOf(d) = [kind |-> "import", clears |-> {}, carries |-> left,
                          counted |-> counted + more]
      BY <2>4, RequestAt
    <3>2. asked = [kind |-> "import", clears |-> {}, carries |-> CarriedBy(c.lines),
                   counted |-> counted]
      BY <1>2, <2>2
    <3>3. left \in SUBSET asked.carries /\ asked.kind = "import" /\ asked.clears = {}
      <4>1. left \in SUBSET CarriedBy(c.lines)
        BY <2>3
      <4> HIDE DEF asked, left, counted
      <4> QED
        BY <3>2, <4>1
    <3>4. Shelf!Become(w, RequestOf(d))
      BY <1>1, <2>4, BecomeRequest
    <3> HIDE DEF asked, left, counted
    <3> DEFINE read == [asked EXCEPT !.carries = left, !.counted = @ + more]
    <3>5. ASSUME NEW q, q = read PROVE RequestOf(d) = q
      <4>1. DOMAIN q = {"kind", "clears", "carries", "counted"}
        BY <3>2, <3>5
      <4>2. /\ q.kind = "import" /\ q.clears = {} /\ q.carries = left
            /\ q.counted = counted + more
        BY <3>2, <3>5
      <4>3. q = [x \in DOMAIN q |-> q[x]]
        BY <3>2, <3>5
      <4> HIDE DEF read
      <4> QED
        BY <3>1, <4>1, <4>2, <4>3
    <3>6. Shelf!Become(w, read)
      <4> HIDE DEF read
      <4>1. RequestOf(d) = read
        BY <3>5
      <4> QED
        BY <3>4, <4>1
    <3> QED
      BY <2>4, <3>3, <3>6 DEF Shelf!Line, Shelf!Kind, Requested, asked
  <2>5. reads(Imported(c), 1) /\ reads(Skipped(c), 0)
    <3>1. c.imported \in Int /\ c \in Call
      BY <1>1 DEF Call
    <3>2. /\ Imported(c).pc = c.pc /\ Imported(c).todo = c.todo
          /\ Imported(c).lines = Tail(c.lines)
          /\ Imported(c).imported = c.imported + 1
      BY <3>1 DEF Call, Imported
    <3>3. /\ Skipped(c).pc = c.pc /\ Skipped(c).todo = c.todo
          /\ Skipped(c).lines = Tail(c.lines)
          /\ Skipped(c).imported = c.imported
      BY <3>1 DEF Call, Skipped
    <3> QED
      BY <2>1, <3>1, <3>2, <3>3
  <2> HIDE DEF reads
  <2>6. ASSUME Become(w, Skipped(c)), UNCHANGED <<books, lastId>>
        PROVE  Shelf!Line(w)
    <3>1. UNCHANGED <<books, 1 .. lastId>> /\ 0 \in {0, 1}
      BY <2>6
    <3> QED
      BY <2>4, <2>5, <2>6, <3>1
  <2>7. ASSUME line.kind = "book", Insert(line.isbn, line.total, line.total),
               NEW more \in {0, 1}, NEW d, reads(d, more), Become(w, d)
        PROVE  Shelf!Line(w)
    <3>1. [isbn |-> line.isbn, total |-> line.total] \in CarriedBy(c.lines)
      BY <1>3, <2>1, <2>7, CarriedTail
    <3>2. Shelf!Add(line.isbn, line.total)
      BY <1>1, <2>7, InsertAdds
    <3>3. Stores
      <4> DEFINE book == [isbn |-> line.isbn, total |-> line.total]
      <4>1. book \in Requested[w].carries
        BY <1>2, <2>2, <3>1
      <4>2. book.isbn = line.isbn /\ book.total = line.total
        OBVIOUS
      <4> HIDE DEF book
      <4> QED
        BY <3>2, <4>1, <4>2
    <3> HIDE DEF Stores
    <3> QED
      BY <2>4, <2>7, <3>3
  <2>8. \/ Become(w, Skipped(c)) /\ UNCHANGED <<books, lastId>>
        \/ /\ line.kind = "book" /\ Insert(line.isbn, line.total, line.total)
           /\ Become(w, Imported(c)) \/ Become(w, Skipped(c))
    BY <1>14 DEF ImportLine, Create
  <2>9. 0 \in {0, 1} /\ 1 \in {0, 1}
    OBVIOUS
  <2>10. Shelf!Line(w)
    <3> HIDE DEF line, c
    <3> QED
      BY <2>5, <2>6, <2>7, <2>8, <2>9
  <2> QED
    BY <2>10 DEF Shelf!Next
<1>15. CASE ImportReply(w)
  <2> DEFINE d == [Answered("OK") EXCEPT !.imported = calls[w].imported,
                                         !.skipped = calls[w].skipped]
  <2>1. /\ c.pc = "importLine" /\ c.lines = <<>> /\ c.todo = {}
        /\ Become(w, d) /\ UNCHANGED <<books, lastId>>
    BY <1>1, <1>15 DEF ImportReply, At, WellFormed, Unwritten
  <2>2. d.pc = "idle" /\ d.reply = "OK" /\ d.imported = c.imported
    BY DEF Answered, Blank
  <2> HIDE DEF d
  <2>3. RequestOf(d) = [Shelf!Reply("OK") EXCEPT !.counted = c.imported]
    BY <2>2, RequestAt DEF Shelf!Reply
  <2>4. Shelf!Become(w, [Shelf!Reply("OK") EXCEPT !.counted = c.imported])
    BY <1>1, <2>1, <2>3, BecomeRequest
  <2>5. CarriedBy(c.lines) = {}
    BY <2>1 DEF CarriedBy
  <2>6. RequestOf(c) = [kind |-> "import", clears |-> {}, carries |-> {},
                        counted |-> c.imported]
    BY <2>1, <2>5, RequestAt
  <2>7. Shelf!Kind(w) = "import" /\ Requested[w].clears = {}
        /\ Requested[w].carries = {} /\ Requested[w].counted = c.imported
        /\ UNCHANGED <<books, 1 .. lastId>>
    BY <1>2, <2>1, <2>6
  <2>8. Shelf!Finish(w)
    BY <2>4, <2>7 DEF Shelf!Finish, Requested
  <2> QED
    BY <2>8 DEF Shelf!Next
<1> QED
  BY <1>7, <1>8, <1>9, <1>10, <1>11, <1>12, <1>13, <1>14, <1>15
     DEF Serve, ImportStep

\* Whatever calls overlap, whatever fails and wherever the process stops, the
\* handlers keep the promises of the abstract shelf: a request takes effect at
\* most once and is answered OK only if it did, and an import touches nothing
\* but its snapshot and its file's books and counts none that it did not store.
THEOREM IsBookShelf == Spec => ImplementsShelf
<1>1. Init => Shelf!Init
  <2> SUFFICES ASSUME Init PROVE Shelf!Init
    OBVIOUS
  <2>1. books = {} /\ 1 .. lastId = {} /\ calls = [w \in Workers |-> Blank]
    BY DEF Init
  <2>2. RequestOf(Blank) = [kind |-> "none", reply |-> "none", counted |-> 0]
    <3>1. Blank.pc = "idle" /\ Blank.reply = "none" /\ Blank.imported = 0
      BY DEF Blank
    <3> QED
      BY <3>1, RequestAt
  <2>3. Requested = [w \in Workers |->
                        [kind |-> "none", reply |-> "none", counted |-> 0]]
    BY <2>1, <2>2 DEF Requested
  <2> QED
    BY <2>1, <2>3 DEF Shelf!Init, Shelf!Reply, Requested
<1>2. CatalogInv /\ [Next]_vars => [Shelf!Next]_Shelf!vars
  <2> SUFFICES ASSUME CatalogInv, [Next]_vars
               PROVE  Shelf!Next \/ UNCHANGED Shelf!vars
    OBVIOUS
  <2>1. CASE UNCHANGED vars \/ Boot
    <3>1. UNCHANGED <<books, lastId, calls>>
      BY <2>1 DEF vars, Boot
    <3> QED
      BY <3>1 DEF Shelf!vars
  <2>2. CASE Crash
    <3>1. UNCHANGED <<books, 1 .. lastId>> /\ calls' = [w \in Workers |-> Blank]
      BY <2>2 DEF Crash
    <3>2. RequestOf(Blank) = [kind |-> "none", reply |-> "none", counted |-> 0]
      <4>1. Blank.pc = "idle" /\ Blank.reply = "none" /\ Blank.imported = 0
        BY DEF Blank
      <4> QED
        BY <4>1, RequestAt
    <3>3. Requested' = [w \in Workers |->
                        [kind |-> "none", reply |-> "none", counted |-> 0]]
      BY <3>1, <3>2 DEF Requested
    <3> QED
      BY <3>1, <3>3 DEF Shelf!Next, Shelf!Halt, Shelf!Reply, Requested
  <2>3. ASSUME NEW w \in Workers, Arrive(w) PROVE Shelf!Next
    BY <2>3, ArriveRefines DEF Shelf!Next
  <2>4. ASSUME NEW w \in Workers, Serve(w)
        PROVE  Shelf!Next \/ UNCHANGED Shelf!vars
    BY <2>4, ServeRefines
  <2> QED
    BY <2>1, <2>2, <2>3, <2>4 DEF Next
<1> QED
  BY <1>1, <1>2, Invariance, PTL DEF Spec, ImplementsShelf, Shelf!Spec

-----------------------------------------------------------------------------
(* Writers that do not overlap, when no statement fails: what              *)
(* isbnAlreadyRegistered found holds until the statement it guards, and a  *)
(* Replace import counts the books it leaves.  SoloInv says at each place  *)
(* a writer may stand what it knows of the table: a step of a worker that  *)
(* is not writing leaves the table alone, and while one is writing no      *)
(* other is.                                                               *)

\* No book has the ISBN, unless it is the one with the id.
FreeFor(isbn, id) ==
  isbn # NoIsbn => Holders(isbn) = {} \/ \E b \in Holders(isbn) : b.id = id

\* What the worker knows of the table at its place.
Knows(w) ==
  LET c == calls[w] IN
    /\ c.pc = "createInsert" => FreeFor(c.isbn, 0)
    /\ c.pc = "updateWrite" => FreeFor(c.isbn, c.id)
    /\ c.pc \in {"importRead", "importRemove"} => c.imported = 0
    /\ c.pc = "importRemove" => IdsOf(books) \subseteq c.todo
    /\ c.pc = "importLine" /\ c.mode = "Replace" =>
         Cardinality(books) = c.imported

SoloInv == CatalogInv /\ SoloWriter /\ \A w \in Workers : Knows(w)

-----------------------------------------------------------------------------
(* The table.                                                               *)

LEMMA BooksFinite ==
  ASSUME CatalogInv
  PROVE  IsFiniteSet(books)
<1> DEFINE idOf == [b \in books |-> b.id]
<1>1. IsFiniteSet(Ids)
  BY CatalogAssumption, FS_Interval DEF Ids
<1>2. idOf \in Injection(books, Ids)
  BY DEF Injection, IsInjective, CatalogInv, TypeInv, TypeOK, Row, IdsHandedOut
<1> QED
  BY <1>1, <1>2, FS_Injection

\* A set of numbers that is not empty has a least one.
LEMMA Least ==
  ASSUME NEW S \in SUBSET Nat, S # {}
  PROVE  \E i \in S : \A j \in S : i <= j
<1>1. IsWellFoundedOn(OpToRel(<, Nat), Nat)
  BY NatLessThanWellFounded
<1> DEFINE R == {p \in Nat \X Nat : p[1] < p[2]}
<1>2. IsWellFoundedOn(R, Nat)
  BY <1>1 DEF OpToRel
<1>3. \A i, j \in Nat : j < i => <<j, i>> \in R
  OBVIOUS
<1> HIDE DEF R
<1>4. PICK i \in S : \A j \in S : ~(<<j, i>> \in R)
  BY <1>2, WFMin
<1>5. ASSUME NEW j \in S PROVE i <= j
  <2>1. i \in Nat /\ j \in Nat /\ ~(j < i)
    BY <1>3, <1>4
  <2> QED
    BY <2>1
<1> QED
  BY <1>5

\* findByIsbn returns a book that has the ISBN, if there is one.
LEMMA FirstHolderHolds ==
  ASSUME CatalogInv, NEW isbn, Holders(isbn) # {}
  PROVE  FirstHolder(isbn) \in Holders(isbn)
<1> DEFINE S == IdsOf(Holders(isbn))
<1>1. S \in SUBSET Nat /\ S # {}
  BY CatalogAssumption
     DEF Holders, IdsOf, CatalogInv, TypeInv, TypeOK, Row, Ids
<1>2. PICK i \in S : \A j \in S : i <= j
  <2> HIDE DEF S
  <2> QED
    BY <1>1, Least
<1>3. PICK b \in Holders(isbn) : b.id = i
  BY <1>2 DEF IdsOf
<1>4. \A c \in Holders(isbn) : b.id <= c.id
  BY <1>2, <1>3 DEF IdsOf
<1> QED
  BY <1>3, <1>4 DEF FirstHolder

LEMMA NotTakenIsFree ==
  ASSUME CatalogInv, NEW isbn, NEW id, ~IsbnTaken(isbn, id)
  PROVE  FreeFor(isbn, id)
BY FirstHolderHolds DEF IsbnTaken, FreeFor

\* If whatever shares an ISBN after a step did before, no two books came to.
LEMMA NoNewClash ==
  ASSUME \A x, y \in books' :
           x.isbn = y.isbn /\ x.isbn # NoIsbn /\ x.id < y.id =>
             \E b, c \in books : /\ b.id = x.id /\ c.id = y.id
                                 /\ b.isbn = c.isbn /\ b.isbn # NoIsbn
  PROVE  Clashes' \subseteq Clashes
<1> SUFFICES ASSUME NEW x \in books', NEW y \in books',
                    x.isbn = y.isbn, x.isbn # NoIsbn, x.id < y.id
             PROVE  <<x.id, y.id>> \in Clashes
  BY DEF Clashes
<1>1. PICK b \in books, c \in books :
        b.id = x.id /\ c.id = y.id /\ b.isbn = c.isbn /\ b.isbn # NoIsbn
  OBVIOUS
<1> DEFINE p == <<b, c>>
<1>2. p \in {q \in books \X books : /\ q[1].isbn = q[2].isbn
                                    /\ q[1].isbn # NoIsbn
                                    /\ q[1].id < q[2].id}
  BY <1>1
<1>3. <<p[1].id, p[2].id>> = <<x.id, y.id>>
  BY <1>1
<1> QED
  BY <1>2, <1>3 DEF Clashes

\* A new book with a free ISBN clashes with none.
LEMMA InsertClashes ==
  ASSUME CatalogInv, NEW isbn, NEW total, NEW available,
         FreeFor(isbn, 0), Insert(isbn, total, available)
  PROVE  Clashes' \subseteq Clashes
<1> DEFINE new == [id |-> NextRowId, isbn |-> isbn, total |-> total,
                   available |-> available]
<1>1. books' = books \union {new} /\ new.id = NextRowId /\ new.isbn = isbn
  BY DEF Insert
<1> HIDE DEF new
<1>2. \A b \in books : b.id \in Nat \ {0}
  BY CatalogAssumption DEF CatalogInv, TypeInv, TypeOK, Row, Ids
<1>3. isbn # NoIsbn => \A b \in books : b.isbn # isbn
  BY <1>2 DEF FreeFor, Holders
<1>4. NextRowId \in Int
  BY DEF CatalogInv, TypeInv, TypeOK, NextRowId, Ids
<1> SUFFICES ASSUME NEW x \in books', NEW y \in books',
                    x.isbn = y.isbn, x.isbn # NoIsbn, x.id < y.id
             PROVE  x \in books /\ y \in books
  BY NoNewClash
<1>5. ~(x = new /\ y = new)
  BY <1>1, <1>4
<1> QED
  BY <1>1, <1>3, <1>5

\* A book that takes an ISBN that is free for it clashes with no other.
LEMMA UpdateClashes ==
  ASSUME CatalogInv, NEW id, NEW isbn \in AnyIsbn, NEW total \in Int,
         NEW available \in Int,
         FreeFor(isbn, id), Update(id, isbn, total, available)
  PROVE  Clashes' \subseteq Clashes
<1>1. books \subseteq Row /\ \A b, c \in books : b.id = c.id => b = c
  BY DEF CatalogInv, TypeInv, TypeOK, IdsHandedOut
<1>2. \A x \in books' : \E b \in books :
         x.id = b.id /\ x.isbn = IF b.id = id THEN isbn ELSE b.isbn
  <2> SUFFICES ASSUME NEW b \in books
               PROVE  LET u == [b EXCEPT !.isbn = isbn, !.total = total,
                                         !.available = available]
                      IN  u.id = b.id /\ u.isbn = isbn
    BY ZenonT(30) DEF Update
  <2> QED
    BY <1>1 DEF Row
<1>3. isbn = NoIsbn \/ (\A b \in books : b.isbn # isbn)
        \/ \A b \in books : b.id = id => b.isbn = isbn
  BY <1>1 DEF FreeFor, Holders
<1>4. \A b \in books : b.id \in Int
  BY <1>1 DEF Row, Ids
<1> SUFFICES ASSUME NEW x \in books', NEW y \in books',
                    x.isbn = y.isbn, x.isbn # NoIsbn, x.id < y.id
             PROVE  \E b, c \in books : /\ b.id = x.id /\ c.id = y.id
                                        /\ b.isbn = c.isbn /\ b.isbn # NoIsbn
  BY NoNewClash
<1>5. PICK b \in books :
        x.id = b.id /\ x.isbn = IF b.id = id THEN isbn ELSE b.isbn
  BY <1>2
<1>6. PICK c \in books :
        y.id = c.id /\ y.isbn = IF c.id = id THEN isbn ELSE c.isbn
  BY <1>2
<1>7. ~(b.id = id /\ c.id = id)
  BY <1>4, <1>5, <1>6
<1> QED
  BY <1>3, <1>5, <1>6, <1>7
-----------------------------------------------------------------------------
(* What workers know.                                                       *)

\* What an arriving call may become knows nothing of the table yet.
Fresh(c) ==
  /\ c.pc \in {"createInsert", "updateWrite"} => c.isbn = NoIsbn
  /\ c.pc = "importRead" => c.imported = 0
  /\ c.pc # "importRemove"
  /\ c.pc = "importLine" => c.mode # "Replace"

LEMMA BecomeFresh ==
  ASSUME CatalogInv, NEW w \in Workers, NEW c, Fresh(c), Become(w, c)
  PROVE  Knows(w)'
<1>1. calls'[w] = c
  BY DEF Become, CatalogInv, TypeInv, TypeOK
<1> QED
  BY <1>1 DEF Fresh, Knows, FreeFor

LEMMA AnswerKnows ==
  ASSUME CatalogInv, NEW w \in Workers, NEW status, Answer(w, status)
  PROVE  Knows(w)'
<1>1. Fresh(Answered(status))
  BY DEF Answered, Blank, Fresh
<1> QED
  BY <1>1, BecomeFresh DEF Answer

LEMMA RequireRoleKnows ==
  ASSUME CatalogInv, NEW w \in Workers, NEW role, NEW minimum, NEW call,
         \/ Fresh(call)
         \/ \E status : call = Answered(status),
         RequireRole(w, role, minimum, call)
  PROVE  Knows(w)'
<1>1. Become(w, call) \/ \E status : Answer(w, status)
  BY DEF RequireRole, Answer
<1> QED
  BY <1>1, AnswerKnows, BecomeFresh DEF Answer

LEMMA ArriveKnows ==
  ASSUME CatalogInv, NEW w \in Workers, Arrive(w)
  PROVE  Knows(w)'
<1>1. ASSUME NEW role, NEW complete, NEW isbn, NEW total,
             CreateBook(w, role, complete, isbn, total)
      PROVE  Knows(w)'
  <2> DEFINE asked == [Blank EXCEPT
                 !.pc = IF isbn = NoIsbn THEN "createInsert" ELSE "createLookup",
                 !.isbn = isbn, !.total = total, !.available = total]
  <2>1. Fresh(asked)
    BY DEF Fresh, Blank
  <2> HIDE DEF asked
  <2> DEFINE c == IF ~complete \/ total < 1 THEN Answered("INVALID_ARGUMENT")
                                            ELSE asked
  <2>2. RequireRole(w, role, "Admin", c)
    BY <1>1 DEF CreateBook, asked
  <2>3. Fresh(c) \/ \E status : c = Answered(status)
    BY <2>1
  <2> HIDE DEF c
  <2> QED
    BY <2>2, <2>3, RequireRoleKnows
<1>2. ASSUME NEW role, NEW complete, NEW id, NEW isbn, NEW total, NEW available,
             UpdateBook(w, role, complete, id, isbn, total, available)
      PROVE  Knows(w)'
  <2> DEFINE asked == [Blank EXCEPT
                 !.pc = IF isbn = NoIsbn THEN "updateWrite" ELSE "updateLookup",
                 !.id = id, !.isbn = isbn, !.total = total,
                 !.available = available]
  <2>1. Fresh(asked)
    BY DEF Fresh, Blank
  <2> HIDE DEF asked
  <2> DEFINE c == IF ~complete \/ ~CopiesAllowed(total, available)
                    THEN Answered("INVALID_ARGUMENT") ELSE asked
  <2>2. RequireRole(w, role, "Admin", c)
    BY <1>2 DEF UpdateBook, asked
  <2>3. Fresh(c) \/ \E status : c = Answered(status)
    BY <2>1
  <2> HIDE DEF c
  <2> QED
    BY <2>2, <2>3, RequireRoleKnows
<1>3. ASSUME NEW role, NEW id, DeleteBook(w, role, id) \/ GetBook(w, role, id)
      PROVE  Knows(w)'
  <2>1. /\ Fresh([Blank EXCEPT !.pc = "deleteRemove", !.id = id])
        /\ Fresh([Blank EXCEPT !.pc = "getRead", !.id = id])
    BY DEF Fresh, Blank
  <2> QED
    BY <1>3, <2>1, RequireRoleKnows DEF DeleteBook, GetBook
<1>4. ASSUME NEW role, NEW minimum, ListBooks(w, role, minimum)
      PROVE  Knows(w)'
  <2>1. Fresh([Blank EXCEPT !.pc = "listRead"])
    BY DEF Fresh, Blank
  <2> QED
    BY <1>4, <2>1, RequireRoleKnows DEF ListBooks
<1>5. ASSUME NEW role, NEW mode, NEW file, ImportBooks(w, role, mode, file)
      PROVE  Knows(w)'
  <2>1. Fresh([Blank EXCEPT
                 !.pc = IF mode = "Replace" THEN "importRead" ELSE "importLine",
                 !.mode = mode, !.lines = file])
    BY DEF Fresh, Blank
  <2> QED
    BY <1>5, <2>1, RequireRoleKnows DEF ImportBooks
<1> QED
  BY <1>1, <1>2, <1>3, <1>4, <1>5 DEF Arrive

\* A worker that is not writing leaves the table alone; what it learns from it
\* is true.
LEMMA ReaderKnows ==
  ASSUME SoloInv, ~Faults, NEW w \in Workers, Serve(w), ~Writing(w)
  PROVE  Knows(w)' /\ UNCHANGED books
<1>1. CatalogInv /\ calls[w] \in Call /\ calls \in [Workers -> Call]
  BY DEF SoloInv, CatalogInv, TypeInv, TypeOK
<1> DEFINE c == calls[w]
<1>2. ASSUME NEW excludeId, NEW place, CheckIsbn(w, excludeId, place),
             UNCHANGED books,
             \/ place = "createInsert" /\ excludeId = 0
             \/ place = "updateWrite" /\ excludeId = c.id
      PROVE  Knows(w)'
  <2>1. CASE Answer(w, "INVALID_ARGUMENT")
    BY <1>1, <2>1, AnswerKnows
  <2>2. CASE ~IsbnTaken(c.isbn, excludeId) /\ Goto(w, place)
    <3> DEFINE d == [calls[w] EXCEPT !.pc = place]
    <3>1. d.pc = place /\ d.isbn = c.isbn /\ d.id = c.id
      BY <1>1 DEF Call
    <3>2. calls'[w] = d
      BY <1>1, <2>2 DEF Goto, Become
    <3> HIDE DEF d
    <3>3. FreeFor(c.isbn, excludeId)
      BY <1>1, <2>2, NotTakenIsFree
    <3> QED
      BY <1>2, <3>1, <3>2, <3>3 DEF Knows, FreeFor, Holders
  <2> QED
    BY <1>2, <2>1, <2>2 DEF CheckIsbn
<1>3. CASE CreateBookLookup(w)
  BY <1>2, <1>3 DEF CreateBookLookup, Unwritten
<1>4. CASE UpdateBookLookup(w)
  BY <1>2, <1>4 DEF UpdateBookLookup, Unwritten
<1>5. CASE GetBookRead(w) \/ ListBooksRead(w)
  BY <1>1, <1>5, AnswerKnows DEF GetBookRead, ListBooksRead, Unwritten
<1>6. ~(\/ CreateBookInsert(w) \/ UpdateBookWrite(w) \/ DeleteBookRemove(w)
        \/ ImportStep(w))
  BY DEF Writing, CreateBookInsert, UpdateBookWrite, DeleteBookRemove,
         ImportStep, ImportRead, ImportRemove, ImportLine, ImportReply, At
<1> QED
  BY <1>3, <1>4, <1>5, <1>6 DEF Serve

\* A writer's step leaves it with what its next place asks for.
LEMMA WriterKnows ==
  ASSUME SoloInv, ~Faults, NEW w \in Workers, Serve(w), Writing(w)
  PROVE  Knows(w)'
<1>1. /\ CatalogInv /\ calls[w] \in Call /\ calls \in [Workers -> Call]
      /\ WellFormed(calls[w]) /\ Knows(w)
  BY DEF SoloInv, CatalogInv, TypeInv, TypeOK
<1> DEFINE c == calls[w]
<1>2. IsFiniteSet(books)
  BY <1>1, BooksFinite
<1>3. CASE CreateBookInsert(w) \/ UpdateBookWrite(w) \/ DeleteBookRemove(w)
  <2>1. \E status : Answer(w, status)
    BY <1>3 DEF CreateBookInsert, Create, UpdateBookWrite, DeleteBookRemove, Answer
  <2> QED
    BY <1>1, <2>1, AnswerKnows
<1>4. CASE ImportRead(w)
  <2> DEFINE d == [calls[w] EXCEPT !.pc = "importRemove",
                                   !.seen = IdsOf(books), !.todo = IdsOf(books)]
  <2>1. c.pc = "importRead" /\ c.imported = 0 /\ UNCHANGED books
    BY <1>1, <1>4 DEF ImportRead, At, Unwritten, Knows
  <2>2. Become(w, d)
    BY <1>4 DEF ImportRead, FindAll
  <2>3. d.pc = "importRemove" /\ d.todo = IdsOf(books) /\ d.imported = 0
    BY <1>1, <2>1 DEF Call
  <2> HIDE DEF d
  <2>4. calls'[w] = d
    BY <1>1, <2>2 DEF Become
  <2> QED
    BY <2>1, <2>3, <2>4 DEF Knows, IdsOf
<1>5. CASE ImportRemove(w)
  <2>1. c.pc = "importRemove" /\ c.imported = 0 /\ IdsOf(books) \subseteq c.todo
    BY <1>1, <1>5 DEF ImportRemove, At, Knows
  <2>2. ASSUME NEW id \in c.todo, Remove(id),
               Become(w, [calls[w] EXCEPT !.todo = @ \ {id}])
        PROVE  Knows(w)'
    <3> DEFINE d == [calls[w] EXCEPT !.todo = @ \ {id}]
    <3>1. d.pc = "importRemove" /\ d.todo = c.todo \ {id} /\ d.imported = 0
      BY <1>1, <2>1 DEF Call
    <3>2. calls'[w] = d
      BY <1>1, <2>2 DEF Become
    <3> HIDE DEF d
    <3>3. IdsOf(books)' \subseteq c.todo \ {id}
      BY <2>1, <2>2 DEF Remove, IdsOf
    <3> QED
      BY <3>1, <3>2, <3>3 DEF Knows
  <2>3. CASE c.todo = {} /\ Goto(w, "importLine") /\ UNCHANGED books
    <3> DEFINE d == [calls[w] EXCEPT !.pc = "importLine"]
    <3>1. d.pc = "importLine" /\ d.imported = 0
      BY <1>1, <2>1 DEF Call
    <3>2. calls'[w] = d
      BY <1>1, <2>3 DEF Become, Goto
    <3> HIDE DEF d
    <3>3. Cardinality(books') = 0
      BY <2>1, <2>3, FS_EmptySet DEF IdsOf
    <3> QED
      BY <3>1, <3>2, <3>3 DEF Knows
  <2> QED
    BY <1>5, <2>2, <2>3 DEF ImportRemove
<1>6. CASE ImportLine(w)
  <2> DEFINE line == Head(calls[w].lines)
             read == [calls[w] EXCEPT !.lines = Tail(@)]
  <2>1. /\ c.pc = "importLine" /\ c.imported \in Nat
        /\ c.mode = "Replace" => Cardinality(books) = c.imported
    BY <1>1, <1>6 DEF ImportLine, At, Knows, Call
  <2>2. ASSUME NEW d, Become(w, d), d.pc = "importLine", d.mode = c.mode,
               c.mode = "Replace" => Cardinality(books') = d.imported
        PROVE  Knows(w)'
    <3>1. calls'[w] = d
      BY <1>1, <2>2 DEF Become
    <3> QED
      BY <2>2, <3>1 DEF Knows
  <2>3. /\ read.pc = "importLine" /\ read.mode = c.mode
        /\ read.imported = c.imported
        /\ Skipped(c).pc = "importLine" /\ Skipped(c).mode = c.mode
        /\ Skipped(c).imported = c.imported
        /\ Imported(c).pc = "importLine" /\ Imported(c).mode = c.mode
        /\ Imported(c).imported = c.imported + 1
    BY <1>1, <2>1 DEF Call, Skipped, Imported
  <2>4. CASE UNCHANGED books /\ (Become(w, read) \/ Become(w, Skipped(c)))
    BY <2>1, <2>2, <2>3, <2>4
  <2>5. CASE Insert(line.isbn, line.total, line.total) /\ Become(w, Imported(c))
    <3> DEFINE new == [id |-> NextRowId, isbn |-> line.isbn,
                       total |-> line.total, available |-> line.total]
    <3>1. books' = books \union {new} /\ new.id = lastId + 1
      BY <2>5 DEF Insert, NextRowId
    <3> HIDE DEF new
    <3>2. new \notin books
      <4>1. /\ \A b \in books : b.id <= lastId /\ b.id \in Int
            /\ lastId \in Int
        BY <1>1 DEF CatalogInv, TypeInv, TypeOK, IdsHandedOut, Row, Ids
      <4> QED
        BY <3>1, <4>1
    <3>3. Cardinality(books') = Cardinality(books) + 1
      BY <1>2, <3>1, <3>2, FS_AddElement
    <3> QED
      BY <2>1, <2>2, <2>3, <2>5, <3>3
  <2> QED
    BY <1>6, <2>4, <2>5 DEF ImportLine, Create
<1>7. CASE ImportReply(w)
  <2> DEFINE d == [Answered("OK") EXCEPT !.imported = calls[w].imported,
                                         !.skipped = calls[w].skipped]
  <2>1. Fresh(d)
    BY DEF Answered, Blank, Fresh
  <2>2. Become(w, d)
    BY <1>7 DEF ImportReply
  <2> HIDE DEF d
  <2> QED
    BY <1>1, <2>1, <2>2, BecomeFresh
<1>8. ~(\/ CreateBookLookup(w) \/ UpdateBookLookup(w) \/ GetBookRead(w)
        \/ ListBooksRead(w))
  BY DEF Writing, CreateBookLookup, UpdateBookLookup, GetBookRead,
         ListBooksRead, At
<1> QED
  BY <1>3, <1>4, <1>5, <1>6, <1>7, <1>8 DEF Serve, ImportStep

\* What a worker knows it goes on knowing when another one takes a step.
LEMMA OthersKnow ==
  ASSUME SoloInv, NEW w \in Workers, NEW v \in Workers, calls'[v] = calls[v],
         ~Writing(v) \/ UNCHANGED books
  PROVE  Knows(v)'
<1>1. Knows(v)
  BY DEF SoloInv
<1>2. CASE ~Writing(v)
  BY <1>2 DEF Writing, Knows
<1>3. CASE UNCHANGED books
  <2>1. \A isbn, id : FreeFor(isbn, id)' = FreeFor(isbn, id)
    BY <1>3 DEF FreeFor, Holders
  <2>2. IdsOf(books)' = IdsOf(books) /\ Cardinality(books)' = Cardinality(books)
    BY <1>3
  <2> QED
    BY <1>1, <2>1, <2>2 DEF Knows
<1> QED
  BY <1>2, <1>3

LEMMA SoloInit == Init => SoloInv
<1> SUFFICES ASSUME Init PROVE SoloInv
  OBVIOUS
<1>1. \A w \in Workers : calls[w].pc = "idle"
  BY DEF Init, Blank
<1> QED
  BY <1>1, InitInv DEF SoloInv, SoloWriter, Writing, Knows

LEMMA SoloStep ==
  ASSUME ~Faults
  PROVE  SoloInv /\ [Next /\ SoloWriter']_vars => SoloInv'
<1> SUFFICES ASSUME SoloInv, [Next /\ SoloWriter']_vars PROVE SoloInv'
  OBVIOUS
<1>1. CatalogInv' /\ SoloWriter'
  BY StepInv DEF SoloInv, SoloWriter, Writing, vars
<1>2. CASE UNCHANGED vars \/ Boot
  <2>1. UNCHANGED <<books, calls>>
    BY <1>2 DEF vars, Boot
  <2> QED
    BY <1>1, <2>1, OthersKnow DEF SoloInv
<1>3. CASE Crash
  <2>1. \A w \in Workers : calls'[w].pc = "idle"
    BY <1>3 DEF Crash, Blank
  <2> QED
    BY <1>1, <2>1 DEF SoloInv, Knows
<1>4. ASSUME NEW w \in Workers, Arrive(w) \/ Serve(w)
      PROVE  \A v \in Workers : Knows(v)'
  <2>1. CallShape(w) /\ (Arrive(w) => UNCHANGED books)
    BY <1>4, ArriveShape, ServeShape DEF SoloInv, CatalogInv
  <2>2. \A v \in Workers \ {w} : calls'[v] = calls[v]
    BY <2>1 DEF CallShape, SoloInv, CatalogInv, TypeInv, TypeOK
  <2>3. Knows(w)'
    BY <1>4, ArriveKnows, ReaderKnows, WriterKnows DEF SoloInv
  <2>4. ASSUME NEW v \in Workers \ {w} PROVE ~Writing(v) \/ UNCHANGED books
    BY <1>4, <2>1, ReaderKnows DEF SoloInv, SoloWriter
  <2> QED
    BY <2>2, <2>3, <2>4, OthersKnow
<1> QED
  BY <1>1, <1>2, <1>3, <1>4 DEF SoloInv, Next

-----------------------------------------------------------------------------
(* The theorems.                                                            *)

(***************************************************************************)
(* Where no two writers overlap and no statement fails, createBook and     *)
(* updateBook never make two books share an ISBN, also not next to the     *)
(* duplicates an import left, of which findByIsbn sees one                 *)
(* (BookService.cpp:8-16, :40 and :84).                                    *)
(***************************************************************************)
THEOREM OnlyImportDuplicates ==
  ASSUME ~Faults PROVE SoloSpec => OnlyImportsDuplicate
<1>1. SoloInv /\ [Next /\ SoloWriter']_vars
        => [Clashes' \subseteq Clashes \/ \E w \in Workers : ImportLine(w)]_vars
  <2> SUFFICES ASSUME SoloInv, Next, ~(\E w \in Workers : ImportLine(w))
               PROVE  Clashes' \subseteq Clashes
    OBVIOUS
  <2>1. CASE UNCHANGED books
    BY <2>1 DEF Clashes
  <2>2. ASSUME NEW id, Remove(id) PROVE Clashes' \subseteq Clashes
    BY <2>2, NoNewClash DEF Remove
  <2>3. CASE Boot \/ Crash
    BY <2>1, <2>3 DEF Boot, Crash
  <2>4. ASSUME NEW w \in Workers, Arrive(w) PROVE Clashes' \subseteq Clashes
    BY <2>1, <2>4, ArriveShape
  <2>5. ASSUME NEW w \in Workers, Serve(w) PROVE Clashes' \subseteq Clashes
    <3>1. /\ CatalogInv /\ calls[w] \in Call /\ Knows(w)
      BY DEF SoloInv, CatalogInv, TypeInv, TypeOK
    <3>2. CASE ~Writing(w)
      BY <2>1, <2>5, <3>2, ReaderKnows
    <3>3. CASE CreateBookInsert(w)
      <4>1. FreeFor(calls[w].isbn, 0)
        BY <3>1, <3>3 DEF CreateBookInsert, At, Knows
      <4> QED
        BY <2>1, <3>1, <3>3, <4>1, InsertClashes DEF CreateBookInsert, Create
    <3>4. CASE UpdateBookWrite(w)
      <4>1. FreeFor(calls[w].isbn, calls[w].id)
        BY <3>1, <3>4 DEF UpdateBookWrite, At, Knows
      <4>2. /\ calls[w].isbn \in AnyIsbn
            /\ calls[w].total \in Int /\ calls[w].available \in Int
        BY <3>1 DEF Call, AnyIsbn
      <4> QED
        BY <2>1, <3>1, <3>4, <4>1, <4>2, UpdateClashes DEF UpdateBookWrite
    <3>5. CASE DeleteBookRemove(w) \/ ImportRemove(w)
      BY <2>1, <2>2, <3>5 DEF DeleteBookRemove, ImportRemove
    <3>6. CASE ImportRead(w) \/ ImportReply(w)
      BY <2>1, <3>6 DEF ImportRead, ImportReply, Unwritten
    <3>7. ASSUME Writing(w)
          PROVE  ~(\/ CreateBookLookup(w) \/ UpdateBookLookup(w)
                   \/ GetBookRead(w) \/ ListBooksRead(w))
      BY <3>7 DEF Writing, CreateBookLookup, UpdateBookLookup, GetBookRead,
                  ListBooksRead, At
    <3> QED
      BY <2>5, <3>2, <3>3, <3>4, <3>5, <3>6, <3>7 DEF Serve, ImportStep
  <2> QED
    BY <2>3, <2>4, <2>5 DEF Next
<1> QED
  BY <1>1, SoloInit, SoloStep, PTL DEF SoloSpec, OnlyImportsDuplicate

(***************************************************************************)
(* Under the same conditions a Replace import is answered when the table   *)
(* holds exactly as many books as the answer says, for a file and a table  *)
(* of any size and also when ids run out (CsvService.cpp:88-142).          *)
(***************************************************************************)
THEOREM ReplaceIsExact == ASSUME ~Faults PROVE SoloSpec => ReplaceExact
<1> DEFINE Exact == \A w \in Workers :
              ImportReply(w) /\ calls[w].mode = "Replace" =>
                Cardinality(books) = calls[w].imported
<1>1. SoloInv => Exact
  BY DEF SoloInv, Knows, ImportReply, At
<1>2. SoloInv /\ [Next /\ SoloWriter']_vars => [Exact]_vars
  BY <1>1
<1>3. SoloSpec => [][Exact]_vars
  <2> HIDE DEF Exact
  <2> QED
    BY <1>2, SoloInit, SoloStep, PTL DEF SoloSpec
<1> QED
  BY <1>3 DEF ReplaceExact
=============================================================================
