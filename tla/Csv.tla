--------------------------------- MODULE Csv ---------------------------------
(***************************************************************************)
(* The text CsvService writes and reads: escapeCsvField and                *)
(* exportBooksToString, then the two loops of importBooksFromString and    *)
(* parseCsvLine, one step per line and per character.  Catalog has what an *)
(* import does to the table of books; here the rows it would store are     *)
(* collected in a sequence.                                                *)
(*                                                                         *)
(* A character is one of the three that mean something to the format, a    *)
(* minus sign, a digit or a letter.  The table holds printed numbers: a    *)
(* total is its sequence of digits, with a sign if it is negative.         *)
(***************************************************************************)
EXTENDS Naturals, Sequences, SequencesExt

CONSTANTS
  Letters, Digits,         \* characters without a meaning to the format
  Comma, Quote, Newline,   \* and those that have one
  Minus,                   \* the sign of a negative number
  Shelves                  \* the tables to export: sequences of books

Chars == Letters \union Digits \union {Comma, Quote, Newline, Minus}
Text == Seq(Chars)

\* A printed number.
Negative(text) == text # <<>> /\ Head(text) = Minus
Unsigned(text) == IF Negative(text) THEN Tail(text) ELSE text
Numerals ==
  {n \in Seq(Digits \union {Minus}) : Unsigned(n) \in Seq(Digits) \ {<<>>}}

\* What the service and the UI let into the table: an optional ISBN, and by an
\* import a negative total.
Book == [title : Text \ {<<>>}, author : Text \ {<<>>}, isbn : Text,
         total : Numerals]

ASSUME CsvAssumption ==
  /\ Letters \intersect Digits = {}
  /\ {Comma, Quote, Newline, Minus} \intersect (Letters \union Digits) = {}
  /\ Minus \notin {Comma, Quote, Newline}
  /\ Comma # Quote /\ Quote # Newline /\ Comma # Newline
  /\ Shelves \subseteq Seq(Book)

VARIABLES
  shelf,      \* the books that were exported
  rest,       \* what the import's stream still holds
  pc,         \* "header", "line", "char" or "done"
  line,       \* the line under parseCsvLine
  pos,        \* its index i, from 1
  current, fields, insideQuotes,
  imported,   \* the books the import creates
  skipped

vars == <<shelf, rest, pc, line, pos, current, fields, insideQuotes, imported,
          skipped>>

-----------------------------------------------------------------------------
(* Writing.                                                                 *)

\* Mutant: quotes alone do not ask for quoting.
NoQuotingForQuotes(field) == Contains(field, Comma) \/ Contains(field, Newline)
NeedsQuoting(field) ==
  \E c \in {Comma, Quote, Newline} : Contains(field, c)

EscapeCsvField(field) ==
  IF ~NeedsQuoting(field)
    THEN field
    ELSE <<Quote>>
         \o FlattenSeq([i \in DOMAIN field |->
              IF field[i] = Quote THEN <<Quote, Quote>> ELSE <<field[i]>>])
         \o <<Quote>>

Row(book) ==
  EscapeCsvField(book.title) \o <<Comma>> \o EscapeCsvField(book.author)
    \o <<Comma>> \o EscapeCsvField(book.isbn) \o <<Comma>> \o book.total
    \o <<Newline>>

\* The names in the header are never looked at.
ExportBooksToString(books) ==
  <<Newline>> \o FlattenSeq([i \in DOMAIN books |-> Row(books[i])])

-----------------------------------------------------------------------------
(* Reading.                                                                 *)

\* std::getline: the next line, and the stream behind it.
LineEnd == SelectInSeq(rest \o <<Newline>>, LAMBDA c : c = Newline)
Getline == SubSeq(rest, 1, LineEnd - 1)
Behind == SubSeq(rest, LineEnd + 1, Len(rest))

SkipHeader ==
  /\ pc = "header"
  /\ pc' = "line"
  /\ rest' = Behind
  /\ UNCHANGED <<shelf, line, pos, current, fields, insideQuotes, imported,
                 skipped>>

ReadLine ==
  /\ pc = "line" /\ rest # <<>>
  /\ rest' = Behind
  /\ line' = Getline
  /\ pc' = IF Getline = <<>> THEN "line" ELSE "char"
  /\ pos' = 1 /\ current' = <<>> /\ fields' = <<>> /\ insideQuotes' = FALSE
  /\ UNCHANGED <<shelf, imported, skipped>>

Here == line[pos]
QuoteFollows == pos < Len(line) /\ line[pos + 1] = Quote

Reading == pc = "char" /\ pos <= Len(line)
Append1(c) == current' = Append(current, c)
Advance(n) ==
  /\ pos' = pos + n
  /\ UNCHANGED <<shelf, rest, pc, line, imported, skipped>>

DoubledQuote ==
  /\ Reading /\ insideQuotes /\ Here = Quote /\ QuoteFollows
  /\ Append1(Quote) /\ Advance(2)
  /\ UNCHANGED <<fields, insideQuotes>>

ClosingQuote ==
  /\ Reading /\ insideQuotes /\ Here = Quote /\ ~QuoteFollows
  /\ insideQuotes' = FALSE /\ Advance(1)
  /\ UNCHANGED <<current, fields>>

OpeningQuote ==
  /\ Reading /\ ~insideQuotes /\ Here = Quote
  /\ insideQuotes' = TRUE /\ Advance(1)
  /\ UNCHANGED <<current, fields>>

FieldEnd ==
  /\ Reading /\ ~insideQuotes /\ Here = Comma
  /\ fields' = Append(fields, current) /\ current' = <<>> /\ Advance(1)
  /\ UNCHANGED insideQuotes

PlainCharacter ==
  /\ Reading
  /\ Here # Quote /\ (insideQuotes \/ Here # Comma)
  /\ Append1(Here) /\ Advance(1)
  /\ UNCHANGED <<fields, insideQuotes>>

\* std::stoi reads the number a field begins with and throws if there is none.
\* It would also skip blanks and a plus sign and throw at a number out of range,
\* none of which the export writes for a total.
LeadingDigits(text) ==
  SubSeq(text, 1, SelectInSeq(Append(text, Comma),
                              LAMBDA c : c \notin Digits) - 1)
Stoi(field) ==
  LET digits == LeadingDigits(Unsigned(field))
  IN  IF Negative(field) /\ digits # <<>> THEN <<Minus>> \o digits ELSE digits

\* Mutant: a row may leave its ISBN empty.
FourFieldsWithTitle(row) ==
  Len(row) = 4 /\ row[1] # <<>> /\ row[2] # <<>> /\ Stoi(row[4]) # <<>>
Complete(row) ==
  /\ Len(row) = 4
  /\ row[1] # <<>> /\ row[2] # <<>> /\ row[3] # <<>>
  /\ Stoi(row[4]) # <<>>

LineParsed ==
  /\ pc = "char" /\ pos > Len(line)
  /\ pc' = "line"
  /\ fields' = Append(fields, current)
  /\ \/ /\ Complete(fields')
        /\ imported' = Append(imported,
             [title |-> fields'[1], author |-> fields'[2], isbn |-> fields'[3],
              total |-> Stoi(fields'[4])])
        /\ UNCHANGED skipped
     \/ /\ ~Complete(fields')
        /\ skipped' = skipped + 1
        /\ UNCHANGED imported
  /\ UNCHANGED <<shelf, rest, line, pos, current, insideQuotes>>

EndOfStream ==
  /\ pc = "line" /\ rest = <<>>
  /\ pc' = "done"
  /\ UNCHANGED <<shelf, rest, line, pos, current, fields, insideQuotes,
                 imported, skipped>>

Done == pc = "done" /\ UNCHANGED vars

Init ==
  /\ shelf \in Shelves
  /\ rest = ExportBooksToString(shelf)
  /\ pc = "header"
  /\ line = <<>> /\ pos = 1 /\ current = <<>> /\ fields = <<>>
  /\ insideQuotes = FALSE
  /\ imported = <<>> /\ skipped = 0

ReadChar ==
  DoubledQuote \/ ClosingQuote \/ OpeningQuote \/ FieldEnd \/ PlainCharacter

Next == SkipHeader \/ ReadLine \/ ReadChar \/ LineParsed \/ EndOfStream \/ Done

Spec == Init /\ [][Next]_vars

-----------------------------------------------------------------------------
(* Properties.                                                              *)

\* Nothing that is not a complete book is imported, and a line and its fields
\* contain no newline, quoted or not.
TypeOK ==
  /\ shelf \in Seq(Book)
  /\ rest \in Text
  /\ pc \in {"header", "line", "char", "done"}
  /\ line \in Seq(Chars \ {Newline})
  /\ pos \in 1..(Len(line) + 1)
  /\ current \in Seq(Chars \ {Newline})
  /\ fields \in Seq(Seq(Chars \ {Newline}))
  /\ insideQuotes \in BOOLEAN
  /\ imported \in Seq({b \in Book : b.isbn # <<>>})
  /\ skipped \in Nat

OneLine(book) ==
  \A field \in {book.title, book.author, book.isbn} : ~Contains(field, Newline)

HasIsbn(book) == book.isbn # <<>>

WithIsbn(books) ==
  FlattenSeq([i \in DOMAIN books |->
    IF HasIsbn(books[i]) THEN <<books[i]>> ELSE <<>>])

\* Of a table without a newline in any field, whatever commas and quotes its
\* fields contain, next to each other, at either end or alone, the import
\* brings back exactly the books with an ISBN, in their order, and counts every
\* other one as skipped.  What comes back is what the text holds: title, author,
\* ISBN and total are unchanged, while the available copies, which are not
\* written, start over at the total (CsvService.cpp:8-64, :103-139, :132).
RoundTrip ==
  pc = "done" /\ (\A i \in DOMAIN shelf : OneLine(shelf[i]))
    => /\ imported = WithIsbn(shelf)
       /\ skipped = Len(shelf) - Len(imported)
=============================================================================
