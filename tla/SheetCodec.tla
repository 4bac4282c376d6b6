------------------------------- MODULE SheetCodec -------------------------------
(***************************************************************************)
(* The conversions of google-sheets.cpp: numbers of columns, base64url for the      *)
(* signed request of a token, and rows of CSV.  Each is checked against what it     *)
(* is to be the inverse of.                                                   *)
(***************************************************************************)
EXTENDS Integers, Sequences, FiniteSets, SequencesExt

-----------------------------------------------------------------------------
(* A1 notation.  A letter is its place in the alphabet, from 0.                 *)

\* Wrong on purpose: a plain number with 26 digits, in which A is nothing.
columnFromNumber_Plain(column) ==
    LET letters[n \in 0..column] == IF n = 0 THEN <<>> ELSE Append(letters[n \div 26], n % 26)
    IN letters[column]

columnFromNumber(column) ==
    LET letters[n \in 0..(column + 1)] ==
            IF n = 0 THEN <<>> ELSE LET c == (n - 1) % 26 IN Append(letters[(n - (c + 1)) \div 26], c)
    IN letters[column + 1]

\* The range of a row with this many cells.  For a row of none its end has no letter.
A1(cells) == [from |-> <<columnFromNumber(0), 1>>, to |-> <<columnFromNumber(cells - 1), 1>>]

\* The number that letters stand for.
ColumnNumber(letters) ==
    LET upTo[j \in 0..Len(letters)] == IF j = 0 THEN 0 ELSE upTo[j - 1] * 26 + letters[j] + 1
    IN upTo[Len(letters)] - 1

-----------------------------------------------------------------------------
(* base64url: bytes to numbers of letters.                                    *)

base64url_encode(data) ==
    LET n == Len(data)
        Three(i) == <<data[i] \div 4, (data[i] % 4) * 16 + data[i + 1] \div 16,
                      (data[i + 1] % 16) * 4 + data[i + 2] \div 64, data[i + 2] % 64>>
        whole == [j \in 1..(4 * (n \div 3)) |-> Three(3 * ((j - 1) \div 4) + 1)[((j - 1) % 4) + 1]]
        rest == CASE n % 3 = 1 -> <<data[n] \div 4, (data[n] % 4) * 16>>
                  [] n % 3 = 2 -> <<data[n - 1] \div 4, (data[n - 1] % 4) * 16 + data[n] \div 16,
                                    (data[n] % 16) * 4>>
                  [] OTHER -> <<>>
    IN whole \o rest

\* The bits of numbers of w bits each, at most eight.
Powers == <<128, 64, 32, 16, 8, 4, 2, 1>>
BitsOf(numbers, w) ==
    [i \in 1..(w * Len(numbers)) |-> (numbers[((i - 1) \div w) + 1] \div Powers[(9 - w) + ((i - 1) % w)]) % 2]

-----------------------------------------------------------------------------
(* CSV.  A row is a sequence of characters.                                    *)

Comma == "comma"
Quote == "quote"

\* The machine of readCSVRow(): its state, the fields, of which the last is being read.
CSVStart == [state |-> "UnquotedField", fields |-> << <<>> >>]

Add(m, c) == [m EXCEPT !.fields[Len(m.fields)] = Append(@, c)]
NewField(m) == [state |-> "UnquotedField", fields |-> Append(m.fields, <<>>)]

CSVStep(m, c) ==
    CASE m.state = "UnquotedField" /\ c = Comma -> NewField(m)
      [] m.state = "UnquotedField" /\ c = Quote -> [m EXCEPT !.state = "QuotedField"]
      [] m.state = "UnquotedField" /\ c \notin {Comma, Quote} -> Add(m, c)
      [] m.state = "QuotedField" /\ c = Quote -> [m EXCEPT !.state = "QuotedQuote"]
      [] m.state = "QuotedField" /\ c # Quote -> Add(m, c)
      [] m.state = "QuotedQuote" /\ c = Comma -> NewField(m)
      [] m.state = "QuotedQuote" /\ c = Quote -> [Add(m, c) EXCEPT !.state = "QuotedField"]
      [] m.state = "QuotedQuote" /\ c \notin {Comma, Quote} -> [m EXCEPT !.state = "UnquotedField"]

readCSVRow(row) ==
    LET after[r \in 0..Len(row)] == IF r = 0 THEN CSVStart ELSE CSVStep(after[r - 1], row[r])
    IN after[Len(row)].fields

\* readCSV(): a line that no newline ends is not a row.
readCSV(lines, ended) ==
    LET rows == [i \in 1..Len(lines) |-> readCSVRow(lines[i])] IN IF ended THEN rows ELSE Front(rows)

\* A row as RFC 4180 writes it.
Doubled(field) == FlattenSeq([i \in 1..Len(field) |-> IF field[i] = Quote THEN <<Quote, Quote>> ELSE <<field[i]>>])
Written(field) ==
    IF \E i \in 1..Len(field) : field[i] \in {Comma, Quote} THEN <<Quote>> \o Doubled(field) \o <<Quote>> ELSE field
CSVRow(fields) == Tail(FlattenSeq([i \in 1..Len(fields) |-> <<Comma>> \o Written(fields[i])]))

-----------------------------------------------------------------------------
(* The row that js2sheet makes of a JSON text.  To the handler a text is what     *)
(* rapidjson reads in it, in order: keys, values, and where objects and arrays     *)
(* begin and end.                                                             *)

\* Scalars become cells, wherever they stand; keys, which are only logged, and the
\* structure do not.
JsonHandler(row, event) ==
    CASE event.is = "null" -> Append(row, <<>>)
      [] event.is = "value" -> Append(row, event.text)
      [] OTHER -> row

JsonRow(events) ==
    LET after[e \in 0..Len(events)] == IF e = 0 THEN <<>> ELSE JsonHandler(after[e - 1], events[e])
    IN after[Len(events)]

-----------------------------------------------------------------------------

CONSTANTS
    Columns,    \* numbers of columns to be tried
    ByteTexts,  \* sequences of bytes
    Characters, \* of texts, a comma and a quote among them
    CSVFields,  \* sequences of fields
    JsonTexts   \* sequences of what the JSON reader meets

ASSUME ColumnsAssumption == Columns \subseteq Nat
ASSUME ByteTextsAssumption == ByteTexts \subseteq Seq(0..255)
ASSUME CharactersAssumption == Comma \in Characters /\ Quote \in Characters
ASSUME CSVFieldsAssumption == CSVFields \subseteq Seq(Seq(Characters)) \ {<<>>}
ASSUME JsonTextsAssumption ==
    JsonTexts \subseteq Seq([is : {"null", "value", "start", "end", "key"}, text : Seq(Characters)])

(***************************************************************************)
(* Every column has a name of its own and the right one, also past Z and ZZ.       *)
(***************************************************************************)
ColumnsNamed == \A n \in Columns : ColumnNumber(columnFromNumber(n)) = n

(***************************************************************************)
(* base64url_encode() keeps every bit, in order, and adds fewer than six zeros,     *)
(* whatever the length is modulo three.                                        *)
(***************************************************************************)
BitsKept ==
    \A data \in ByteTexts :
        LET from == BitsOf(data, 8) to == BitsOf(base64url_encode(data), 6) IN
        /\ Len(to) - Len(from) \in 0..5
        /\ SubSeq(to, 1, Len(from)) = from
        /\ \A i \in (Len(from) + 1)..Len(to) : to[i] = 0

(***************************************************************************)
(* readCSVRow() gives back the fields that were written, with commas, quotes and    *)
(* empty fields in any place.                                                  *)
(***************************************************************************)
FieldsReadBack == \A fields \in CSVFields : readCSVRow(CSVRow(fields)) = fields

(***************************************************************************)
(* The range that js2sheet appends to is as wide as the row it appends: as many      *)
(* columns as the text has scalars, however they are nested.                      *)
(***************************************************************************)
RangeFitsRow ==
    \A events \in JsonTexts :
        LET scalars == {i \in 1..Len(events) : events[i].is \in {"null", "value"}}
            row == JsonRow(events)
        IN  scalars # {} =>
                ColumnNumber(A1(Len(row)).to[1]) - ColumnNumber(A1(Len(row)).from[1]) + 1 = Cardinality(scalars)

CodecRight == ColumnsNamed /\ BitsKept /\ FieldsReadBack /\ RangeFitsRow
=============================================================================
