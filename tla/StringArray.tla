---------------------------- MODULE StringArray ----------------------------
(***************************************************************************)
(* StringArray of src/internal/models/models.go: how the methods of a      *)
(* route and the scopes of a key go to a TEXT[] column and come back.  A   *)
(* string is a sequence of letters, commas and quotes.  To PostgreSQL a    *)
(* letter outside ASCII is a letter as any other; to the loop that reads   *)
(* the column it is the bytes of its UTF-8.  A column is written once: an  *)
(* UPDATE replaces it alike.                                               *)
(***************************************************************************)
EXTENDS Integers, Sequences, SequencesExt

CONSTANTS Letters,            \* ASCII characters that mean nothing to PostgreSQL
          NonASCII,           \* characters of two bytes or more
          OfBytes,            \* OfBytes[c]: string(b) of each byte b of c, in order
          MaxLength,          \* bound on the length of an element
          MaxElements,        \* bound on the number of elements
          NoArray             \* no value: nothing written, refused, or nothing read

Comma == ","
Quote == "\""
Open == "{"
Close == "}"

Alphabet == Letters \cup NonASCII

ASSUME ArrayAssumption == /\ MaxLength \in Nat /\ MaxElements \in Nat
                          /\ Alphabet \cap {Comma, Quote, Open, Close} = {}
                          /\ Letters \cap NonASCII = {}

\* A byte above 127 is a character outside ASCII, too.
ASSUME BytesAssumption == /\ OfBytes \in [NonASCII -> Seq(NonASCII)]
                          /\ \A c \in NonASCII : Len(OfBytes[c]) >= 2

Elements == SeqOf(Alphabet \cup {Comma, Quote}, MaxLength)
Arrays == SeqOf(Elements, MaxElements)

ASSUME NoArrayIsNoArray == NoArray \notin Arrays

VARIABLES written,            \* the array of the request
          column,             \* what the column holds
          read                \* what a later SELECT returns

arrayVars == <<written, column, read>>

\* The i-th text is written after a comma if it is not the first.
Write(list, i, text) == list \o (IF i = 1 THEN <<>> ELSE <<Comma>>) \o text

Listed(texts) ==
  LET list[i \in 0..Len(texts)] == IF i = 0 THEN <<>> ELSE Write(list[i - 1], i, texts[i])
  IN  list[Len(texts)]

Joined(texts) == <<Open>> \o Listed(texts) \o <<Close>>

\* The elements as they are, without quotes.
Value(array) == Joined(array)

NothingIn == [result |-> <<>>, current |-> <<>>, in |-> "start"]

InChar(s, char) ==
  IF s.in = "quotes" /\ char # Quote THEN [s EXCEPT !.current = Append(@, char)]
  ELSE IF s.in = "quotes" THEN [s EXCEPT !.in = "closed"]
  ELSE IF char = Quote /\ s.in = "start" THEN [s EXCEPT !.in = "quotes"]
  ELSE IF char \in Alphabet /\ s.in \in {"start", "plain"}
       THEN [s EXCEPT !.in = "plain", !.current = Append(@, char)]
  ELSE IF char \in {Comma, Close} /\ s.in \in {"plain", "closed"}
       THEN [result |-> Append(s.result, s.current), current |-> <<>>,
             in |-> IF char = Comma THEN "start" ELSE "end"]
  ELSE [s EXCEPT !.in = "error"]

InAfter(text) ==
  LET s[i \in 0..Len(text)] == IF i = 0 THEN NothingIn ELSE InChar(s[i - 1], text[i])
  IN  s[Len(text)]

\* External: array_in, which refuses an empty element without quotes, and
\* quotes that are not around an element; NoArray if it refuses the text.
ArrayIn(text) ==
  LET s == InAfter(Tail(text)) IN
  IF text = Joined(<<>>) THEN <<>> ELSE IF s.in = "end" THEN s.result ELSE NoArray

\* External: array_out, which quotes an element that is empty or has a comma.
\* No element in a column has a quote.
Quoted(element) ==
  IF element # <<>> /\ Range(element) \subseteq Alphabet THEN element
  ELSE <<Quote>> \o element \o <<Quote>>

ArrayOut(array) == Joined([i \in DOMAIN array |-> Quoted(array[i])])

------------------------------------------------------------------------------
NothingSplit == [result |-> <<>>, current |-> <<>>, inQuotes |-> FALSE]

\* string(char) of the bytes of a character, one after the other.
AsRunes(char) == IF char \in NonASCII THEN OfBytes[char] ELSE <<char>>

\* Mutant: a comma in quotes separates.
SplitCharUnquoted(s, char) ==
  IF char = Quote THEN [s EXCEPT !.inQuotes = ~@]
  ELSE IF char = Comma THEN [s EXCEPT !.result = Append(@, s.current), !.current = <<>>]
  ELSE [s EXCEPT !.current = @ \o AsRunes(char)]

\* The loop of splitArray.
SplitChar(s, char) ==
  IF char = Quote THEN [s EXCEPT !.inQuotes = ~@]
  ELSE IF char = Comma /\ ~s.inQuotes THEN [s EXCEPT !.result = Append(@, s.current), !.current = <<>>]
  ELSE [s EXCEPT !.current = @ \o AsRunes(char)]

SplitAfter(text) ==
  LET s[i \in 0..Len(text)] == IF i = 0 THEN NothingSplit ELSE SplitChar(s[i - 1], text[i])
  IN  s[Len(text)]

\* A last element that is empty is dropped.
SplitArray(text) ==
  LET s == SplitAfter(text) IN
  IF s.current = <<>> THEN s.result ELSE Append(s.result, s.current)

\* The text without its braces.
Scan(text) == SplitArray(SubSeq(text, 2, Len(text) - 1))

------------------------------------------------------------------------------
ArrayInit == written = NoArray /\ column = NoArray /\ read = NoArray

\* An INSERT or UPDATE; a text that PostgreSQL refuses fails the statement.
Save(array) ==
  /\ written = NoArray
  /\ written' = array
  /\ column' = ArrayIn(Value(array))
  /\ UNCHANGED read

\* A SELECT of the row.
Load ==
  /\ column # NoArray
  /\ read' = Scan(ArrayOut(column))
  /\ UNCHANGED <<written, column>>

ArrayNext == Load \/ \E array \in Arrays : Save(array)

ArraySpec == ArrayInit /\ [][ArrayNext]_arrayVars

------------------------------------------------------------------------------
(* Properties *)

AreWords(array, chars) ==
  \A i \in DOMAIN array : array[i] # <<>> /\ Range(array[i]) \subseteq chars

\* A text whose bytes were taken for characters.
Recoded(text) ==
  LET runes[i \in 0..Len(text)] == IF i = 0 THEN <<>> ELSE runes[i - 1] \o AsRunes(text[i])
  IN  runes[Len(text)]

\* Lists of words, as methods and scopes are meant to be, are never refused and
\* reach the column as they were sent.  Whatever got into the column, commas and
\* empty elements included, comes back but for an empty last element, and but
\* for the letters outside ASCII, each of which comes back as several others;
\* so the lists of words that come back as they were sent are those in ASCII,
\* and no others (models.go:180-189, 216-247).
WordsComeBack ==
  /\ written # NoArray /\ AreWords(written, Alphabet) => column = written
  /\ read # NoArray /\ (column # <<>> => Last(column) # <<>>)
        => read = [i \in DOMAIN column |-> Recoded(column[i])]
  /\ read # NoArray /\ AreWords(written, Alphabet)
        => (read = written <=> AreWords(written, Letters))
=============================================================================
