----------------------------- MODULE JsonScanner -----------------------------
(***************************************************************************)
(* The JSON scanner (util/json.cpp) on which everything the engine reads   *)
(* depends: it never builds a tree but looks for keys and skips over       *)
(* values in the text.  A text is a sequence of characters, positions      *)
(* count from 1, and an optional is a sequence of at most one value.  The  *)
(* specification calls the scanner with the texts of small documents; the  *)
(* documents themselves say what the answers should be.                    *)
(***************************************************************************)
EXTENDS Integers, Sequences, FiniteSets, TLC

LOCAL INSTANCE SequencesExt
LOCAL INSTANCE FiniteSetsExt

CONSTANTS
    Documents,  \* objects and arrays, see Reading
    Names,      \* keys, as sequences of characters
    Indices     \* indices of array elements, from 0

VARIABLES
    doc,    \* the document
    blank,  \* the whitespace between its tokens
    call,   \* the latest call
    result  \* what it returned, or what its callback was given

vars == <<doc, blank, call, result>>

Quote == "\""
Backslash == "\\"
None == <<>>

-----------------------------------------------------------------------------
(* The scanner. *)

IsJsonWhitespace(c) == c \in {" ", "\t", "\n", "\r"}

(* The first of the positions from pos on that stop the scan, or the end. *)
Scan(text, pos, stops) ==
    Min({p \in stops : p >= pos} \cup {IF pos > Len(text) THEN pos ELSE Len(text) + 1})

SkipWhitespace(text, pos) ==
    Scan(text, pos, {p \in DOMAIN text : ~IsJsonWhitespace(text[p])})

At(text, pos, c) == pos <= Len(text) /\ text[pos] = c

(* The closing quote of a string; a backslash takes a character with it. *)
RECURSIVE MutClosingQuote(_, _)
MutClosingQuote(text, pos) ==
    IF pos > Len(text) \/ text[pos] = Quote THEN pos ELSE MutClosingQuote(text, pos + 1)

RECURSIVE ClosingQuote(_, _)
ClosingQuote(text, pos) ==
    IF pos > Len(text) \/ text[pos] = Quote
    THEN pos
    ELSE ClosingQuote(text, IF text[pos] = Backslash THEN pos + 2 ELSE pos + 1)

SkipString(text, pos) == ClosingQuote(text, pos + 1) + 1

(* Past the bracket that closes depth brackets of its kind, strings skipped. *)
RECURSIVE SkipNested(_, _, _, _, _)
SkipNested(text, pos, open, close, depth) ==
    IF pos > Len(text) \/ depth = 0 THEN pos
    ELSE IF text[pos] = Quote THEN SkipNested(text, SkipString(text, pos), open, close, depth)
    ELSE SkipNested(text, pos + 1, open, close,
                    IF text[pos] = open THEN depth + 1
                    ELSE IF text[pos] = close THEN depth - 1
                    ELSE depth)

SkipValue(text, from) ==
    LET pos == SkipWhitespace(text, from)
    IN  IF pos > Len(text) THEN pos
        ELSE IF text[pos] = Quote THEN SkipString(text, pos)
        ELSE IF text[pos] = "{" THEN SkipNested(text, pos + 1, "{", "}", 1)
        ELSE IF text[pos] = "[" THEN SkipNested(text, pos + 1, "[", "]", 1)
        ELSE Scan(text, pos, {p \in DOMAIN text :
                                 text[p] \in {",", "}", "]"} \/ IsJsonWhitespace(text[p])})

(* std::string_view::find. *)
Find(text, pattern, from) ==
    LET found == {p \in from..(Len(text) - Len(pattern) + 1) :
                     SubSeq(text, p, p + Len(pattern) - 1) = pattern}
    IN  IF found = {} THEN None ELSE <<Min(found)>>

MutValueStart(text, pattern, from) ==
    LET match == Find(text, pattern, from)
    IN  IF match = None
        THEN None
        ELSE <<SkipWhitespace(text, SkipWhitespace(text, match[1] + Len(pattern)) + 1)>>

(* A quoted key counts only with a colon behind it. *)
RECURSIVE ValueStart(_, _, _)
ValueStart(text, pattern, from) ==
    LET match == Find(text, pattern, from)
        next == match[1] + Len(pattern)
        after == SkipWhitespace(text, next)
    IN  IF match = None THEN None
        ELSE IF At(text, after, ":") THEN <<SkipWhitespace(text, after + 1)>>
        ELSE ValueStart(text, pattern, next)

FindValueStart(text, key) == ValueStart(text, <<Quote>> \o key \o <<Quote>>, 1)

FindString(text, key) ==
    LET start == FindValueStart(text, key)
        end == Find(text, <<Quote>>, start[1] + 1)
    IN  IF start = None \/ ~At(text, start[1], Quote) \/ end = None
        THEN None
        ELSE <<SubSeq(text, start[1] + 1, end[1] - 1)>>

NumberCharacters == {"0", "1", "2", "3", "4", "5", "6", "7", "8", "9", "-", "+", ".", "e", "E"}

FindNumber(text, key) ==
    LET start == FindValueStart(text, key)
        end == Scan(text, start[1], {p \in DOMAIN text : text[p] \notin NumberCharacters})
    IN  IF start = None \/ end = start[1]
        THEN None
        ELSE <<SubSeq(text, start[1], end - 1)>>

EndOfArray(text, pos) == pos > Len(text) \/ text[pos] = "]"

(* Past a value and the comma behind it. *)
SkipElement(text, pos) ==
    LET next == SkipWhitespace(text, SkipValue(text, pos))
    IN  IF At(text, next, ",") THEN next + 1 ELSE next

RECURSIVE ElementFrom(_, _, _)
ElementFrom(array, from, index) ==
    LET pos == SkipWhitespace(array, from)
    IN  IF EndOfArray(array, pos) THEN None
        ELSE IF index > 0 THEN ElementFrom(array, SkipElement(array, pos), index - 1)
        ELSE <<SubSeq(array, pos, SkipValue(array, pos) - 1)>>

FindElementAt(array, index) == ElementFrom(array, 2, index)

(* The text from the array at a key on, if there is one. *)
ArrayAt(text, key) ==
    LET start == FindValueStart(text, key)
    IN  IF start = None \/ ~At(text, start[1], "[")
        THEN None
        ELSE <<SubSeq(text, start[1], Len(text))>>

FindArrayElement(text, key, index) ==
    LET array == ArrayAt(text, key)
    IN  IF array = None THEN None ELSE FindElementAt(array[1], index)

FindElement(array, index) == IF At(array, 1, "[") THEN FindElementAt(array, index) ELSE None

(* What the callbacks are given, in order. *)
RECURSIVE ElementsFrom(_, _)
ElementsFrom(array, from) ==
    LET pos == SkipWhitespace(array, from)
    IN  IF EndOfArray(array, pos)
        THEN <<>>
        ELSE <<SubSeq(array, pos, SkipValue(array, pos) - 1)>>
               \o ElementsFrom(array, SkipElement(array, pos))

ForEachElement(array) == ElementsFrom(array, 2)

ForEachArrayElement(text, key) ==
    LET array == ArrayAt(text, key)
    IN  IF array = None THEN <<>> ELSE ForEachElement(array[1])

RECURSIVE FieldsFrom(_, _)
FieldsFrom(text, from) ==
    LET pos == SkipWhitespace(text, from)
        keyEnd == Find(text, <<Quote>>, pos + 1)
        colon == SkipWhitespace(text, keyEnd[1] + 1)
        start == SkipWhitespace(text, colon + 1)
    IN  IF ~At(text, pos, Quote) \/ keyEnd = None \/ ~At(text, colon, ":")
        THEN <<>>
        ELSE <<[key |-> SubSeq(text, pos + 1, keyEnd[1] - 1),
                value |-> SubSeq(text, start, SkipValue(text, start) - 1)]>>
               \o FieldsFrom(text, SkipElement(text, start))

ForEachField(text) == IF At(text, 1, "{") THEN FieldsFrom(text, 2) ELSE <<>>

-----------------------------------------------------------------------------
(* Documents: strings, numbers and words by their characters, arrays by their
   items and objects by their fields. *)

Joined(texts, separator) ==
    FlattenSeq([i \in DOMAIN texts |-> IF i = 1 THEN texts[1] ELSE separator \o texts[i]])

(* The text of a document, with whitespace w around every token. *)
RECURSIVE Text(_, _)
Text(d, w) ==
    CASE d.kind = "string" -> <<Quote>> \o d.chars \o <<Quote>>
      [] d.kind \in {"number", "word"} -> d.chars
      [] d.kind = "array" ->
            <<"[">> \o w
              \o Joined([i \in DOMAIN d.items |-> Text(d.items[i], w) \o w], <<",">> \o w)
              \o <<"]">>
      [] d.kind = "object" ->
            <<"{">> \o w
              \o Joined([i \in DOMAIN d.fields |->
                            <<Quote>> \o d.fields[i].key \o <<Quote>> \o w \o <<":">> \o w
                              \o Text(d.fields[i].value, w) \o w],
                        <<",">> \o w)
              \o <<"}">>

(* The fields of a document in the order of the text, nested ones included. *)
RECURSIVE Reading(_)
Reading(d) ==
    CASE d.kind = "object" -> FlattenSeq([i \in DOMAIN d.fields |->
                                             <<d.fields[i]>> \o Reading(d.fields[i].value)])
      [] d.kind = "array" -> FlattenSeq([i \in DOMAIN d.items |-> Reading(d.items[i])])
      [] OTHER -> <<>>

Init ==
    /\ doc \in Documents
    /\ blank \in {<<>>, <<" ">>}
    /\ call = [op |-> "none"]
    /\ result = <<>>

Calls(op, of, value) ==
    /\ call = [op |-> "none"]
    /\ call' = of @@ [op |-> op]
    /\ result' = value
    /\ UNCHANGED <<doc, blank>>

Next ==
    LET text == Text(doc, blank)
    IN  \/ \E k \in Names : Calls("FindString", [key |-> k], FindString(text, k))
        \/ \E k \in Names : Calls("FindNumber", [key |-> k], FindNumber(text, k))
        \/ \E k \in Names, i \in Indices :
              Calls("FindArrayElement", [key |-> k, index |-> i], FindArrayElement(text, k, i))
        \/ \E i \in Indices : Calls("FindElement", [index |-> i], FindElement(text, i))
        \/ \E k \in Names :
              Calls("ForEachArrayElement", [key |-> k], ForEachArrayElement(text, k))
        \/ doc.kind = "array" /\ Calls("ForEachElement", <<>>, ForEachElement(text))
        \/ Calls("ForEachField", <<>>, ForEachField(text))

Spec == Init /\ [][Next]_vars

-----------------------------------------------------------------------------
(* Properties. *)

(* The first field of that name as the text is read, if there is one. *)
FieldOf(key) ==
    LET named == SelectSeq(Reading(doc), LAMBDA f : f.key = key)
    IN  IF named = <<>> THEN None ELSE <<named[1].value>>

(* The value of that field if it is of the kind asked for. *)
ValueOf(key, kind) ==
    LET field == FieldOf(key)
    IN  IF field = None \/ field[1].kind # kind THEN None ELSE field

Items(array) == [i \in DOMAIN array.items |-> Text(array.items[i], blank)]

Item(array, index) == IF index < Len(array.items) THEN <<Items(array)[index + 1]>> ELSE None

HasEscapes(d) == d.kind = "string" /\ Contains(d.chars, Backslash)

(* A lookup by key answers with the first field of that name in the text,
   nested fields included, and with nothing if its value is of another kind: a
   key is never taken for one that is a string's value, or is in a string, and
   whitespace never matters.  FindString does not know of escapes. *)
LookupsFindTheField ==
    /\ call.op = "FindString" =>
          LET value == ValueOf(call.key, "string")
          IN  IF value = None THEN result = None
              ELSE HasEscapes(value[1]) \/ result = <<value[1].chars>>
    /\ call.op = "FindNumber" =>
          LET value == ValueOf(call.key, "number")
          IN  result = IF value = None THEN None ELSE <<value[1].chars>>

(* The walks over arrays and objects, and the lookups by index, see every
   element once and in order, each with exactly its own text, whatever
   brackets, commas, quotes and backslashes its strings contain (SkipValue). *)
WalksSeeEveryElement ==
    /\ call.op = "FindArrayElement" =>
          LET array == ValueOf(call.key, "array")
          IN  result = IF array = None THEN None ELSE Item(array[1], call.index)
    /\ call.op = "ForEachArrayElement" =>
          LET array == ValueOf(call.key, "array")
          IN  result = IF array = None THEN <<>> ELSE Items(array[1])
    /\ call.op = "FindElement" =>
          result = IF doc.kind = "array" THEN Item(doc, call.index) ELSE None
    /\ call.op = "ForEachElement" => result = Items(doc)
    /\ call.op = "ForEachField" =>
          result = IF doc.kind # "object"
                   THEN <<>>
                   ELSE [i \in DOMAIN doc.fields |->
                            [key |-> doc.fields[i].key, value |-> Text(doc.fields[i].value, blank)]]
=============================================================================
