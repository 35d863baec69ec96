-------------------------------- MODULE Json --------------------------------
(***************************************************************************)
(* The part of the JSON library that the programs use: Reader::parse with  *)
(* the features of a default Reader, FastWriter, and the accessors of      *)
(* Value.  A document is a sequence of units: punctuation, "quote" and     *)
(* "backslash", a space, a comment, a word, a run of digits.  Strings are  *)
(* sequences of units too.  What throws an exception yields Throws; nobody *)
(* catches it.                                                             *)
(***************************************************************************)
EXTENDS Integers, Sequences, FiniteSetsExt, SequencesExt

CONSTANTS
  MaxInt, MaxUInt, MaxLargestUInt,  \* of int, unsigned int and the largest type
  NameOrder                         \* names of members in the order of std::map

Unit(c) == [c |-> c]
Number(n) == [c |-> "number", n |-> n]
Word(w) == <<Unit(w)>>

Null == [type |-> "null"]
Bool(b) == [type |-> "bool", b |-> b]
Integer(n) == [type |-> "int", n |-> n]
Unsigned(n) == [type |-> "uint", n |-> n]
String(s) == [type |-> "string", s |-> s]
Array(items) == [type |-> "array", items |-> items]
Object(members) == [type |-> "object", members |-> members]

Throws == [type |-> "throws"]

-----------------------------------------------------------------------------
(* FastWriter *)

\* What valueToQuotedStringN escapes, and what stands for it.  A slash stays.
Escapes == [quote |-> "quote", backslash |-> "backslash", newline |-> "n", return |-> "r",
            tab |-> "t", control |-> "u0001"]

Escaped(unit) ==
  IF unit.c \in DOMAIN Escapes THEN <<Unit("backslash"), Unit(Escapes[unit.c])>> ELSE <<unit>>

Quoted(s) == Word("quote") \o FlattenSeq([i \in DOMAIN s |-> Escaped(s[i])]) \o Word("quote")

Joined(parts) ==
  FlattenSeq([i \in DOMAIN parts |-> IF i = 1 THEN parts[i] ELSE Word(",") \o parts[i]])

RECURSIVE Written(_)

Written(value) ==
  CASE value.type = "null" -> Word("null")
    [] value.type = "bool" -> Word(IF value.b THEN "true" ELSE "false")
    [] value.type \in {"int", "uint"} -> <<Number(value.n)>>
    [] value.type = "string" -> Quoted(value.s)
    [] value.type = "array" ->
         Word("[") \o Joined([i \in DOMAIN value.items |-> Written(value.items[i])]) \o Word("]")
    [] value.type = "object" ->
         LET names == SelectSeq(NameOrder, LAMBDA name : name \in DOMAIN value.members)
         IN Word("{") \o Joined([i \in DOMAIN names |->
              Quoted(names[i]) \o Word(":") \o Written(value.members[names[i]])]) \o Word("}")

\* FastWriter::write
Write(value) == Written(value) \o Word("newline")

-----------------------------------------------------------------------------
(* Reader.  A reading is the value read, with the place of what follows. *)

Failed == [ok |-> FALSE]
Reading(value, next) == [ok |-> TRUE, value |-> value, next |-> next]

At(document, i) == IF i <= Len(document) THEN document[i].c ELSE "end"

Spaces == {"space", "tab", "return", "newline"}

\* The first place from i on that holds none of these.
Past(document, i, skipped) ==
  IF \A j \in i .. Len(document) : document[j].c \in skipped THEN Len(document) + 1
  ELSE CHOOSE j \in i .. Len(document) :
         document[j].c \notin skipped /\ \A k \in i .. j - 1 : document[k].c \in skipped

\* Comments are skipped before values and names and after values of members.
PastComments(document, i) == Past(document, i, Spaces \cup {"comment"})

Unescape == [c \in {Escapes[e] : e \in DOMAIN Escapes} |->
               Unit(CHOOSE e \in DOMAIN Escapes : Escapes[e] = c)]
            @@ [b |-> Unit("backspace"), f |-> Unit("formfeed"), slash |-> Unit("slash")]

\* readString and decodeString from the unit after the opening quote on.
RECURSIVE ReadText(_, _, _)

ReadText(document, i, decoded) ==
  CASE At(document, i) = "end" -> Failed
    [] At(document, i) = "quote" -> Reading(decoded, i + 1)
    [] At(document, i) = "backslash" ->
         IF At(document, i + 1) \in DOMAIN Unescape
         THEN ReadText(document, i + 2, Append(decoded, Unescape[At(document, i + 1)]))
         ELSE Failed
    [] OTHER -> ReadText(document, i + 1, Append(decoded, document[i]))

\* decodeNumber: the type follows from the size.
NumberValue(n) ==
  IF n <= MaxInt /\ -n <= MaxLargestUInt \div 2 + 1 THEN Integer(n)
  ELSE IF n > 0 /\ n <= MaxLargestUInt THEN Unsigned(n) ELSE [type |-> "real", n |-> n]

Literal == [null |-> Null, true |-> Bool(TRUE), false |-> Bool(FALSE)]

RECURSIVE ReadValue(_, _), ReadMembers(_, _, _, _), ReadItems(_, _, _)

\* Mutant: what is not closed ends with the document.
EndsObjectOpen(document, i) == At(document, i) \in {"}", "end"}

EndsObject(document, i) == At(document, i) = "}"

\* readObject from a name on.  last is the name before: an object may end in a
\* comma after an empty one.
ReadMembers(document, from, last, members) ==
  LET i == PastComments(document, from)
      name == ReadText(document, i + 1, <<>>)
      colon == Past(document, name.next, Spaces)
      value == ReadValue(document, colon + 1)
      i2 == PastComments(document, value.next)
      added == (name.value :> value.value) @@ members
  IN IF EndsObject(document, i) /\ last = <<>> THEN Reading(Object(members), i + 1)
     ELSE IF At(document, i) # "quote" \/ ~name.ok THEN Failed
     ELSE IF At(document, colon) # ":" \/ ~value.ok THEN Failed
     ELSE IF EndsObject(document, i2) THEN Reading(Object(added), i2 + 1)
     ELSE IF At(document, i2) = "," THEN ReadMembers(document, i2 + 1, name.value, added)
     ELSE Failed

\* readArray from an item on.
ReadItems(document, from, items) ==
  LET value == ReadValue(document, from)
      i == PastComments(document, value.next)
  IN IF ~value.ok THEN Failed
     ELSE IF At(document, i) = "]" THEN Reading(Array(Append(items, value.value)), i + 1)
     ELSE IF At(document, i) = "," THEN ReadItems(document, i + 1, Append(items, value.value))
     ELSE Failed

ReadValue(document, from) ==
  LET i == PastComments(document, from)
  IN CASE At(document, i) = "{" -> ReadMembers(document, i + 1, <<>>, <<>>)
       [] At(document, i) = "[" ->
            LET first == Past(document, i + 1, Spaces)
            IN IF At(document, first) = "]" THEN Reading(Array(<<>>), first + 1)
               ELSE ReadItems(document, i + 1, <<>>)
       [] At(document, i) = "quote" ->
            LET text == ReadText(document, i + 1, <<>>)
            IN IF text.ok THEN Reading(String(text.value), text.next) ELSE Failed
       [] At(document, i) = "number" -> Reading(NumberValue(document[i].n), i + 1)
       [] At(document, i) \in DOMAIN Literal -> Reading(Literal[At(document, i)], i + 1)
       [] OTHER -> Failed

\* Reader::parse.  Any value is taken at the root, and what follows it is not
\* looked at.
Parse(document) == ReadValue(document, 1)

-----------------------------------------------------------------------------
(* Value.  An operation on Throws is not reached, and throws. *)

\* get and isMember, which are for objects and null.
IsMember(value, name) == value.type = "object" /\ name \in DOMAIN value.members

Get(value, name, default) ==
  IF value.type \notin {"object", "null"} THEN Throws
  ELSE IF IsMember(value, name) THEN value.members[name] ELSE default

AsCString(value) == IF value.type = "string" THEN value ELSE Throws

\* asString, of which only strings and null are met without loss.
AsString(value) ==
  CASE value.type = "string" -> value
    [] value.type = "null" -> String(<<>>)
    [] value.type = "bool" -> String(Word(IF value.b THEN "true" ELSE "false"))
    [] value.type \in {"int", "uint", "real"} -> String(<<Number(value.n)>>)
    [] OTHER -> Throws

AsNumber(value, least, greatest) ==
  CASE value.type \in {"int", "uint", "real"} ->
         IF value.n \in least .. greatest THEN Integer(value.n) ELSE Throws
    [] value.type = "null" -> Integer(0)
    [] value.type = "bool" -> Integer(IF value.b THEN 1 ELSE 0)
    [] OTHER -> Throws

AsInt(value) == AsNumber(value, -MaxInt - 1, MaxInt)
AsUInt(value) == AsNumber(value, 0, MaxUInt)

Convertible(values) == \A i \in DOMAIN values : values[i] # Throws
=============================================================================
