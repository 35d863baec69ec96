----------------------------- MODULE SipHeaders -----------------------------
(* The header of a request, from the text to what is answered and notified: *)
(* SipParser::normaliseHeaderData, SipMessage::builder and its getters, the *)
(* Via header, the responses of SipRequest and CallIncomingNotification.    *)
(* Names are in capitals, as case is ignored.                               *)
EXTENDS Buffers, FiniteSetsExt, TLC

VARIABLE logEnds   \* of the build: does a call through a null logger end the process?

CONSTANTS
  MaxLine,   \* of the value of a line, 511; counts units here
  Letters    \* words of one letter, which is too short for a name

Null == <<Unit("no header")>>

-----------------------------------------------------------------------------
(* readHeaderLine and normaliseHeaderData *)

Separators == Spaces \cup {":", "=", ";", "/", ".", "nul", "number"}

At(text, i) == IF i \in DOMAIN text THEN text[i].c ELSE "end"

\* A line feed ends a line unless the next line starts with a space.
EndOfLine(text, from) ==
  CHOOSE i \in from .. Len(text) + 1 :
    /\ \/ At(text, i) = "end"
       \/ At(text, i) = "lf" /\ At(text, i + 1) \notin {"space", "tab"}
    /\ \A j \in from .. i - 1 : At(text, j) # "lf" \/ At(text, j + 1) \in {"space", "tab"}

\* Lines that start with a dash are passed over.
RECURSIVE FirstLine(_, _)
FirstLine(text, from) ==
  IF At(text, from) # "-" THEN from
  ELSE LET feeds == {i \in from .. Len(text) : text[i].c = "lf"}
       IN IF feeds = {} THEN Len(text) + 1
          ELSE FirstLine(text, (CHOOSE i \in feeds : \A j \in feeds : i <= j) + 1)

\* What of the units from..to belongs to the value, past its name if it has one.
ValuePlaces(text, from, to, named) ==
  SelectSeq([i \in 1 .. to - from + 1 |-> from + i - 1],
            LAMBDA i : text[i].c \notin {"cr", "lf"} /\ ~(named /\ i = from))

\* Without the spaces and colons in front.
FromFirst(text, places) ==
  LET begin == {k \in DOMAIN places : text[places[k]].c \notin {"space", "tab", ":"}}
  IN IF begin = {} THEN <<>> ELSE SubSeq(places, Min(begin), Len(places))

\* One line: its name, its value and where the next one starts.  A value that fills
\* the room there is ends the line, and the unit behind it is passed over.
LineAt(text, start, end, named, places) ==
  LET taken == SubSeq(places, 1, Min({MaxLine, Len(places)}))
  IN [name |-> IF named THEN <<text[start]>> ELSE <<>>,
      value |-> [k \in DOMAIN taken |-> text[taken[k]]],
      next |-> IF Len(places) < MaxLine THEN end + 1 ELSE taken[MaxLine] + 2]

ReadHeaderLine(text, from) ==
  LET start == FirstLine(text, from)
      end == EndOfLine(text, start)
      named == At(text, start) \notin Separators \cup {"end"}
  IN LineAt(text, start, end, named, FromFirst(text, ValuePlaces(text, start, end - 1, named)))

\* A name of one letter is no name, and the line is split at its first colon.
NameAndValue(line) ==
  IF line.name = <<>> \/ line.name[1].c \in Letters
  THEN SplitOnFirst(line.name \o line.value, ":") ELSE <<line.name, line.value>>

\* The lines up to the first one without a value.
RECURSIVE NormalisedFrom(_, _)
NormalisedFrom(text, from) ==
  LET line == ReadHeaderLine(text, from)
      parts == NameAndValue(line)
  IN IF from > Len(text) \/ line.value = <<>> THEN <<>>
     ELSE <<[name |-> parts[1], value |-> parts[2]]>> \o NormalisedFrom(text, line.next)

Normalised(text) == NormalisedFrom(text, 1)

-----------------------------------------------------------------------------
(* SipMessage *)

\* getFieldName, of the names that have a class of their own and of others.
FieldNames ==
  "VIA" :> "Via" @@ "FROM" :> "From" @@ "TO" :> "To" @@ "CALL-ID" :> "Call-ID"
  @@ "CSEQ" :> "C-Seq" @@ "CONTENT-LENGTH" :> "Content-Length"
  @@ "CONTENT-TYPE" :> "Content-Type" @@ "CONTACT" :> "Contact"
  @@ "MAX-FORWARDS" :> "Max-Forwards" @@ "SUBJECT" :> "Subject"

FieldName(key) ==
  IF Len(key) = 1 /\ key[1].c \in DOMAIN FieldNames THEN Word(FieldNames[key[1].c]) ELSE key

\* Mutant: the case of a CSeq is left out of the builder.
HeaderKeyWithoutCSeq(name) == IF name = Word("CSEQ") THEN Word("C-SEQ") ELSE name

\* The key of a header in the message's map.
HeaderKey(name) == name

\* builder, of the lines: the last of several headers of one name is kept.
Build(lines) ==
  LET keys == {HeaderKey(lines[i].name) : i \in 2 .. Len(lines)}
      LatestOf(key) == Max({i \in 2 .. Len(lines) : HeaderKey(lines[i].name) = key})
  IN IF lines = <<>> THEN [method |-> <<>>, headers |-> <<>>]
     ELSE [method |-> lines[1].name, headers |-> [key \in keys |-> lines[LatestOf(key)].value]]

\* Getters look headers up with an operator that adds those that are not there,
\* with no header.
LookedUp(headers, names) ==
  headers @@ [key \in {Word(name) : name \in names} |-> Null]

ValueOf(headers, name) ==
  IF Word(name) \notin DOMAIN headers THEN <<>> ELSE headers[Word(name)]

-----------------------------------------------------------------------------
(* The Via header *)

ParameterValues(parts, name) ==
  LET named == SelectSeq(Tail(parts), LAMBDA p : Len(Split(p, "=")) = 2 /\ Split(p, "=")[1] = Word(name))
  IN [k \in DOMAIN named |-> Split(named[k], "=")[2]]

\* The constructor.  A value that has not two sections leaves transport and port to
\* what the memory holds.
Via(value, memory) ==
  LET sections == Split(value, "space")
      parts == Split(sections[2], ";")
      address == Split(parts[1], ":")
      branches == ParameterValues(parts, "branch")
      ports == SelectSeq(SubSeq(address, 2, Min({2, Len(address)})) \o ParameterValues(parts, "rport"),
                         LAMBDA port : ToLong(port) # 0)
  IN IF Len(sections) # 2
     THEN [transport |-> memory.transport, address |-> <<>>, branch |-> <<>>, port |-> memory.port]
     ELSE [transport |-> IF BufferEndsWith(sections[1], Word("TCP")) THEN "TCP" ELSE "UDP",
           address |-> address[1],
           branch |-> IF branches = <<>> THEN <<>> ELSE branches[Len(branches)],
           port |-> IF ports = <<>> THEN 0 ELSE ToLong(ports[1])]

\* getResponseValue: address and port are those of the header.
ResponseVia(via) ==
  [transport |-> via.transport, address |-> via.address, branch |-> via.branch,
   received |-> via.address, rport |-> via.port]

\* CallIncomingNotification::parseViaHeader, by the name of what it finds.
RemoteDetails(value) ==
  LET parts == Split(value, ";")
      first == SplitOnFirst(parts[1], "space")
      address == SplitOnFirst(first[2], ":")
      octets == Split(address[1], ".")
      isIpAddress == /\ Len(octets) = 4
                     /\ \A k \in 1 .. 4 : ToLong(octets[k]) <= 255
                     /\ ToLong(octets[1]) # 0
      proto == IF BufferContains(first[1], Word("TCP")) THEN Word("TCP") ELSE Word("UDP")
      start == (Word("proto") :> proto) @@ (Word("remoteServer") :> address[1])
               @@ (IF isIpAddress THEN Word("remoteIpAddress") :> address[1] ELSE <<>>)
               @@ (IF isIpAddress /\ address[2] # <<>> THEN Word("remotePort") :> address[2] ELSE <<>>)
      KeyOf(name) == CASE BufferStartsWith(name, Word("received")) -> Word("remoteIpAddress")
                       [] BufferStartsWith(name, Word("rport")) -> Word("remotePort")
                       [] OTHER -> name
      found[k \in 1 .. Len(parts)] ==
        IF k = 1 THEN start
        ELSE LET pair == SplitOnFirst(parts[k], "=")
             IN IF pair[2] = <<>> THEN found[k - 1] ELSE (KeyOf(pair[1]) :> pair[2]) @@ found[k - 1]
  IN found[Len(parts)]

-----------------------------------------------------------------------------
(* A request on a dialogue: the response, and the notification of an INVITE *)

\* buildStandardBaseResponse: what it takes of the request.
Response(headers, memory) ==
  [via |-> IF Word("VIA") \in DOMAIN headers
           THEN ResponseVia(Via(headers[Word("VIA")], memory)) ELSE <<>>,
   from |-> ValueOf(headers, "FROM"), to |-> ValueOf(headers, "TO"),
   callId |-> ValueOf(headers, "CALL-ID"), cseq |-> ValueOf(headers, "CSEQ")]

Ends == [ends |-> TRUE]

\* processInvite, and processBye and processSubscribe as far as they answer.  Where
\* the response goes to is looked up before or after the response is built: the
\* compiler chooses.  A header that is not there but was looked up is no header to
\* take a Via or a description from, and the process ends.  The constructor of the
\* request and getResponseViaContent log through a logger that is not set.
Handle(request, memory, addressFirst) ==
  LET called == LookedUp(request.headers, {"CALL-ID"})
      answering == IF addressFirst THEN LookedUp(called, {"VIA"}) ELSE called
      answered == LookedUp(called, {"VIA", "FROM", "TO", "CSEQ"})
  IN IF logEnds THEN Ends
     ELSE IF Word("VIA") \in DOMAIN answering /\ answering[Word("VIA")] = Null THEN Ends
     ELSE IF request.method # Word("INVITE")
          THEN [ends |-> FALSE, response |-> Response(request.headers, memory), notified |-> <<>>]
     ELSE IF Null \in {answered[key] : key \in DOMAIN answered} THEN Ends
     ELSE [ends |-> FALSE, response |-> Response(request.headers, memory),
           notified |-> [key \in DOMAIN answered |->
                           [field |-> FieldName(key), value |-> answered[key]]]]
=============================================================================
