------------------------------ MODULE SipParser ------------------------------
(***************************************************************************)
(* SipParser: what one call of loadMessageData makes of a parser.          *)
(*                                                                         *)
(* A message is a sequence of units: the header lines of a message, the    *)
(* blank line that ends a header or the header of a part (CR LF CR LF),    *)
(* the boundary line and header of a part, and text.  Lengths count units, *)
(* and every boundary line has the key the parser looks for.  The parser   *)
(* gets stamped units, which tell what they arrived in; it never looks at  *)
(* the stamps.  The stamp of what was in the memory before is 0.           *)
(***************************************************************************)
EXTENDS Naturals, Sequences, SequencesExt

CONSTANTS
  Null,         \* the null message, and an absent body
  Leftovers     \* what the memory may hold, up to a NUL, where a pull has put no NUL

\* Types that SipContentTypeHeader tells apart; it takes multipart/mixed for
\* BOUNDARY, because of its parameter, and nothing for MULTIPLE or OTHER.
ContentTypes == {"SDP", "XML", "BOUNDARY", "UNKNOWN", "NONE"}
PartTypes == {"SDP", "XML", "OTHER"}

Request == [method : STRING, contentType : ContentTypes, contentLength : Nat]

Unit == [kind : {"end", "closing", "text"}]
   \cup [kind : {"part"}, type : PartTypes]
   \cup [kind : {"header"}, request : Request]

\* The methods builder makes a message for; for all others, and for every
\* response, it returns null.
BuiltMethods == {"INVITE", "ACK", "BYE", "OPTIONS", "SUBSCRIBE"}

NoBodies == [type \in PartTypes |-> Null]

\* What a parser is given, each unit with the stamp of what it arrived in.
Chunk(stamps) == Seq([unit : Unit, number : stamps])

Bodies(stamps) == [PartTypes -> Chunk(stamps) \cup {Null}]

\* A SipMessage; its number tells where its first line arrived.
Message(stamps) == [request : Request, number : stamps, bodies : Bodies(stamps)]

\* The logger of a SipMessage is set by the one constructor that no request is made
\* with.  What a call through it does is undefined; a build does one or the other.
VARIABLE logEnds   \* does such a call end the process?

ASSUME NullAssumption == Null \notin Chunk(Nat) \cup Message(Nat)

ASSUME LeftoversAssumption == Leftovers \subseteq Chunk({0})

\* Mutant: the pull does not clear the buffer.
TextUncleared(chunk, bufSize, remains) == chunk \o SubSeq(remains, Len(chunk) + 1, Len(remains))

\* The text that the message of a body is given starts with the chunk that was pulled
\* and goes on to the first NUL.  pull clears the read loop's buffer before it copies,
\* so that is the chunk, but for one that fills the whole buffer, and where nothing
\* was pulled at all.
TextOf(chunk, bufSize, remains) ==
  IF Len(chunk) \in {0, bufSize} THEN chunk \o remains ELSE chunk

\* The members of a parser when it is made.
NewParser ==
  [processingMessage |-> FALSE, sipMessage |-> Null, expecting |-> "NONE",
   receivedContentLength |-> 0, bodies |-> NoBodies]

-----------------------------------------------------------------------------
\* std::map::insert, and addBody of a message: the first body of a type stays.
AddBody(bodies, type, chunk) ==
  IF bodies[type] = Null THEN [bodies EXCEPT ![type] = chunk] ELSE bodies

StartsWith(chunk, kind) == chunk # <<>> /\ Head(chunk).unit.kind = kind

\* builder: only the first line can name a method.  (readHeaderLine passes over a
\* line that starts with '-'; here a header behind one, which only a stream that has
\* lost bytes puts in a chunk, makes no message.)  An INVITE starts with the bodies
\* that the parser has collected so far, any other request with none.
BuildMessage(p, chunk) ==
  IF StartsWith(chunk, "header") /\ Head(chunk).unit.request.method \in BuiltMethods
  THEN [request |-> Head(chunk).unit.request, number |-> Head(chunk).number,
        bodies |-> IF Head(chunk).unit.request.method = "INVITE" THEN p.bodies ELSE NoBodies]
  ELSE Null

\* The places of the lines; buffer_split_lines leaves blank ones out.
Lines(chunk) == {i \in DOMAIN chunk : chunk[i].unit.kind # "end"}

\* The type a part's header announces, the last one if it names several.
AnnouncedType(chunk) ==
  LET parts == {i \in Lines(chunk) : chunk[i].unit.kind = "part"}
  IN IF Lines(chunk) # {} /\ Min(Lines(chunk)) \in parts THEN chunk[Max(parts)].unit.type
     ELSE "NONE"

\* The constructor of every message logs.
Constructs(p, chunk) == logEnds => BuildMessage(p, chunk) = Null

\* Where a part is expected the first line is looked at, and lines[0] of no lines is
\* a null reference: the process ends.
Survives(p, chunk) ==
  IF p.processingMessage THEN p.expecting = "BOUNDARY" => Lines(chunk) # {}
  ELSE Constructs(p, chunk)

\* Mutant: the header of a part is taken for its body.
ParseBodyDataEarly(p, chunk, text) ==
  [p EXCEPT !.bodies = AddBody(@, "SDP", chunk),
            !.sipMessage.bodies = AddBody(@, "SDP", text), !.expecting = "NONE"]

\* parseBodyData.  One chunk is all that is taken for a body: whatever comes
\* after it, its own rest included, is expected to be nothing.  The parser keeps
\* the chunk; the message is given the text that starts there, up to a NUL.
ParseBodyData(p, chunk, text) ==
  CASE p.expecting \in {"SDP", "XML"} ->
         [p EXCEPT !.bodies = AddBody(@, p.expecting, chunk),
                   !.sipMessage.bodies = AddBody(@, p.expecting, text),
                   !.expecting = "NONE"]
    [] p.expecting = "OTHER" ->
         [p EXCEPT !.bodies = AddBody(@, "OTHER", chunk), !.expecting = "NONE"]
    [] p.expecting = "BOUNDARY" -> [p EXCEPT !.expecting = AnnouncedType(chunk)]
    [] OTHER -> [p EXCEPT !.expecting = "NONE"]

\* Mutant: the message is let go of and still counts as being processed.
DeliverForgetting(state) ==
  [state EXCEPT !.parser.sipMessage = Null, !.parser.receivedContentLength = 0,
                !.delivered = Append(@, state.parser.sipMessage)]

\* A state is at least a parser, what it has delivered, and whether the process runs.
Deliver(state) ==
  [state EXCEPT !.parser.processingMessage = FALSE, !.parser.receivedContentLength = 0,
                !.delivered = Append(@, state.parser.sipMessage)]

\* Mutant: a message without a body waits for one.
LoadHeaderAwaiting(state, chunk) ==
  LET message == BuildMessage(state.parser, chunk)
      loaded == [state EXCEPT !.parser.sipMessage = message]
  IN IF message = Null THEN loaded
     ELSE [loaded EXCEPT !.parser.processingMessage = TRUE,
                         !.parser.expecting = message.request.contentType]

\* The first half of loadMessageData.  What normaliseHeaderData leaves as the
\* expected type of a chunk that makes no message is not read before the next one.
LoadHeader(state, chunk) ==
  LET message == BuildMessage(state.parser, chunk)
      loaded == [state EXCEPT !.parser.sipMessage = message]
  IN IF message = Null THEN loaded
     ELSE IF message.request.contentLength = 0
     THEN Deliver([loaded EXCEPT !.parser.expecting = "NONE"])
     ELSE [loaded EXCEPT !.parser.processingMessage = TRUE,
                         !.parser.expecting = message.request.contentType]

Counted(p, chunk) == [p EXCEPT !.receivedContentLength = @ + Len(chunk)]

\* Mutant: the length received is looked at before the chunk is counted.
LoadBodyLate(state, chunk, text) ==
  LET loaded == [state EXCEPT !.parser = ParseBodyData(Counted(@, chunk), chunk, text)]
  IN IF state.parser.receivedContentLength >= state.parser.sipMessage.request.contentLength
     THEN Deliver(loaded) ELSE loaded

\* Mutant: a message is handed on with each of its chunks.
LoadBodyEarly(state, chunk, text) ==
  LET loaded == [state EXCEPT !.parser = ParseBodyData(Counted(@, chunk), chunk, text)]
  IN IF loaded.parser.receivedContentLength >= loaded.parser.sipMessage.request.contentLength
     THEN Deliver(loaded)
     ELSE [loaded EXCEPT !.delivered = Append(@, loaded.parser.sipMessage)]

\* Its second half: the message is done when its length has come, no matter what of.
LoadBody(state, chunk, text) ==
  LET loaded == [state EXCEPT !.parser = ParseBodyData(Counted(@, chunk), chunk, text)]
  IN IF loaded.parser.receivedContentLength >= loaded.parser.sipMessage.request.contentLength
     THEN Deliver(loaded) ELSE loaded

LoadMessageData(state, chunk, text) ==
  IF ~state.running THEN state
  ELSE IF ~Survives(state.parser, chunk) THEN [state EXCEPT !.running = FALSE]
  ELSE IF state.parser.processingMessage THEN LoadBody(state, chunk, text)
  ELSE LoadHeader(state, chunk)

\* What loadMessageData returns: the bytes of the body that are still to come.
PendingBytes(p) ==
  IF p.processingMessage
  THEN p.sipMessage.request.contentLength - p.receivedContentLength ELSE 0

-----------------------------------------------------------------------------
(* What both users of a parser say about it. *)

ParserTypeOK(p, stamps) ==
  /\ p \in [processingMessage : BOOLEAN, sipMessage : Message(stamps) \cup {Null},
            expecting : ContentTypes \cup PartTypes, receivedContentLength : Nat,
            bodies : Bodies(stamps)]
  /\ p.processingMessage => p.sipMessage # Null

HeaderLength(m) == Min({i \in DOMAIN m : m[i].kind = "end"} \cup {Len(m)})
Body(m) == SubSeq(m, HeaderLength(m) + 1, Len(m))

Headed(units) == units # <<>> /\ units[1].kind = "header"

\* The numbers of those among these messages that a request is built of.
Buildable(messages) ==
  {n \in DOMAIN messages : Headed(messages[n])
                            /\ messages[n][1].request.method \in BuiltMethods}

Numbers(requests) == {requests[i].number : i \in DOMAIN requests}

InOrder(requests) ==
  \A i, j \in DOMAIN requests : i < j => requests[i].number < requests[j].number

SdpOf(message) == message.bodies["SDP"]

=============================================================================
