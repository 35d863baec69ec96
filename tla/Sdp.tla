-------------------------------- MODULE Sdp --------------------------------
(* Session descriptions: the lines of an offer read into streams and        *)
(* attributes, and the answer that MediaSessionManager::allocate makes and  *)
(* toString writes.                                                         *)
EXTENDS Buffers

CONSTANTS
  StreamModulus,   \* streamCount is a uint8_t: 256
  PortModulus,     \* ports are uint16_t: 65536
  MaxBodyLength    \* MaxSdpBodyLength; counts units here

-----------------------------------------------------------------------------
(* The values of lines *)

TypeAmong(buffer, types, default) ==
  IF Trim(buffer) \in {Word(type) : type \in types} THEN Trim(buffer)[1].c ELSE default

MediaType(buffer) ==
  TypeAmong(buffer, {"audio", "video", "text", "application", "message"}, "unknown")
ProtocolType(buffer) == TypeAmong(buffer, {"RTP/AVP", "RTP/SAVP", "UDP"}, "RTP/AVP")
AddrType(buffer) == TypeAmong(buffer, {"IP4", "IP6"}, "IP4")

\* SdpMedia of an SdpMediaLine, which leaves the formats behind.  A line with too
\* few items leaves the port to what the memory holds.
Media(line, memory) ==
  LET content == Split(line, "space")
  IN IF Len(content) < 4
     THEN [type |-> "audio", port |-> memory, protocol |-> "RTP/AVP",
           formats |-> <<>>, attributes |-> <<>>]
     ELSE [type |-> MediaType(content[1]), port |-> ToLong(Split(content[2], "/")[1]) % PortModulus,
           protocol |-> ProtocolType(content[3]), formats |-> <<>>, attributes |-> <<>>]

Attribute(line) ==
  LET components == SplitOnFirst(Trim(line), "space")
      keyAndValue == SplitOnFirst(components[1], ":")
  IN [key |-> Trim(keyAndValue[1]), value |-> Trim(keyAndValue[2]),
      parameters |-> components[2], isProperty |-> keyAndValue[2] = <<>>]

Connection(line) ==
  LET content == Split(line, "space")
  IN [netType |-> content[1], addrType |-> AddrType(content[2]), address |-> content[3]]

\* The network type of the line is not kept.
Origin(line, memory) ==
  LET content == Split(line, "space")
  IN IF Len(content) = 6
     THEN [username |-> content[1], sessionId |-> ToLong(content[2]),
           sessionVersion |-> ToLong(content[3]), addrType |-> AddrType(content[5]),
           address |-> content[6]]
     ELSE [username |-> <<>>, sessionId |-> 0, sessionVersion |-> memory,
           addrType |-> "IP4", address |-> <<>>]

Timing(line) ==
  LET content == Split(line, "space")
  IN IF Len(content) < 2 THEN [start |-> 0, stop |-> 0]
     ELSE [start |-> ToLong(content[1]), stop |-> ToLong(content[2])]

-----------------------------------------------------------------------------
(* Descriptions *)

NoSdp ==
  [streamCount |-> 0, origin |-> Origin(<<>>, 0), session |-> Word("-"),
   connection |-> [netType |-> Word("IN"), addrType |-> "IP4", address |-> <<>>],
   timing |-> [start |-> 0, stop |-> 0], attributes |-> <<>>, media |-> <<>>]

AddMediaStream(sdp, media) ==
  [sdp EXCEPT !.streamCount = (@ + 1) % StreamModulus, !.media = Append(@, media)]

\* Mutant: an attribute of a stream is filed under the first.
AddAttributeToFirst(sdp, attribute) ==
  IF sdp.streamCount = 0 THEN [sdp EXCEPT !.attributes = Append(@, attribute)]
  ELSE [sdp EXCEPT !.media[1].attributes = Append(@, attribute)]

\* addAttribute for the latest stream, or for all of them when there is none.
AddAttribute(sdp, attribute) ==
  IF sdp.streamCount = 0 THEN [sdp EXCEPT !.attributes = Append(@, attribute)]
  ELSE [sdp EXCEPT !.media[sdp.streamCount].attributes = Append(@, attribute)]

\* What a line is taken for: its first letter, whatever case it is in and
\* whatever follows up to an equals sign, if there is one.
LetterOf == [o |-> "o", s |-> "s", c |-> "c", t |-> "t", m |-> "m", M |-> "m", media |-> "m",
             a |-> "a", audio |-> "a"]

Letter(line) ==
  LET key == SplitOnFirst(line, "=")[1]
  IN IF key # <<>> /\ key[1].c \in DOMAIN LetterOf THEN LetterOf[key[1].c] ELSE "other"

Load(sdp, line, memory) ==
  LET value == SplitOnFirst(line, "=")[2]
  IN CASE Letter(line) = "o" -> [sdp EXCEPT !.origin = Origin(value, memory)]
       [] Letter(line) = "s" -> [sdp EXCEPT !.session = value]
       [] Letter(line) = "c" -> [sdp EXCEPT !.connection = Connection(value)]
       [] Letter(line) = "t" -> [sdp EXCEPT !.timing = Timing(value)]
       [] Letter(line) = "m" -> AddMediaStream(sdp, Media(value, memory))
       [] Letter(line) = "a" -> AddAttribute(sdp, Attribute(value))
       [] OTHER -> sdp

Lines(text) == SplitLines(SubSeq(text, 1, IF Len(text) < MaxBodyLength THEN Len(text) ELSE MaxBodyLength))

\* The constructor for a text.
Parse(text, memory) ==
  LET lines == Lines(text)
      loaded[i \in 0 .. Len(lines)] ==
        IF i = 0 THEN NoSdp ELSE Load(loaded[i - 1], lines[i], memory)
  IN loaded[Len(lines)]

\* A connection line with fewer than three items makes the code look at items that
\* are not there.
Defined(text) ==
  \A i \in DOMAIN Lines(text) :
    Letter(Lines(text)[i]) = "c" => Len(Split(SplitOnFirst(Lines(text)[i], "=")[2], "space")) >= 3

-----------------------------------------------------------------------------
(* The answer *)

Property(key, value, parameters) ==
  [key |-> Word(key), value |-> value, parameters |-> parameters, isProperty |-> value = <<>>]

AnswerStream(port) ==
  [type |-> "audio", port |-> port, protocol |-> "RTP/AVP", formats |-> <<0, 101>>,
   attributes |-> <<Property("rtpmap", <<Number(0)>>, Word("PCMU/8000")),
                    Property("rtpmap", <<Number(101)>>, Word("telephone-event/8000")),
                    Property("fmtp", <<Number(101)>>, Word("0-15")),
                    Property("ptime", <<Number(20)>>, <<>>)>>]

\* The answer to an offer, with the ports and the session id that were allocated.
Answer(offer, ports, sessionId) ==
  LET origin == [username |-> Word("-"), sessionId |-> sessionId, sessionVersion |-> 1000,
                 addrType |-> "IP4", address |-> Word("local")]
      start == [NoSdp EXCEPT !.origin = origin, !.connection.address = Word("local")]
      added[i \in 0 .. offer.streamCount] ==
        IF i = 0 THEN start ELSE AddMediaStream(added[i - 1], AnswerStream(ports[i]))
  IN added[offer.streamCount]

Line(letter, items) ==
  LET spaced == [i \in DOMAIN items |-> IF i = 1 THEN items[i] ELSE Word("space") \o items[i]]
  IN Word(letter) \o Word("=") \o FlattenSeq(spaced) \o <<Unit("cr"), Unit("lf")>>

AttributeLine(a) ==
  LET named == IF a.isProperty THEN a.key ELSE a.key \o Word(":") \o a.value
  IN Line("a", IF a.parameters = <<>> THEN <<named>> ELSE <<named, a.parameters>>)

Attributes(attributes) == FlattenSeq([i \in DOMAIN attributes |-> AttributeLine(attributes[i])])

MediaLines(m) ==
  Line("m", <<Word(m.type), <<Number(m.port)>>, Word(m.protocol)>>
            \o [i \in DOMAIN m.formats |-> <<Number(m.formats[i])>>])
  \o Attributes(m.attributes)

\* toString
Written(sdp) ==
  Line("v", <<<<Number(0)>>>>)
  \o Line("o", <<sdp.origin.username, <<Number(sdp.origin.sessionId)>>,
                 <<Number(sdp.origin.sessionVersion)>>, Word("IN"), Word(sdp.origin.addrType),
                 sdp.origin.address>>)
  \o Line("s", <<sdp.session>>)
  \o Line("c", <<sdp.connection.netType, Word(sdp.connection.addrType), sdp.connection.address>>)
  \o Line("t", <<<<Number(sdp.timing.start)>>, <<Number(sdp.timing.stop)>>>>)
  \o Attributes(sdp.attributes)
  \o FlattenSeq([i \in 1 .. sdp.streamCount |-> MediaLines(sdp.media[i])])

-----------------------------------------------------------------------------
(* Properties of one offer *)

MediaLineCount(lines) == Len(SelectSeq(lines, LAMBDA line : Letter(line) = "m"))

\* While the count lasts, every attribute of an offer is with the stream whose line
\* came last before it, or with none, and the order is kept.
AttributesAreWithTheirStream(text, memory) ==
  LET lines == Lines(text)
      sdp == Parse(text, memory)
      OfStream(k) == SelectSeq([i \in DOMAIN lines |-> i], LAMBDA i :
        Letter(lines[i]) = "a" /\ MediaLineCount(SubSeq(lines, 1, i)) = k)
      Loaded(places) == [i \in DOMAIN places |-> Attribute(SplitOnFirst(lines[places[i]], "=")[2])]
  IN MediaLineCount(lines) < StreamModulus =>
       /\ sdp.attributes = Loaded(OfStream(0))
       /\ \A k \in DOMAIN sdp.media : sdp.media[k].attributes = Loaded(OfStream(k))

\* An answer, once written and read, has, as long as a reader takes all of it, a
\* stream for each line of the offer that starts like a media line, modulo what is
\* counted, each with its own port and with the attributes it was given.
AnswerHasEachStream(text, memory, ports, sessionId) ==
  LET offer == Parse(text, memory)
      answer == Answer(offer, ports, sessionId)
      read == Parse(Written(answer), memory)
  IN /\ offer.streamCount = MediaLineCount(Lines(text)) % StreamModulus
     /\ Len(Written(answer)) <= MaxBodyLength =>
          /\ read.origin.sessionId = sessionId
          /\ read.media = [k \in 1 .. offer.streamCount |->
                             [AnswerStream(ports[k]) EXCEPT !.formats = <<>>]]
=============================================================================
