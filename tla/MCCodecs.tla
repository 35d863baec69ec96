------------------------------ MODULE MCCodecs ------------------------------
(* The codecs over bounded inputs: each step of Next picks one input, and   *)
(* the properties are those of what is picked.  Small integers stand for    *)
(* those of the build, which are alike.                                     *)
EXTENDS Integers, Sequences, FiniteSets

CONSTANTS
  MaxInt, MaxUInt, MaxLargestUInt,
  MaxText,      \* bound: units of a text
  StreamModulus, PortModulus, MaxBodyLength,
  MaxLines,     \* bound: lines of an offer
  MaxLine, Letters

VARIABLES
  input,    \* the kind of what is picked, and what it is
  logEnds   \* of the build: does a call through a null logger end the process?

NameOrder ==
  LET names == <<"callId", "callbackId", "channelId", "data", "dialogueId", "domain",
                 "errorCode", "errorMessage", "filename", "identifier", "method",
                 "offerAnswer", "ownerReference", "resourceId", "sdp", "status",
                 "systemReference", "type">>
  IN [i \in DOMAIN names |-> <<[c |-> names[i]]>>]

MM == INSTANCE MediaMessages
CM == INSTANCE ControlMessages
SD == INSTANCE Sdp
SH == INSTANCE SipHeaders


-----------------------------------------------------------------------------
(* Media messages *)

Units == {[c |-> c] : c \in {"quote", "backslash", "newline", "n", "{", "}", "["}}
Texts == UNION {[1 .. n -> Units] : n \in 0 .. MaxText}

Ints == -MaxInt - 1 .. MaxInt
UInts == 0 .. MaxUInt
SomeText == <<[c |-> "name"]>>

FieldsOf(type, method, text, resourceId) ==
  [name \in MM!Fields(type, method) |->
     IF name = "resourceId" THEN MM!Integer(resourceId) ELSE MM!String(text)]

MessageOf(kind, ids, text, errorCode) ==
  MM!Message(kind[1], kind[2], ids[1], ids[2], FieldsOf(kind[1], kind[2], text, ids[2]),
             IF kind[1] = "request" THEN MM!NoStatus
             ELSE [errorCode |-> errorCode, errorMessage |-> text])

Kinds == {"request", "response"} \X MM!Methods

PickMediaMessage ==
  \E kind \in Kinds :
    \/ \E text \in Texts : input' = [kind |-> "media", message |-> MessageOf(kind, <<0, 0>>, text, 0)]
    \/ \E ids \in Ints \X UInts, errorCode \in Ints :
         input' = [kind |-> "media", message |-> MessageOf(kind, ids, SomeText, errorCode)]

\* What may be read behind a message: nothing, the beginning of one, a whole one.
Following ==
  LET other == MM!ToJson(MessageOf(<<"request", "release">>, <<1, 1>>, SomeText, 0))
  IN {<<>>, <<other[1]>>, other}

\* A message arrives as it was written, whatever its strings hold and whatever its
\* ids are, also when the read holds more behind it; a RELEASE arrives with its two
\* ids, those of dialogue and callback, exchanged.  Where a call through a null logger
\* ends the process, every one of these does (MediaMessage::toJson, the JSON writer
\* and reader, build_message, MediaMessage's constructor).
MediaMessagesSurvive ==
  input.kind = "media" => \A more \in Following : MM!Survives(input.message, more)

\* What a read holds of a message that another read ends or began is never taken
\* for a message: a beginning is dropped and a rest is dropped or ends the process
\* (this is what MediaLink takes of the codec).
PartsNeverBuild == input.kind = "media" => MM!PartsAreNoMessages(input.message)

-----------------------------------------------------------------------------
(* Control messages *)

PickChannel ==
  \E channelId \in UInts, method \in {"answerCall", "recordCall", "clearCall", "sendProgress"} :
    input' = [kind |-> "channel", channelId |-> channelId, method |-> method]

\* A controller that answers, records or clears the channel it was told of means
\* that channel, though a notification carries it as an int and the requests are
\* read as ints (Notification.h, Request.cpp).
ChannelsSurviveTheController ==
  input.kind = "channel" => CM!ChannelSurvives(input.channelId, input.method)

-----------------------------------------------------------------------------
(* Offers *)

W(w) == SD!Word(w)
N(n) == <<SD!Number(n)>>

\* Lines of all kinds: whole ones, some with too few items, some without an equals
\* sign and one that is no line of a description.
SomeLines ==
  {SD!Line("m", <<W("audio"), N(PortModulus + 1) \o W("/") \o N(2), W("RTP/AVP"), N(0)>>),
   SD!Line("M", <<W("image"), N(1), W("other"), N(8), N(9)>>),
   SD!Line("m", <<W("audio"), N(1)>>),
   W("media") \o W("cr"),
   SD!Line("a", <<W("sendrecv")>>),
   SD!Line("a", <<W("fmtp") \o W(":") \o N(9), W("x") \o W("space") \o W("y")>>),
   SD!Line("c", <<W("IN"), W("IP6"), W("host")>>),
   SD!Line("o", <<W("user"), N(1)>>),
   SD!Line("t", <<N(1), N(2)>>),
   SD!Line("a", <<[i \in 1 .. 60 |-> W("x")[1]]>>),
   W("=") \o W("a") \o W("lf")}

PickOffer ==
  \E n \in 0 .. MaxLines : \E lines \in [1 .. n -> SomeLines], memory \in {0, 1} :
    input' = [kind |-> "offer", text |-> SD!FlattenSeq(lines), memory |-> memory]

\* An attribute of an offer is kept with the stream it was written under, and the
\* answer has as many streams as the offer has media lines, as far as eight bits
\* count, each with its own port (Sdp::Sdp, allocate, Sdp::toString).
SdpStreamsSurvive ==
  input.kind = "offer" /\ SD!Defined(input.text) =>
    /\ SD!AttributesAreWithTheirStream(input.text, input.memory)
    /\ SD!AnswerHasEachStream(input.text, input.memory, [k \in 1 .. StreamModulus |-> k + 1], 2)

-----------------------------------------------------------------------------
(* Requests *)

Mandatory == <<"VIA", "FROM", "TO", "CALL-ID", "CSEQ">>

Host(n) == N(10) \o W(".") \o N(0) \o W(".") \o N(0) \o W(".") \o N(n)
Param(name, value) == W(";") \o W(name) \o W("=") \o value
TopVia == W("SIP/2.0/") \o W("UDP") \o W("space") \o Host(1) \o W(":") \o N(7)
          \o Param("branch", W("b1")) \o W(";") \o W("rport")
SecondVia == W("SIP/2.0/") \o W("TCP") \o W("space") \o Host(2)
             \o Param("received", Host(3)) \o Param("rport", N(9))
SpacedVia == W("SIP/2.0/") \o W("UDP") \o W("space") \o Host(1) \o W("space") \o Param("branch", W("b1"))

\* What a Via means: where the response goes, and what controllers are told of.
Meaning(value, memory) ==
  CASE value = TopVia -> [via |-> [transport |-> "UDP", address |-> Host(1), branch |-> W("b1"),
                                   port |-> 7], remote |-> Host(1)]
    [] value = SecondVia -> [via |-> [transport |-> "TCP", address |-> Host(2), branch |-> <<>>,
                                      port |-> 9], remote |-> Host(3)]
    [] value = SpacedVia -> [via |-> [transport |-> memory.transport, address |-> <<>>,
                                      branch |-> <<>>, port |-> memory.port],
                             remote |-> Host(1) \o W("space")]

TextLine(name, value) == W(name) \o W(":") \o W("space") \o value \o W("cr") \o W("lf")
Long == [i \in 1 .. MaxLine |-> W("x")[1]]

\* A line: its text, what is read of it and whether nothing is read behind it.
Entry(text, reads, stops) == [text |-> text, reads |-> reads, stops |-> stops]
PlainEntry(name, value) == Entry(TextLine(name, value), <<[name |-> name, value |-> value]>>, FALSE)
MandatoryEntry(name) == PlainEntry(name, IF name = "VIA" THEN TopVia ELSE W("own"))

OddEntries ==
  {Entry(W("SUPPORTED") \o W(":") \o W("cr") \o W("lf"), <<>>, TRUE),
   Entry(TextLine("SUBJECT", Long), <<>>, TRUE),
   Entry(TextLine("SUBJECT", Long \o W("x") \o W("TO") \o W(":") \o W("other")),
         <<[name |-> "TO", value |-> W("other")]>>, FALSE),
   Entry(TextLine("v", SecondVia), <<>>, FALSE),
   Entry(W("-") \o W("-") \o W("TO") \o W("lf"), <<>>, FALSE),
   Entry(W("FROM") \o W(":") \o W("x") \o W("cr") \o W("lf") \o W("space") \o W("y") \o W("lf"),
         <<[name |-> "FROM", value |-> W("x") \o W("space") \o W("y")]>>, FALSE),
   PlainEntry("VIA", SecondVia), PlainEntry("VIA", SpacedVia), PlainEntry("TO", W("other"))}

PickRequest ==
  \E method \in {"INVITE", "BYE"}, present \in SUBSET SH!Range(Mandatory), odd \in OddEntries,
     place \in 0 .. Len(Mandatory), addressFirst \in BOOLEAN, transport \in {"UDP", "TCP"} :
    LET Chosen(names) ==
          [i \in DOMAIN SelectSeq(names, LAMBDA n : n \in present) |->
             MandatoryEntry(SelectSeq(names, LAMBDA n : n \in present)[i])]
    IN input' = [kind |-> "request", method |-> method, addressFirst |-> addressFirst,
                 memory |-> [transport |-> transport, port |-> 3],
                 entries |-> Chosen(SubSeq(Mandatory, 1, place)) \o <<odd>>
                             \o Chosen(SubSeq(Mandatory, place + 1, Len(Mandatory)))]

\* What is read of a request: its lines up to the first without a value, or with one
\* that just fills the room there is.
ReadOf(entries) ==
  LET stops == {i \in DOMAIN entries : entries[i].stops}
      read == SubSeq(entries, 1, IF stops = {} THEN Len(entries)
                                 ELSE CHOOSE i \in stops : \A j \in stops : i <= j)
  IN SH!FlattenSeq([i \in DOMAIN read |-> read[i].reads])

LastRead(lines, name) ==
  LET named == SelectSeq(lines, LAMBDA line : line.name = name)
  IN IF named = <<>> THEN <<>> ELSE named[Len(named)].value

\* What is done with a request of which these lines are read.
IsEcho(outcome, lines) ==
  LET via == LastRead(lines, "VIA")
      meaning == Meaning(via, input.memory)
  IN /\ outcome.ends <=>
          \/ logEnds
          \/ /\ input.method = "INVITE"
             /\ \E i \in DOMAIN Mandatory : LastRead(lines, Mandatory[i]) = <<>>
          \/ input.method # "INVITE" /\ input.addressFirst /\ via = <<>>
     /\ ~outcome.ends =>
          /\ outcome.response.from = LastRead(lines, "FROM")
          /\ outcome.response.to = LastRead(lines, "TO")
          /\ outcome.response.callId = LastRead(lines, "CALL-ID")
          /\ outcome.response.cseq = LastRead(lines, "CSEQ")
          /\ outcome.response.via = IF via = <<>> THEN <<>> ELSE SH!ResponseVia(meaning.via)
     /\ ~outcome.ends /\ input.method = "INVITE" =>
          /\ outcome.notified[W("VIA")] = [field |-> W("Via"), value |-> via]
          /\ SH!RemoteDetails(via)[W("remoteIpAddress")] = meaning.remote

\* Where a call through a null logger returns, an INVITE is handled if each of the
\* five headers a response repeats is read, under its long name and before a line
\* without a value; else the process ends, and in other builds it ends anyway.
\* What is answered repeats the last header of each name, goes to the last Via's
\* address, and controllers are told of that address or the one it was received
\* from (readHeaderLine, SipMessage, SipViaHeader, CallIncomingNotification).
RequestsAreEchoed ==
  input.kind = "request" =>
    LET text == W(input.method) \o W("space") \o W("uri") \o W("lf")
                \o SH!FlattenSeq([i \in DOMAIN input.entries |-> input.entries[i].text])
        request == SH!Build(SH!Normalised(text))
    IN IsEcho(SH!Handle(request, input.memory, input.addressFirst), ReadOf(input.entries))

-----------------------------------------------------------------------------
Init == input = [kind |-> "none"] /\ logEnds \in BOOLEAN

\* Channels and offers are converted without a null logger.
Next ==
  \/ PickMediaMessage
  \/ ~logEnds /\ PickChannel
  \/ ~logEnds /\ PickOffer
  \/ PickRequest

Spec == Init /\ [][input.kind = "none" /\ Next /\ UNCHANGED logEnds]_<<input, logEnds>>
=============================================================================
