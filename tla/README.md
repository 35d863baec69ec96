# SIP recorder: specifications, checks and proofs

TLA+ specifications of the call recorder in `src/`: modules translated from the
C++ code, TLC configurations that check them on small instances, and proofs
checked by TLAPS. Paths below are relative to `src/src/` unless they start with
`src/`. `PROJECT.json` maps every definition to the lines it stands for and lists
hazards, runs, mutants and theorems.

## 1. The system

Two processes, each one libuv loop:

    SIP peers --UDP/TCP 5060--> core process <--TCP 10010, JSON-- controllers
                                     |
                                     | TCP 10020, JSON
                                     v
    SIP peers ----------RTP---> media process

A call is recorded in this way. A peer's INVITE makes a dialogue and the
controller is told `CALL_INCOMING`. The controller asks for `CALL_ANSWER`; core
posts `ALLOCATE` with the peer's offer to the media process, which picks ports
and a session id and returns an answer; core sends it in a 200 OK. The peer's ACK
is reported as `CALL_CONNECTED`, its BYE as `CALL_CLEARED`. Recording is started
and stopped by the controller through the media process.

Every read callback runs to its end on its loop before another starts, so the
atomic step of all models is one callback with every upcall and every write it
makes. What interleaves is callbacks: of different connections, of the two
processes, and of messages the network repeats, reorders, cuts or loses.

### Components

| component | code | state | operations | modelled in |
|---|---|---|---|---|
| SIP call control | `components/sip/SipInterface.cpp`, `SipDialogueManager.cpp`, `SipDialogue.cpp`, `SipTransaction.h` | the two maps of dialogues, the last channel id, each dialogue's state and transaction | one handler per request method; `getMediaOffer`, `answerCall`, `startRecordingCall` | `SipDialogues` |
| SIP parser and framing | `components/sip/SipParser.cpp`, `onUdpRecv`, `onTcpConnection`, `onTcpRecv`, `SipConnection.hpp` | whether a body is awaited, its type, how much came, all bodies seen; per connection a ring, a parser, the bytes pending | `loadMessageData` for each chunk of a datagram or stream | `SipParser`, `SipUdp`, `SipTcp` |
| Message buffer | `components/utilities/MessageBuffer.cpp` | memory and two positions of a ring | push, three pulls, flush (getchar and putchar: tests only) | `MessageBuffer`, `ByteQueue` |
| Core application | `applications/core.cpp` | `theresourceId`, `controlStream` | `sipEventHandler`, `controlRequestHandler`, `mediaResponseHandler` | `Core` |
| Control interface | `components/control/` | connections of controllers | read, notify, close; JSON of requests and notifications | `Core`, `ControlMessages` |
| Media link | `components/media/MediaClientInterface.cpp`, `MediaServerInterface.cpp`, `media/messages/` | the handle, its timer, the connection's stream | connect, retry, register, post, read, lose the link; JSON of messages | `MediaLink`, `MediaMessages`; once connected, `Core` |
| Media session allocation | `applications/media.cpp`, `components/media/session/` | port pool and index, next session id, session look-ups | `allocate`, acknowledgements | `MediaServer` |
| SDP | `components/sdp/` | none | parsing of an offer, writing of an answer | `Sdp` |
| SIP headers, response texts | `components/sip/messages/`, `components/sip/headers/` | none | reading of header lines, Via, what a response repeats, what controllers are told | `SipHeaders` |
| byte buffers | `components/utilities/buffers.cpp` | none | split, trim, compare, numbers | `Buffers` |
| JSON library (vendored) | `src/lib/json/` | none | writer, reader, accessors, as far as used | `Json` |
| base64, XML, file utilities; UDP test sender | `components/utilities/`, `src/tools/` | none | none that a process calls | not modelled |
| RTP reception, socket server, resource manager | | none that anything reads | | not modelled |

### How they interact

`SipInterface` raises events by a direct call of `sipEventHandler`, which posts a
notification to `controlStream`. `controlRequestHandler` calls `SipInterface` and
`MediaClientInterface::PostRequest` directly. `mediaResponseHandler` calls
`answerCall`. The three handlers share the globals of `core.cpp`. Requests and
responses of the media link carry the channel id as callback id; nothing else
ties a response to its call.

### What is hard here, and what has to hold

* *SIP call control.* UDP repeats, loses and reorders requests, and the media
  process answers at any time. Events must reach the application in order
  (announced, answered, cleared); a channel id must lead back to its call, although
  ids wrap and are never released; answers must name the right INVITE.
* *All of it.* `SipMessage`, `MediaMessage` and the dialogue manager log through
  pointers that are null (section 2, "Null loggers"): the first message may end a
  process.
* *Parser.* One parser serves all UDP peers, and nothing resets it: a truncated
  datagram, and every body it has seen, leaks into later messages. What a message
  is given as its body is read up to a NUL, which need not be where the bytes that
  were pulled end. On TCP
  a stream is cut anywhere, and what lies in the ring from earlier messages is
  searched for the end of the next. Whole requests must come through once, in
  order, with their own body.
* *Message buffer.* Bytes must come out as they went in, however the ring goes
  round; a delimited pull must stop at a message's end.
* *Core.* Requests for several calls overlap; one variable holds the last
  resource, one the last controller; a JSON read takes several messages for one.
  An answer must carry the session made for that call and offer; outcomes must
  match requests; a call that a controller was told of must be answered.
* *Media link.* Either process may end and start again; the core connects, retries
  and registers on a timer; a read that does not hold exactly one message loses
  some, or ends the process. A response must be taken for its own request only,
  the link must come up, and what is orderly must be answered.
* *Media session allocation.* Ports go round and are never taken back; most of
  the pool is not listened on; session ids wrap; a call that is allocated again
  should get its session back.
* *Codecs.* Ids change between signed and unsigned on their way through JSON; the
  constructors of messages take several arguments of one type; streams of an
  offer are counted in eight bits; a header that is looked up and missing is null.

`PROJECT.json` lists these as hazards at the lines where they bite.

## 2. Modules

**Null loggers.** Three loggers are null pointers whenever they are used: that of
a `SipMessage` (only the default constructor sets it, `SipMessage.cpp:33`, and every
request is made by the other one, which logs, `:40`), that of a `MediaMessage`
(`MediaMessage.h:36`), and that of the dialogue manager, a static object that asks for
the logger (`SipDialogueManager.cpp:12`) before `main` registers it (`core.cpp:393`). A
call through them is undefined: in one build it ends the process (a crash), in
another, where the arguments are formatted into nothing, it returns. The variable
`logEnds` is that choice. It is made in `Init`, once for a build, and no step changes
it. `SipDialogues`, `SipParser` (hence `SipUdp`, `SipTcp`), `SipHeaders`, `MediaMessages`
and `MediaLink` have it, so their runs and theorems are about both builds. Where it is
true little ever happens, and properties that hold a whole system to something are
trivially kept there; they earn their run in the other build. `Core` and
`MediaServer` are of that other build only (`Core` instantiates `SipDialogues` with
`logEnds <- FALSE`): where it is true neither gets as far as its first message, as the
modules above show. All other loggers are set before they are used.

**`SipDialogues`** has one action per request handler. `callIdToDialogueMap` and
`channelToDialogueMap` are the manager's maps (the second holds the Call-ID of the
dialogue it points to), `lastChannelId` its counter, taken modulo `ChannelModulus`
for the 2^32 of the code. `CallStep` is whatever the manager is asked by peers and
by the application, `EndAtLogger` what becomes of it where that ends the process;
`running` is whether it has. `events` and `responses` are per-call histories of
upcalls and of responses sent. Requests come in any order and number, so
retransmission, re-INVITE, re-use of a Call-ID and an ACK before an answer are
all among the behaviours. A response of the application may name any channel at
any time. The channel id in the recording event of a BYE is any channel: the code
reads a member that nothing initialised.

**`MediaServer`** is `mediaRequestHandler` over `MediaSessionManager`. An offer
counts for its number of streams. The mutex is never contended, as one loop calls
everything. `callIdToSessionIdLookup` is looked at and never written, as in the code.

**`Core`** composes the two (through `INSTANCE`) with the three handlers of
`core.cpp` and the two directions of the media link, `toMedia` and `fromMedia`. A
read of the link takes any number of messages that are there, handles the first
and loses the rest, which is what parsing the whole read buffer as one JSON text
does. An offer counts for its number of streams, an SDP answer for the session id
it carries. `CanArrive` restricts SIP peers to what a conforming peer and its
network can do (an ACK only for an answer that was sent, for instance), since
`SipDialogues` alone already covers arbitrary requests. The media link starts
connected and registered, and null loggers do no harm.

**`MessageBuffer`** keeps memory, both positions and their arithmetic, with a
memory of any initial content. **`ByteQueue`** is the abstract specification: a
bounded queue of bytes where a pull takes any number of the oldest. `Stored` is
the refinement mapping. A caller never asks for more bytes than its own buffer
holds (`Pulls`), which the code does not check.

**`SipParser`** is what one call of `loadMessageData` makes of a parser. A message
is a sequence of units (header, blank line, boundary with the header of a part,
text) and lengths count units. (One detail of `readHeaderLine` is left out: it passes
over lines that start with `-`, so a header behind what is left of a closing boundary
would still make a message. Only a stream that lost bytes to a full ring puts the two
into one chunk.) Units are stamped with the datagram or message
they came in; the code's decisions never look at a stamp. The header's
Content-Type decides what is awaited: `SipContentTypeHeader` takes
`multipart/mixed;boundary=...` for `BOUNDARY` because of its parameter, never for
`MULTIPLE`, so only the first part of a body is kept. Two things end the process
(`Survives`): making a message, where null loggers do (`Constructs`), and a chunk
without lines (a lone blank line, which keeps a path open) where a part is awaited,
as that is looked for in the first line. `addBody` gives the
message a `string` made of a `char *`, so the text up to the first NUL (`TextOf`). A
pull clears the read loop's array before it copies, so that is the chunk that was
pulled, with two exceptions: a chunk that fills the array runs on into the memory
behind it, and a round in which nothing was pulled (a datagram the ring has no room
for) hands on what the array on the stack held. The constant `Leftovers` is what
may lie there.

**`SipUdp`** is `onUdpRecv` over the one parser of the socket. `UdpReceive` runs the
loop (`ReadLoop`) on a datagram: a `Round` pulls a chunk (`PulledCount`) and hands it
to the parser, at least once and until nothing is left. `DatagramsAssumption` says
what peers send: one message or a piece of one, so a header's first line is only ever
the first unit of a datagram.

**`SipTcp`** is `onTcpConnection` and `onTcpRecv`. Each connection has a parser and
a ring of its own, whose arithmetic is that of `MessageBuffer` through a
parametrised `INSTANCE`; the memory of a new ring is anything. A read takes any
number of the bytes the peer has written; the loop pulls up to a blank line while
a header is awaited, and by count while a body is. `cuts`, a history, records where
reads ended within messages; the properties are about messages by where they were
cut. The four bytes of a blank line are one unit, so a read that ends between them is
not among the cuts: the loop's first pull then finds no delimiter either and takes
what there is, as for any other cut within a header. Only bodies that fit
`onTcpRecv`'s own array of 1024 bytes are sent
(`MessagesAssumption`): a longer one makes the code write past its array, which is
undefined.

**`MediaLink`** is the connection between the processes over the lives of both. The
timer connects every two seconds until an attempt succeeds; every attempt takes a
new descriptor and none is closed; `on_connect` registers. A message is two halves,
and a read takes any number of halves that are there: one message, a part of one,
or several. A request posted before there is a stream ends the core; after the
link is lost it goes to a stream that is closed. A request that is made (`Request`), and
a message that is built from what was read (`MustEnd`), logs: where `logEnds`, on_connect
ends the core with its REGISTER. The operator starts a process
again at any time (`CoreStarts`, `MediaStarts`, external).

**`Json`**, **`MediaMessages`** and **`ControlMessages`** are the JSON reader, writer
and accessors as far as the two processes use them, and the messages built with
them: `toJson`, `build_message`, `build_request` and the constructor of each class,
with its members and defaults. A document is a sequence of units, and every
integer has the range of its type (constants, so that small ones show the edges).
An accessor that throws yields `Throws`; nobody catches it.

**`Buffers`**, **`Sdp`** and **`SipHeaders`** are the text side of a call: the functions
on byte ranges, an offer parsed line by line into streams and attributes and the
answer written for it, and a request's header lines up to what the responses
repeat and what the controller is told of the peer.

`MC*` modules add bounds, symmetry and the enumerated inputs; every bound is a
constant or a named definition.

## 3. Runs

| run | question | bounds, and why they suffice |
|---|---|---|
| `sip_dialogues` | order of events, routing, answers, permanence | three calls on two channel ids, so ids wrap and collide; two CSeqs and offers, so a re-INVITE differs; nine logged messages, enough to announce, answer and clear a call twice while another goes on |
| `sip_retransmission` | violation: "Sequence numbers match, ignoring" | an INVITE repeated once is announced twice |
| `media_server` | ports, listening, session ids of different calls | four ports of which two are bound, ten streams, up to three per offer: the pool goes round twice, also within an offer; ids wrap at 4 |
| `core_media` | whose session ends up in whose answer and recording | two calls with different offers, three controller requests, six logged SIP messages |
| `core_control` | who is told of what | two controllers, three requests, one hang-up |
| `core_live` | a notified call is answered | two calls, each with two events; one controller that may close |
| `message_buffer` | the ring is a queue, and a delimited pull ends at a delimiter or takes all | a capacity of four with pushes of up to two bytes reaches every pair of positions, including one past the end; every initial memory over an alphabet of the two delimiter bytes and another |
| `sip_udp` | which requests are delivered, how often, in what order, with which SDP; what ends the process | any three of six messages, each whole or cut after any unit, a blank line, text that fills the buffer and a message longer than it; memory that starts with a NUL or holds text up to one: one datagram to spoil the parser, one to be taken for its rest, one after it |
| `sip_udp_offers` | violation: "if the same type already exists the original is replaced", and "We can use a single parser object here" | two whole INVITEs, each with its SDP |
| `sip_tcp` | which requests are delivered from a stream that is cut anywhere, with which SDP; what a long header does | three of six messages (one of them names an SDP and has no body) on one connection with three cuts; a ring of six units, so messages go round it and segments are rejected; a read buffer of four, so a header can be too long; memory without and full of blank lines. Connections share nothing but the process, so one is enough |
| `media_link` | whose responses are handled, what ends a process, how often it connects; that the link comes up and requests are answered | two lives of the core, one end of the media process beside those a read causes, three requests: a response of an earlier life can meet a later one; three descriptors, so that an attempt can fail and the next one of the same life succeed while one is left |
| `codecs` | what is written is what is read | each step picks one input: every message class with texts of up to two units (quotes, escapes, brackets among them) and every id of small types; offers of up to four lines of eleven kinds, with streams counted modulo 3; requests with any subset of the five mandatory headers, one odd line at any place and a Via of three kinds. The codecs keep no state, so one input is a whole behaviour |

Runs of bounded systems stop at their bounds, so `CHECK_DEADLOCK FALSE` is set
where an `MC` module bounds the inputs (in `codecs` a behaviour is one step). The
systems themselves only wait for input; they have no state in which they block.

### Disagreements found

* `sip_retransmission`: `updateTransaction` logs that it ignores an INVITE with
  the CSeq it knows and does not; the call is announced again, also after it was
  cleared.
* `sip_udp_offers`: bodies are kept for good by the one UDP parser, so an INVITE is
  delivered with the first SDP any peer ever sent. One parser for all
  (`SipInterface.cpp:39`) is therefore not enough, and a body of the same type is not
  replaced by `addBody`, as `SipMessage.h:120` says; `addBody` and the parser's map both
  keep the one that is there. `FirstSdpIsOwn` says how far this first one is right.

Two more need no run of their own, as properties that hold, or are proved, show them:

* A whole request can end the process ("Null loggers" above), although the parser is
  shared because messages are received "in their totality" (`SipInterface.cpp:39`), and
  `tests/TestSipParsing.cpp:36` hands one parser a second message after the first.
  `EndsAtFirstRequest` says that in a build where it does this is the one thing that
  ends the process, and `CoreEndsAsBuilt` what it makes of the media link.
* `allocate` means to find the session of a call that is allocated again ("Check if we
  already have this call Id in progress - Re-Invite", `MediaSessionManager.cpp:172`, with
  the return at `:194`), and the collection it looks in is never filled, which is part of the
  proved `CountersInv`: a re-INVITE takes a new session and new ports. `SessionIdsDistinct`
  therefore is about the sessions of different calls.

The properties that hold also say where the code does less, or other, than one
might expect:

* `FirstSdpIsOwn`, `SdpIsFirstPortion`: the SDP of a message is the chunk that was
  pulled, but on TCP a portion that fills the read buffer carries what the memory
  behind the buffer held, up to a NUL. `Sdp` shows what becomes of lines that are no
  SDP: a line is known by its first letter in any case, so
  `Max-Forwards` is one more media stream, and `Call-ID`, `CSeq` or `Contact` a
  connection line; one of fewer than three items makes the media process index an
  empty vector (`SdpConnectionLine.hpp:24`), which `Defined` leaves out.
* `SdpIsFirstPortion`: of a body that TCP delivers in portions only the first is kept.
* `LongHeaderIsTheLast`: after a header of as many bytes as the read buffer has, a
  connection delivers nothing any more.
* `DelimitedOrDrained`: the search for a delimiter does not stop at the end of the
  stored bytes, so a delimited pull may return all there is, half a message.
* `CoreEndsAsBuilt`, `OneLinkPerLife`: a core that posts before it is connected ends;
  one that has lost its link posts to nobody until it is started again.
* `PartsNeverBuild`, `RequestsAreEchoed`: the rest of a message that a read starts
  with may end the process, as does an INVITE without one of the five headers that
  a response repeats, or with it behind a line without a value.
* `MediaMessagesSurvive`: a RELEASE arrives with its callback id and its dialogue id
  exchanged.

What is lost is lost in the properties too. `OutcomesMatchRequests` and
`EventsReachOneController` bound outcomes and events from above only: a read that holds
several messages, or a controller that hung up, makes some of them disappear, and
nothing in the code repeats them. Of what is left `AnswersAreOwn` and
`AnswersCarryOwnSession` say that it goes where it belongs. `RecordingsNameOwnSession` is
about one call at a time; with two, a recording may name the session of the other,
since `theresourceId` is one variable for all calls.

### Fairness

`core_live` assumes weak fairness of the two reads of the media link and of a
controller that asks once for each call it is told of (`ControllerAnswers`). The
first two are what libuv and TCP give: a readable socket is read. The third is
the controller's part, stated because no call is answered without it. Peers owe
nothing. The property is conditional on the two queues never holding two messages
at once, since one read would then lose one and nothing in the code repeats it;
and it excuses a controller that hung up. It is about a build whose null loggers do no
harm, as all of `Core` is. The bounds of `MCCoreLive` restrict only
what peers send and repeated or pointless controller requests, and disable none
of the fair steps.

`media_link` assumes weak fairness of the timer while it runs, of the callback of an
attempt that was decided, and, for each link, of accepting it and of either side
reading what is there or its end: again what libuv gives a handle that is ready.
Operators owe nothing. `LinkComesUp` is conditional on both processes being up for
good from some time on (where null loggers end a process, none is) and on a descriptor
being left (every failed attempt takes one for good), and
`OrderlyRequestsAnswered` excuses a request once any read did not take exactly one
message or the link was lost. The bounds of `MCMediaLink` restrict posting, starting
and stopping; a read that would end the media process once too often is left its
other outcome, so no fair step is disabled. There are no more links than lives of
the core and ends of the media process, so every link is served.

## 4. Proofs

`SipDialoguesProofs` proves six properties of `SipDialogues` for every set of calls,
offers, answers and CSeqs and every channel modulus of at least 2. They assume
`ChannelModulusAssumption` and `NoDialogueAssumption` (the null pointer is neither a
Call-ID nor a dialogue). `CallIds` may be infinite: the set of dialogues is finite in
every reachable state, which is part of `RouteInv`.

All six are about what a step does to the calls, so they are proved over `CallStep`, and
`StepOfCalls` says that a step that ends the process leaves the calls alone.

* `TypeCorrect` (`TypeOK`). Not inductive alone: `answerCall` follows a channel to
  a dialogue, so `TypeInv` adds `ChannelsHaveDialogues`.
* `PermanentDialogues` (`DialoguesArePermanent`), from `StepWritesOneDialogue`: a
  step writes one dialogue at most and keeps its channel and transaction.
* `EventOrder` (`EventsFollowProtocol`). The order of a log says nothing of the
  next event; the inductive `ProtocolInv` ties each dialogue's state to the last
  event of its log that is not a recording (INCOMING after NEWCALL, CONNECTED
  after CALLANSWERED), and an unmapped Call-ID to an empty log. `ProtocolExtends`
  is the lemma on sequences.
* `AnswersToFirstInvite` (`AnswersNameFirstInvite`), with `CallAnswers`: a call that
  has a dialogue has a first response, a TRYING with the CSeq of its transaction.
* `ChannelRouting` (`ChannelsRouteToCalls`). `RouteInv` adds that the set of
  dialogues is finite and `ChannelsAreFresh`: as long as there are no more dialogues than ids, the ids given out
  are exactly those up to the counter, so the next is unmapped.
* `UpcallsAndResponses` (`UpcallsMatchResponses`), inductive with the types (`MatchInv`):
  `EventAppended` and `ResponseAppended` say how a count of a log's entries grows.

`MediaServerProofs` proves four properties of `MediaServer` from `PortAssumption`
(the range holds at least one port and the bound range starts no later),
`IdAssumption` and `StreamAssumption`, so for the 1499 ports and 2^32 ids of the code
as for any others. None of the four is inductive: that ports repeat with the
period of the pool says nothing of where the index stands. `CountersInv` does: both
counters are functions of the lengths of the logs, modulo the pool and modulo
`IdModulus`; every entry of a log is what the counter stood at; and the look-up of a
call's session finds nothing. `ModPlus` and `ModEqual`, on remainders, are the
arithmetic: the solver does none about a variable divisor, so they are proved from
the uniqueness of quotient and remainder. From the invariant follow `MediaTypeCorrect`
(`TypeOK`), `PortReuse` (`PortsRepeatOnlyAfterPool`), `PortsBound`
(`FirstPortsAreBound`) and `DistinctSessions` (`SessionIdsDistinct`: the ids of any two
allocations fewer than `IdModulus` apart differ, so those of two calls do).

`MediaLinkProofs` proves the three safety properties of `MediaLink` for both builds and
any number of lives, links, requests and sockets and for reads of any length; its assumption is
`NoLinkAssumption` (the null connection is no link). None is inductive: what the core
has handled says nothing of what it can still read. `LinkInv` orders all halves by
their places (`Place`), and says in `LinksFit` that each link carries, in that order,
halves of requests asked on it only, those of responses before those of requests; in
`AnsweredFirst` that the core has handled nothing as late as what is still on its link;
and in `ConnectsOnce` that the timer runs exactly until the life has its link, and that
no request was ever on a link about to be connected. A read that starts with a whole
message takes both its halves, so all that remains is of later requests (`AfterWhole`).
Where null loggers end the process, `Unheard` is inductive: nothing is asked, nothing is
on any link, and a core that runs has no connection. From these follow
`CoreHandlesOwnAnswers` (`AnswersAreOwn`), `CoreEnds` (`CoreEndsAsBuilt`) and
`LivesConnectOnce` (`OneLinkPerLife`).

`MessageBufferProofs` proves `MessageBuffer` for every capacity, delimiter and size of
the caller's buffer. `TypeOK` is not inductive: it allows the start at the first slot
and the end behind the last, where more is stored than the capacity. `BufferInv` adds
that no more than `Capacity` bytes are stored. `StoredFits` says what the refinement
mapping `Stored` is, element by element; `PushKeeps` and `PullKeeps` say what a push in
one or two parts, or a pull, makes of it. From these follow `BufferTypeCorrect`
(`TypeOK`), `BufferIsQueue` (`ImplementsQueue`: every step is a step of `ByteQueue` or a
stutter) and `DelimitedPulls` (`DelimitedOrDrained`), the last with `SearchMatches`: what
the search has matched so far are the last bytes it passed.

`CoreProofs` proves the safety properties of `Core`, for all calls, connections and
requests, over a SIP interface and a media process for which what is proved of the
components holds: each step of the whole is a step of each component or leaves it
alone (`StepOfSip`, `StepOfMedia`), so `BaseInv` is the components' invariants with the
types of the rest, and gives `CoreTypeCorrect` (`TypeOK`). The assumptions are those of
the components, and that offers have a stream, the null stream is no connection and
controllers send requests of the kinds that `Core` models (`ControlMethodsAssumption`).

* `OwnSessions` (`AnswersCarryOwnSession`), `ConnectedByRequest`
  (`ConnectedOnlyOnRequest`) and `RecordingsOwnSession` (`RecordingsNameOwnSession`). An
  answer says nothing of what is still on its way, so `FlowInv` follows an offer through
  the recorder: a request on the queue to the media process names a channel to whose
  call its offer belongs, an allocation is for such a request, a response on the queue
  back, and every answer that was sent, carries a session allocated for its channel.
* `OneOutcomeEach` (`OutcomesMatchRequests`). In `AnswersBounded` and `ReportsBounded` the
  outcomes of a channel and the messages that may still become one (`InFlight`) are
  together no more than the requests for it; a read that loses messages only makes
  room.
* `OneControllerHears` (`EventsReachOneController`), from `EventsBounded`: all connections
  together were told no more of a channel than was raised on its call.

`SipUdpProofs` proves all five properties of `SipUdp`, for both builds, datagrams of any
length and number, whole or cut short, any size of the read buffer and anything in
memory. The assumptions are `DatagramsAssumption`, `BufferSizeAssumption`,
`NullAssumption` (no message and no text is null) and `LeftoversAssumption` (what lies in
memory did not arrive). `UdpInv` has, beside the types, two parts. What was handed on is
in order and older than what is awaited (`Ordered`), whatever arrives. While datagrams
are whole, the process has ended exactly if there was a request to be built and null
loggers end it (`Ended`), the first SDP is its request's own (`FirstIsOwn`), and, if the
process runs, the parser is `Idle` when a datagram begins: nothing is awaited, the
requests handed on are those that can be built, and an SDP that the parser keeps was
handed on. A step is a whole loop, so each part has an invariant of the rounds too.
`SteadyStates` is the first. In `WholeStates` the parser is idle or `Awaiting`: the body it
awaits is that of this very datagram, what is left of the datagram is enough for it,
and what comes next is what is expected of it. `ReadLoopEnds` is the induction over the
rounds: the loop stays in any set of states that its rounds do not leave, and ends with
nothing left, so that `Awaiting` is impossible there. From `UdpInv` follow `UdpTypes`,
`UdpDeliversWholeRequests`, `UdpEndsAtFirstRequest`, `UdpDeliversOnceInOrder` and
`UdpFirstSdpIsOwn`.

`SipTcpProofs` proves the four properties of `SipTcp` and its `TypeOK`, for both builds, any
number of connections and messages, every size of the ring, of the read buffer and of
a read, however the streams are cut and whatever memory held. The assumptions are
`MessagesAssumption` (the first line of a header stands nowhere else; a body fits
`onTcpRecv`'s buffer, or the code is undefined), `SizesAssumption` (an empty ring has
room for one read: 16192 and 8192), `MemoriesAssumption`, `NullAssumption` and
`LeftoversAssumption`. The parser is that of `SipUdp`, so the lemmas of
`SipUdpProofs` on it hold through an `INSTANCE` (`Udp`). None of the properties
speaks of what is still on its way, and there are two invariants.

* `SoundInv` holds whatever arrives. A ring never holds more than its capacity, and what
  is in ring and stream follows in order (`Flowing`): behind what was delivered, and not
  before what is awaited. Bytes that a full ring rejects leave a gap but no disorder, and
  blank lines found behind the end of the stored bytes only make a pull longer. From it
  follow `TcpTypes` (`TypeOK`), `TcpDeliversOnceInOrder` (`DeliveredOnceInOrder`) and, with
  `TooLongStep` (a ring whose next header is `Long` stays so: no pull succeeds and a read
  only appends), `LongHeaderStaysTheLast` (`LongHeaderIsTheLast`).
* `RestInv` adds where the stream stands in what was sent (`Standing`: every byte has a
  place in a message, the next byte that of the last cut or a message's first) and,
  between two reads of an orderly connection, `AtRest`: the ring is empty, exactly the
  requests behind which the stream stands were delivered (`Progress`), and the SDP that is
  kept is the first portion (`SdpProgress`). The loop of a read keeps both from round to
  round: `SteadyPull` says that a pull takes a header or what is there of the body,
  `SteadyRound` what the parser makes of it, `SteadyLoop` that the loop ends with an empty
  ring. A later cut changes no first portion (`SdpLater`). From it follow
  `TcpRequestsSurviveCuts` (`RequestsSurviveCuts`) and `TcpSdpIsFirstPortion`
  (`SdpIsFirstPortion`).

The proof of the last failed at first, on a request that names SDP as its content and
has length 0: `loadHeader` hands it on at once, without an SDP, although the statement
then demanded an empty one. `SdpIsFirstPortion` now says it of requests that announce a
body, and the run has such a message.

`DataLemmas` has what several of them need of sequences, sets and numbers. Induction is
by `SetInduction` there, over a set of numbers instead of a predicate, proved from the
existence of least elements; `RecursionExists` gives what a recursive function over an
interval computes, for a step that is itself a function, and so lets the loops be proved
about.

Only model-checked: liveness (`NotifiedCallsAreAnswered`, `LinkComesUp`,
`OrderlyRequestsAnswered`), which is out of TLAPS's reach, and the codecs, whose
operators are recursive, so no theorem can be stated beside them.

## 5. Not modelled

* The composition of `MediaLink` with `Core`: `Core` starts with the link up and its
  reads hold whole messages. `MediaLink` shows what else the link does, `PartsNeverBuild`
  why a part of a message is as good as lost. Nor are `Core` and `MediaServer` checked for
  a build whose null loggers end the process: nothing happens in it.
* A control request that cannot be parsed ends the process (`on_read` uses the null
  request): `ControlMessages.OnRead` says which, `Core` has parsed requests only.
* What is undefined: a body longer than `onTcpRecv`'s array, a connection line of too
  few items, as said above.
* `getchar` and `putchar` of `MessageBuffer`, which only tests call; the second goes one
  past the memory at slot 0 (`MessageBuffer.cpp:62`).
* Values of the response headers that are fixed texts, formats within a media line,
  which `SdpMedia` drops anyway, and logging, but for what null loggers do.
* The parts of the JSON library that neither process calls (`StyledWriter`,
  `OurReader`, `Path`, iterators, doubles), XML, base64 and file utilities, the UDP test
  sender.
* Empty or unreachable operations: `processOptions`, `processCancel` and
  `processResponse` (the builder makes neither CANCEL nor responses),
  `stopRecordingCall`, `rejectCall`, `clearCall`, `release`; the case of a stopped
  recording in `sipEventHandler`, as core never starts one on the SIP side.
* RTP reception logs and drops packets. `ResourceManager` and `SocketServer` are
  used by nothing.

## 6. Plan

* The recursive operators of `Buffers` and `Json` as recursive functions, so that lemmas
  about what they keep and bound can be stated; what they compute for every input stays
  out of the prover's reach.
