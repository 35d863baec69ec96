-------------------------------- MODULE Core --------------------------------
(***************************************************************************)
(* The recorder as a whole: the core process (core.cpp), which joins the   *)
(* SIP interface, the control interface and the media client, with the     *)
(* media process at the other end of a TCP connection, the controllers     *)
(* that drive it and the SIP peers that call it.                           *)
(*                                                                         *)
(* Each process runs one libuv loop, so a read callback, with every upcall *)
(* and every message it posts, is one action.  A read callback parses one  *)
(* JSON message from whatever bytes have arrived: when several messages    *)
(* arrived together the first is handled and the rest are lost.  The       *)
(* module starts with the media client connected and registered.           *)
(***************************************************************************)
EXTENDS Naturals, Sequences, FiniteSets

CONSTANTS
  CallIds, StreamCounts, CSeqs, ChannelModulus, NoDialogue,   \* SIP
  PortMin, PortMax, FirstBoundPort, BoundPorts,               \* media process
  FirstSessionId, IdModulus, NoSession,
  NoCallId,       \* the empty call id of every MediaAllocateRequest
  Streams,        \* controllers' connections
  ControlMethods, \* requests that controllers make
  NullStream

ASSUME StreamsAssumption == NullStream \notin Streams
ASSUME StreamCountsAssumption == StreamCounts \subseteq Nat \ {0}

VARIABLES
  callIdToDialogueMap, channelToDialogueMap, lastChannelId,   \* SIP interface
  events, responses,
  nextReadyPortIndex, nextSessionId,                          \* media process
  callIdToSessionIdLookup, sessionLog, portLog,
  theresourceId,   \* the resource of the last ALLOCATE response
  controlStream,   \* the connection the last controller request came from
  toMedia,         \* requests on the wire to the media process
  fromMedia,       \* responses on the wire from it
  closed,          \* controllers' connections that are closed
  notifications,   \* history, per connection: what reached the controller
  controlLog,      \* history: requests controlRequestHandler was called with
  allocations      \* history: requests allocate() was called for

sipVars == <<callIdToDialogueMap, channelToDialogueMap, lastChannelId, events, responses>>
mediaVars == <<nextReadyPortIndex, nextSessionId, callIdToSessionIdLookup, sessionLog, portLog>>
vars == <<sipVars, mediaVars, theresourceId, controlStream, toMedia, fromMedia,
          closed, notifications, controlLog, allocations>>

Media == INSTANCE MediaServer
           WITH CallIds <- {NoCallId}, StreamCounts <- StreamCounts \cup {0}

\* An offer counts for its number of streams, an answer for the session id
\* that allocate() writes into it.  The recorder as a whole is that of a build in
\* which a call through a null logger returns: in the others SipDialogues and
\* MediaLink end the process before anything passes from one to the other.
Sip == INSTANCE SipDialogues
         WITH Offers <- StreamCounts, Answers <- Media!SessionIds,
              running <- TRUE, logEnds <- FALSE

\* What both components assume of their constants.
ASSUME SipAssumption ==
  ChannelModulus \in Nat \ {0, 1} /\ NoDialogue \notin CallIds \cup Sip!Dialogue
ASSUME MediaAssumption ==
  /\ PortMin \in Nat /\ PortMax \in Nat /\ PortMax >= PortMin + 2
  /\ FirstBoundPort \in Nat /\ BoundPorts \in Nat /\ FirstBoundPort <= PortMin
  /\ IdModulus \in Nat \ {0} /\ FirstSessionId \in Media!SessionIds
  /\ NoSession \notin Media!SessionIds

Channels == Sip!Channels

MediaMethods == {"CALL_ANSWER", "RECORD_START", "RECORD_STOP"}

ASSUME ControlMethodsAssumption ==
  ControlMethods \subseteq MediaMethods \cup {"SYSTEM_LOGIN", "INFO_CALLCOUNT", "UNHANDLED"}

MediaRequest ==
       [method : {"ALLOCATE"}, callbackId : Channels, offer : StreamCounts \cup {0}]
  \cup [method : {"RECORD_START", "RECORD_STOP"}, callbackId : Channels,
        resourceId : Media!SessionIds]

MediaResponse ==
       [method : {"ALLOCATE"}, callbackId : Channels, resourceId : Media!SessionIds,
        answer : Media!SessionIds]
  \cup [method : {"RECORD_START", "RECORD_STOP"}, callbackId : Channels,
        resourceId : Media!SessionIds]

ControlRequest ==
       [method : ControlMethods \ MediaMethods]
  \cup [method : ControlMethods \cap MediaMethods, channelId : Channels]

Notification ==
       [type : {"LOGIN", "CALLCOUNT"}]
  \cup [type : {"CALL_INCOMING", "CALL_CONNECTED", "CALL_CLEARED",
                "CALL_RECORD_START", "CALL_RECORD_END"}, channelId : Channels]

Init ==
  /\ Sip!Init
  /\ Media!Init
  /\ theresourceId = 0
  /\ controlStream = NullStream
  /\ toMedia = <<>> /\ fromMedia = <<>>
  /\ closed = {}
  /\ notifications = [s \in Streams |-> <<>>]
  /\ controlLog = <<>>
  /\ allocations = <<>>

-----------------------------------------------------------------------------
(* SIP peers and the network *)

Answered(callId, cseq) ==
  \E i \in DOMAIN responses[callId] :
    Sip!IsAnswer(responses[callId][i]) /\ responses[callId][i].cseq = cseq

\* What can arrive: peers invite at will and acknowledge or end only a call
\* they got an answer on.  The network delivers what was sent any number of
\* times, in any order, or never: as a condition that holds once holds forever,
\* what was sent need not be kept.
CanArrive(r) ==
  \/ r.method = "INVITE"
  \/ r.method = "ACK" /\ Answered(r.callId, r.cseq)
  \/ r.method = "BYE" /\ \E cseq \in CSeqs : Answered(r.callId, cseq)

-----------------------------------------------------------------------------
(* The core process *)

\* Mutant: everybody who is connected is told.
PostToAll(stream, posted) ==
  notifications' = [s \in Streams |->
                      IF s \in closed THEN notifications[s] ELSE notifications[s] \o posted]

\* PostNotification: without a stream, or on one that was closed, a
\* notification is dropped; nothing keeps it for a later connection.
Post(stream, posted) ==
  notifications' = IF stream \in Streams \ closed
                   THEN [notifications EXCEPT ![stream] = @ \o posted]
                   ELSE notifications

\* sipEventHandler; the case for a started recording falls through into the
\* one for a stopped recording.
NotificationsFor(event) ==
  CASE event.type = "NEWCALL" ->
         <<[type |-> "CALL_INCOMING", channelId |-> event.channelId]>>
    [] event.type = "CALLANSWERED" ->
         <<[type |-> "CALL_CONNECTED", channelId |-> event.channelId]>>
    [] event.type = "CALLCLEARED" ->
         <<[type |-> "CALL_CLEARED", channelId |-> event.channelId]>>
    [] event.type = "MEDIA_RECORDING_STARTED" ->
         <<[type |-> "CALL_RECORD_START", channelId |-> event.channelId],
           [type |-> "CALL_RECORD_END", channelId |-> event.channelId]>>

\* No handler of a request raises more than one event: no call is marked as
\* recording, as core.cpp never calls startRecordingCall.
Raised(c) == SubSeq(events'[c], Len(events[c]) + 1, Len(events'[c]))

\* The SIP interface reads a request; what it raises goes to sipEventHandler.
SipReceive(r) ==
  /\ CanArrive(r)
  /\ Sip!ProcessMessage(r)
  /\ IF Raised(r.callId) = <<>>
     THEN UNCHANGED notifications
     ELSE Post(controlStream, NotificationsFor(Head(Raised(r.callId))))
  /\ UNCHANGED <<mediaVars, theresourceId, controlStream, toMedia, fromMedia,
                 closed, controlLog, allocations>>

\* getMediaOffer: a channel that has no dialogue yields an empty string.
OfferOn(ch) == IF channelToDialogueMap[ch] = NoDialogue THEN 0 ELSE Sip!MediaOffer(ch)

Allocation(ch) == [method |-> "ALLOCATE", callbackId |-> ch, offer |-> OfferOn(ch)]

\* Mutants: a recording falls through to the allocation; an allocation is asked
\* for by the first call only; a recording names the channel.
MediaRequestsFallingThrough(request) ==
  IF request.method \in {"CALL_ANSWER", "RECORD_START"}
  THEN <<Allocation(request.channelId)>>
  ELSE <<>>

MediaRequestsWhenIdle(request) ==
  IF request.method = "CALL_ANSWER" /\ theresourceId = 0
  THEN <<Allocation(request.channelId)>>
  ELSE <<>>

MediaRequestsNamingChannel(request) ==
  CASE request.method = "CALL_ANSWER" -> <<Allocation(request.channelId)>>
    [] request.method \in {"RECORD_START", "RECORD_STOP"} ->
         <<[method |-> request.method, callbackId |-> request.channelId,
            resourceId |-> request.channelId]>>
    [] OTHER -> <<>>

\* What controlRequestHandler posts to the media process for a request.  The
\* resource of a recording is whatever theresourceId holds.
MediaRequestsFor(request) ==
  CASE request.method = "CALL_ANSWER" ->
         <<Allocation(request.channelId)>>
    [] request.method \in {"RECORD_START", "RECORD_STOP"} ->
         <<[method |-> request.method, callbackId |-> request.channelId,
            resourceId |-> theresourceId]>>
    [] OTHER -> <<>>

RepliesTo(request) ==
  CASE request.method = "SYSTEM_LOGIN" -> <<[type |-> "LOGIN"]>>
    [] request.method = "INFO_CALLCOUNT" -> <<[type |-> "CALLCOUNT"]>>
    [] OTHER -> <<>>

\* controlRequestHandler: every request, one that is ignored included, makes
\* its connection the only one that is notified from now on.
ControlReceive(stream, request) ==
  /\ stream \notin closed
  /\ controlStream' = stream
  /\ toMedia' = toMedia \o MediaRequestsFor(request)
  /\ Post(stream, RepliesTo(request))
  /\ controlLog' = Append(controlLog, [stream |-> stream, request |-> request])
  /\ UNCHANGED <<sipVars, mediaVars, theresourceId, fromMedia, closed, allocations>>

\* A read error closes the connection; controlStream keeps pointing to it.
ControlClose(stream) ==
  /\ stream \notin closed
  /\ closed' = closed \cup {stream}
  /\ UNCHANGED <<sipVars, mediaVars, theresourceId, controlStream, toMedia,
                 fromMedia, notifications, controlLog, allocations>>

\* Mutant: the newest call is answered.
AnswerNewest(ch, answer) ==
  IF channelToDialogueMap[lastChannelId] = NoDialogue
  THEN UNCHANGED sipVars
  ELSE Sip!AnswerCall(lastChannelId, answer)

\* answerCall on a channel without a dialogue does nothing.
Answer(ch, answer) ==
  IF channelToDialogueMap[ch] = NoDialogue
  THEN UNCHANGED sipVars
  ELSE Sip!AnswerCall(ch, answer)

\* Mutants: start and end swapped; the resource taken for the callback.
MediaNotificationSwapped(response) ==
  [type |-> IF response.method = "RECORD_START" THEN "CALL_RECORD_END" ELSE "CALL_RECORD_START",
   channelId |-> response.callbackId]

MediaNotificationForResource(response) ==
  [type |-> IF response.method = "RECORD_START" THEN "CALL_RECORD_START" ELSE "CALL_RECORD_END",
   channelId |-> response.resourceId]

MediaNotificationFor(response) ==
  [type |-> IF response.method = "RECORD_START" THEN "CALL_RECORD_START" ELSE "CALL_RECORD_END",
   channelId |-> response.callbackId]

\* mediaResponseHandler on the first of the arrived responses; the others of
\* the same read are lost.
MediaResponseReceive(arrived) ==
  LET response == Head(fromMedia) IN
  /\ fromMedia' = SubSeq(fromMedia, arrived + 1, Len(fromMedia))
  /\ IF response.method = "ALLOCATE"
     THEN /\ theresourceId' = response.resourceId
          /\ Answer(response.callbackId, response.answer)
          /\ UNCHANGED notifications
     ELSE /\ Post(controlStream, <<MediaNotificationFor(response)>>)
          /\ UNCHANGED <<theresourceId, sipVars>>
  /\ UNCHANGED <<mediaVars, controlStream, toMedia, closed, controlLog, allocations>>

-----------------------------------------------------------------------------
(* The media process *)

\* mediaRequestHandler on the first of the arrived requests.
MediaRequestReceive(arrived) ==
  LET request == Head(toMedia) IN
  /\ toMedia' = SubSeq(toMedia, arrived + 1, Len(toMedia))
  /\ IF request.method = "ALLOCATE"
     THEN /\ Media!Allocate(NoCallId, request.offer)
          /\ fromMedia' = Append(fromMedia,
               [method |-> "ALLOCATE", callbackId |-> request.callbackId,
                resourceId |-> Media!SessionFor(NoCallId),
                answer |-> Media!SessionFor(NoCallId)])
          /\ allocations' = Append(allocations,
               [channelId |-> request.callbackId, offer |-> request.offer,
                sessionId |-> Media!SessionFor(NoCallId)])
     ELSE /\ Media!Acknowledge
          /\ fromMedia' = Append(fromMedia, request)
          /\ UNCHANGED allocations
  /\ UNCHANGED <<sipVars, theresourceId, controlStream, closed, notifications,
                 controlLog>>

Next ==
  \/ \E r \in Sip!Request : SipReceive(r)
  \/ \E stream \in Streams, request \in ControlRequest : ControlReceive(stream, request)
  \/ \E stream \in Streams : ControlClose(stream)
  \/ \E arrived \in 1 .. Len(fromMedia) : MediaResponseReceive(arrived)
  \/ \E arrived \in 1 .. Len(toMedia) : MediaRequestReceive(arrived)

Spec == Init /\ [][Next]_vars

\* A controller that was told of a call asks, once, for it to be answered.
ControllerAnswers(stream, ch) ==
  LET request == [method |-> "CALL_ANSWER", channelId |-> ch] IN
  /\ [type |-> "CALL_INCOMING", channelId |-> ch] \in {notifications[stream][i] : i \in DOMAIN notifications[stream]}
  /\ [stream |-> stream, request |-> request] \notin {controlLog[i] : i \in DOMAIN controlLog}
  /\ ControlReceive(stream, request)

\* The loops handle what has arrived, TCP delivers what was written, and
\* controllers answer the calls they are told of.  The SIP network owes nothing.
Fairness ==
  /\ WF_vars(\E arrived \in 1 .. Len(toMedia) : MediaRequestReceive(arrived))
  /\ WF_vars(\E arrived \in 1 .. Len(fromMedia) : MediaResponseReceive(arrived))
  /\ \A stream \in Streams, ch \in Channels : WF_vars(ControllerAnswers(stream, ch))

FairSpec == Spec /\ Fairness

-----------------------------------------------------------------------------
(* Properties *)

\* Every variable stays within its type, the two processes' state included.
TypeOK ==
  /\ Sip!CallTypeOK
  /\ Media!TypeOK
  /\ theresourceId \in Media!SessionIds
  /\ controlStream \in Streams \cup {NullStream}
  /\ toMedia \in Seq(MediaRequest)
  /\ fromMedia \in Seq(MediaResponse)
  /\ closed \subseteq Streams
  /\ notifications \in [Streams -> Seq(Notification)]
  /\ controlLog \in Seq([stream : Streams, request : ControlRequest])
  /\ allocations \in Seq([channelId : Channels, offer : StreamCounts \cup {0},
                           sessionId : Media!SessionIds])

\* The answer a caller gets describes a session the media process allocated for
\* that very call and its offer, however the calls' requests and responses are
\* interleaved, lost or repeated.  An offer of no stream is the trace of a
\* controller that named a channel before its call existed.
AnswersCarryOwnSession ==
  \A c \in CallIds : \A i \in DOMAIN responses[c] :
    Sip!IsAnswer(responses[c][i]) =>
      \E k \in DOMAIN allocations :
        /\ allocations[k].sessionId = responses[c][i].sdp
        /\ allocations[k].channelId = callIdToDialogueMap[c].channelId
        /\ allocations[k].offer \in {0, callIdToDialogueMap[c].transaction.sdpOffer}

Requested(method, ch) ==
  {i \in DOMAIN controlLog : /\ controlLog[i].request.method = method
                             /\ controlLog[i].request.channelId = ch}

\* processAck takes any ACK for a sign that the call was answered.  With peers
\* that acknowledge only answers it is right: no call is reported connected
\* that no controller asked to answer.
ConnectedOnlyOnRequest ==
  \A c \in CallIds : \A i \in DOMAIN events[c] :
    events[c][i].type = "CALLANSWERED" => Requested("CALL_ANSWER", events[c][i].channelId) # {}

Connected(ch) ==
  channelToDialogueMap[ch] # NoDialogue /\ Sip!StateIs(channelToDialogueMap[ch], "CONNECTED")

\* theresourceId is one variable for all calls.  It is good for one call at a
\* time: while sessions were allocated for one channel only, a recording asked
\* for on that channel, once it is connected, names one of these sessions.
RecordingsNameOwnSession ==
  [][LET posted == toMedia'[Len(toMedia')] IN
     (/\ Len(toMedia') > Len(toMedia)
      /\ posted.method # "ALLOCATE"
      /\ Connected(posted.callbackId)
      /\ \A k \in DOMAIN allocations : allocations[k].channelId = posted.callbackId)
       => \E k \in DOMAIN allocations : allocations[k].sessionId = posted.resourceId
    ]_vars

\* The controllers were told of an event on a channel, over all connections.
Notified(type, ch) ==
  {place \in UNION {{s} \X DOMAIN notifications[s] : s \in Streams} :
     notifications[place[1]][place[2]] = [type |-> type, channelId |-> ch]}

\* However control moves between connections, an event of a call reaches one
\* controller at most: no two of them are told of the same incoming call.
EventsReachOneController ==
  Cardinality(Sip!Dialogues) <= ChannelModulus =>
    \A c \in Sip!Dialogues :
      LET ch == callIdToDialogueMap[c].channelId IN
      /\ Cardinality(Notified("CALL_INCOMING", ch)) <= Sip!EventCount(c, "NEWCALL")
      /\ Cardinality(Notified("CALL_CONNECTED", ch)) <= Sip!EventCount(c, "CALLANSWERED")
      /\ Cardinality(Notified("CALL_CLEARED", ch)) <= Sip!EventCount(c, "CALLCLEARED")

\* A request has one outcome at most: a call is not answered more often than
\* controllers asked for it, and no start or end of a recording is reported
\* that was not asked for, over the two queues and their lost messages.
OutcomesMatchRequests ==
  \A ch \in Channels :
    /\ channelToDialogueMap[ch] # NoDialogue =>
         Sip!ResponseCount(channelToDialogueMap[ch], "OK", "INVITE")
           <= Cardinality(Requested("CALL_ANSWER", ch))
    /\ Cardinality(Notified("CALL_RECORD_START", ch)) <= Cardinality(Requested("RECORD_START", ch))
    /\ Cardinality(Notified("CALL_RECORD_END", ch)) <= Cardinality(Requested("RECORD_STOP", ch))

\* A call a controller was told of is answered, unless that controller hangs
\* up: provided the media queues never hold two messages, which one read would
\* take for one.  No timer repeats what was lost that way.
NotifiedCallsAreAnswered ==
  [](Len(toMedia) <= 1 /\ Len(fromMedia) <= 1) =>
    \A c \in CallIds, stream \in Streams :
      (/\ Sip!HasDialogue(c)
       /\ [type |-> "CALL_INCOMING", channelId |-> callIdToDialogueMap[c].channelId]
            \in {notifications[stream][i] : i \in DOMAIN notifications[stream]})
        ~> (stream \in closed \/ Sip!ResponseCount(c, "OK", "INVITE") > 0)
=============================================================================
