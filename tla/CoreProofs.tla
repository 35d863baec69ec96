----------------------------- MODULE CoreProofs ------------------------------
(* Theorems about Core, for every set of calls, connections and requests of  *)
(* controllers and every modulus of channel and session ids.  What is proved *)
(* of the SIP interface and of the media process on their own holds of them  *)
(* here, as every step of the whole is a step of each or leaves it alone.    *)
EXTENDS Core, DataLemmas, FiniteSetTheorems

SipP == INSTANCE SipDialoguesProofs
          WITH Offers <- StreamCounts, Answers <- Media!SessionIds, running <- TRUE, logEnds <- FALSE
MediaP == INSTANCE MediaServerProofs
            WITH CallIds <- {NoCallId}, StreamCounts <- StreamCounts \cup {0}

(* The components *)

\* The proofs' instance of the SIP interface is the model's.
LEMMA SameSip ==
  /\ Sip!Init <=> SipP!Init
  /\ Sip!Request = SipP!Request /\ Sip!Channels = SipP!Channels /\ Sip!Dialogue = SipP!Dialogue
  /\ Sip!Event = SipP!Event /\ Sip!Response = SipP!Response
  /\ Sip!CallTypeOK <=> SipP!CallTypeOK
  /\ Sip!Dialogues = SipP!Dialogues
BY DEF Sip!Init, SipP!Init, Sip!Request, SipP!Request, Sip!Channels, SipP!Channels,
       Sip!Dialogue, SipP!Dialogue, Sip!Event, SipP!Event, Sip!Response, SipP!Response,
       Sip!DialogueState, SipP!DialogueState, Sip!Transaction, SipP!Transaction,
       Sip!CallTypeOK, SipP!CallTypeOK, Sip!Dialogues, SipP!Dialogues,
       Sip!HasDialogue, SipP!HasDialogue

LEMMA SameFiniteSets ==
  ASSUME NEW S
  PROVE  /\ Sip!Cardinality(S) = Cardinality(S) /\ SipP!Cardinality(S) = Cardinality(S)
         /\ SipP!IsFiniteSet(S) <=> IsFiniteSet(S)
BY DEF Sip!Cardinality, SipP!Cardinality, Cardinality, SipP!IsFiniteSet, IsFiniteSet

LEMMA SameReceive ==
  ASSUME NEW r
  PROVE  Sip!ProcessMessage(r) <=> SipP!ProcessMessage(r)
<1> USE DEF Sip!HasDialogue, SipP!HasDialogue, Sip!StateIs, SipP!StateIs,
            Sip!NextChannelId, SipP!NextChannelId, Sip!NewDialogue, SipP!NewDialogue,
            Sip!SetState, SipP!SetState, Sip!EventOf, SipP!EventOf, Sip!Raise, SipP!Raise,
            Sip!Send, SipP!Send, Sip!Ok, SipP!Ok, Sip!ProcessInvite, SipP!ProcessInvite,
            Sip!dialogueVars, SipP!dialogueVars, Sip!callVars, SipP!callVars,
            Sip!RecordingEvents, SipP!RecordingEvents, Sip!Channels, SipP!Channels
<1>1. Sip!ReceiveFirstInvite(r) <=> SipP!ReceiveFirstInvite(r)
  BY DEF Sip!ReceiveFirstInvite, SipP!ReceiveFirstInvite
<1>2. Sip!ReceiveFurtherInvite(r) <=> SipP!ReceiveFurtherInvite(r)
  BY DEF Sip!ReceiveFurtherInvite, SipP!ReceiveFurtherInvite
<1>3. Sip!ReceiveAck(r) <=> SipP!ReceiveAck(r)
  BY DEF Sip!ReceiveAck, SipP!ReceiveAck
<1>4. Sip!ReceiveBye(r) <=> SipP!ReceiveBye(r)
  BY DEF Sip!ReceiveBye, SipP!ReceiveBye
<1>5. Sip!ReceiveSubscribe(r) <=> SipP!ReceiveSubscribe(r)
  BY DEF Sip!ReceiveSubscribe, SipP!ReceiveSubscribe
<1>6. Sip!ReceiveIgnored(r) <=> SipP!ReceiveIgnored(r)
  BY DEF Sip!ReceiveIgnored, SipP!ReceiveIgnored
<1> QED
  BY <1>1, <1>2, <1>3, <1>4, <1>5, <1>6 DEF Sip!ProcessMessage, SipP!ProcessMessage

LEMMA SameAnswerCall ==
  ASSUME NEW ch, NEW answer
  PROVE  Sip!AnswerCall(ch, answer) <=> SipP!AnswerCall(ch, answer)
BY DEF Sip!AnswerCall, SipP!AnswerCall, Sip!Send, SipP!Send, Sip!dialogueVars, SipP!dialogueVars

LEMMA SameMedia ==
  /\ Media!Init <=> MediaP!Init
  /\ Media!Next <=> MediaP!Next
  /\ Media!TypeOK <=> MediaP!TypeOK
  /\ Media!SessionIds = MediaP!SessionIds
BY DEF Media!Init, MediaP!Init, Media!Next, MediaP!Next, Media!TypeOK, MediaP!TypeOK,
       Media!SessionIds, MediaP!SessionIds, Media!Allocate, MediaP!Allocate,
       Media!SessionFor, MediaP!SessionFor, Media!AllocatePorts, MediaP!AllocatePorts,
       Media!AdvancePortIndex, MediaP!AdvancePortIndex, Media!PortPool, MediaP!PortPool,
       Media!PortTotalCount, MediaP!PortTotalCount, Media!Acknowledge, MediaP!Acknowledge,
       Media!vars, MediaP!vars

\* Both components' invariants.
SipInv == SipP!ProtocolInv /\ SipP!RouteInv
MediaInv == MediaP!CountersInv

LEMMA ComponentsInit == Init => SipInv /\ MediaInv
<1> SUFFICES ASSUME Init PROVE SipInv /\ MediaInv
  OBVIOUS
<1>1. SipP!Init /\ MediaP!Init
  BY SameSip, SameMedia DEF Init
<1>2. SipInv
  BY <1>1, SipP!ProtocolInit, SipP!RouteInit, SipAssumption, SameSip DEF SipInv
<1>3. MediaInv
  BY <1>1, MediaP!CountersInit, MediaAssumption, StreamCountsAssumption
  DEF MediaInv, Media!SessionIds
<1> QED
  BY <1>2, <1>3

LEMMA SipStepKeeps ==
  ASSUME SipInv, [SipP!CallStep]_SipP!callVars
  PROVE  SipInv'
BY SipP!ProtocolInvStep, SipP!RouteInvStep, SipAssumption, SameSip DEF SipInv

LEMMA MediaStepKeeps ==
  ASSUME MediaInv, [MediaP!Next]_MediaP!vars
  PROVE  MediaInv'
BY MediaP!CountersStep, MediaAssumption, StreamCountsAssumption DEF MediaInv, Media!SessionIds

\* What the rest needs to know of the two components' types.
LEMMA SipTypes ==
  ASSUME SipInv
  PROVE  /\ Sip!CallTypeOK
         /\ callIdToDialogueMap \in [CallIds -> Sip!Dialogue \cup {NoDialogue}]
         /\ channelToDialogueMap \in [Channels -> CallIds \cup {NoDialogue}]
         /\ events \in [CallIds -> Seq(Sip!Event)] /\ responses \in [CallIds -> Seq(Sip!Response)]
         /\ NoDialogue \notin CallIds /\ NoDialogue \notin Sip!Dialogue
         /\ \A ch \in Channels :
              channelToDialogueMap[ch] # NoDialogue => Sip!HasDialogue(channelToDialogueMap[ch])
         /\ \A c \in CallIds : Sip!HasDialogue(c) => callIdToDialogueMap[c] \in Sip!Dialogue
<1>1. SipP!CallTypeOK /\ SipP!ChannelsHaveDialogues
  BY DEF SipInv, SipP!ProtocolInv, SipP!TypeInv
<1>2. Sip!CallTypeOK
  BY <1>1, SameSip
<1>3. \A ch \in Channels :
        channelToDialogueMap[ch] # NoDialogue => Sip!HasDialogue(channelToDialogueMap[ch])
  BY <1>1, SameSip DEF SipP!ChannelsHaveDialogues, SipP!HasDialogue, Sip!HasDialogue, Channels
<1> QED
  BY <1>2, <1>3, SipAssumption DEF Sip!CallTypeOK, Channels, Sip!HasDialogue

LEMMA SipTypesNext ==
  ASSUME SipInv'
  PROVE  /\ events' \in [CallIds -> Seq(Sip!Event)] /\ responses' \in [CallIds -> Seq(Sip!Response)]
         /\ callIdToDialogueMap' \in [CallIds -> Sip!Dialogue \cup {NoDialogue}]
         /\ channelToDialogueMap' \in [Channels -> CallIds \cup {NoDialogue}]
BY SameSip DEF SipInv, SipP!ProtocolInv, SipP!TypeInv, SipP!CallTypeOK, Channels

LEMMA MediaTypes ==
  ASSUME MediaInv
  PROVE  /\ Media!TypeOK /\ nextSessionId \in Media!SessionIds
         /\ Media!SessionFor(NoCallId) = nextSessionId
<1>1. MediaP!TypeOK /\ \A callId \in {NoCallId} : callIdToSessionIdLookup[callId] = NoSession
  BY DEF MediaInv, MediaP!CountersInv
<1> QED
  BY <1>1, SameMedia DEF Media!TypeOK, Media!SessionFor

-----------------------------------------------------------------------------
(* Types *)

\* The rest of TypeOK.
FlowTypes ==
  /\ theresourceId \in Media!SessionIds
  /\ controlStream \in Streams \cup {NullStream}
  /\ toMedia \in Seq(MediaRequest)
  /\ fromMedia \in Seq(MediaResponse)
  /\ closed \subseteq Streams
  /\ notifications \in [Streams -> Seq(Notification)]
  /\ controlLog \in Seq([stream : Streams, request : ControlRequest])
  /\ allocations \in Seq([channelId : Channels, offer : StreamCounts \cup {0},
                           sessionId : Media!SessionIds])

\* What the proofs of all later invariants start from.
BaseInv == SipInv /\ MediaInv /\ FlowTypes

\* Where a request or a response is read from the front of a queue.
LEMMA ReadTypes ==
  ASSUME NEW S, NEW queue \in Seq(S), NEW arrived \in 1 .. Len(queue)
  PROVE  /\ Head(queue) \in S /\ Head(queue) = queue[1]
         /\ SubSeq(queue, arrived + 1, Len(queue)) \in Seq(S)
<1>1. queue # <<>> /\ arrived \in 0 .. Len(queue)
  BY EmptySeq
<1> QED
  BY <1>1, TailElements

LEMMA AllocationType ==
  ASSUME BaseInv, NEW ch \in Channels
  PROVE  Allocation(ch) \in MediaRequest
<1>1. OfferOn(ch) \in StreamCounts \cup {0}
  <2>1. CASE channelToDialogueMap[ch] = NoDialogue
    BY <2>1 DEF OfferOn
  <2>2. CASE channelToDialogueMap[ch] # NoDialogue
    <3>1. callIdToDialogueMap[channelToDialogueMap[ch]] \in Sip!Dialogue
      BY <2>2, SipTypes DEF BaseInv
    <3> QED
      BY <2>2, <3>1 DEF OfferOn, Sip!MediaOffer, Sip!Dialogue, Sip!Transaction
  <2> QED
    BY <2>1, <2>2
<1> QED
  BY <1>1 DEF Allocation, MediaRequest

\* A request that concerns the media process names a channel.
LEMMA ControlTypes ==
  ASSUME NEW request \in ControlRequest, request.method \in MediaMethods
  PROVE  request.channelId \in Channels
BY DEF ControlRequest, MediaMethods

LEMMA MediaRequestsType ==
  ASSUME BaseInv, NEW request \in ControlRequest
  PROVE  /\ MediaRequestsFor(request) \in Seq(MediaRequest)
         /\ RepliesTo(request) \in Seq(Notification)
<1>1. CASE request.method = "CALL_ANSWER"
  <2>1. Allocation(request.channelId) \in MediaRequest
    BY <1>1, ControlTypes, AllocationType DEF MediaMethods
  <2>2. MediaRequestsFor(request) = <<Allocation(request.channelId)>> /\ RepliesTo(request) = <<>>
    BY <1>1 DEF MediaRequestsFor, RepliesTo
  <2> QED
    BY <2>1, <2>2
<1>2. CASE request.method \in {"RECORD_START", "RECORD_STOP"}
  <2> DEFINE posted == [method |-> request.method, callbackId |-> request.channelId,
                        resourceId |-> theresourceId]
  <2>1. posted \in MediaRequest
    BY <1>2, ControlTypes DEF MediaMethods, MediaRequest, BaseInv, FlowTypes
  <2>2. MediaRequestsFor(request) = <<posted>> /\ RepliesTo(request) = <<>>
    BY <1>2 DEF MediaRequestsFor, RepliesTo
  <2> HIDE DEF posted
  <2> QED
    BY <2>1, <2>2
<1>3. CASE request.method \notin MediaMethods
  <2>1. MediaRequestsFor(request) = <<>>
    BY <1>3 DEF MediaRequestsFor, MediaMethods
  <2>2. RepliesTo(request) \in {<<>>, <<[type |-> "LOGIN"]>>, <<[type |-> "CALLCOUNT"]>>}
    BY <1>3 DEF RepliesTo
  <2>3. [type |-> "LOGIN"] \in Notification /\ [type |-> "CALLCOUNT"] \in Notification
    BY DEF Notification
  <2>4. \A n \in Notification : <<n>> \in Seq(Notification)
    OBVIOUS
  <2>5. <<>> \in Seq(MediaRequest) /\ <<>> \in Seq(Notification)
    OBVIOUS
  <2> QED
    BY <2>1, <2>2, <2>3, <2>4, <2>5, Zenon
<1> QED
  BY <1>1, <1>2, <1>3 DEF MediaMethods

LEMMA PostType ==
  ASSUME notifications \in [Streams -> Seq(Notification)],
         NEW stream, NEW posted \in Seq(Notification), Post(stream, posted)
  PROVE  notifications' \in [Streams -> Seq(Notification)]
<1>1. CASE stream \in Streams \ closed
  <2>1. notifications[stream] \o posted \in Seq(Notification)
    BY <1>1
  <2> QED
    BY <1>1, <2>1 DEF Post
<1>2. CASE stream \notin Streams \ closed
  BY <1>2 DEF Post
<1> QED
  BY <1>1, <1>2

LEMMA NotificationsType ==
  ASSUME NEW event \in Sip!Event
  PROVE  NotificationsFor(event) \in Seq(Notification)
<1>1. event.channelId \in Channels
  BY DEF Sip!Event, Channels
<1>2. \A type \in {"CALL_INCOMING", "CALL_CONNECTED", "CALL_CLEARED",
                   "CALL_RECORD_START", "CALL_RECORD_END"} :
        [type |-> type, channelId |-> event.channelId] \in Notification
  BY <1>1 DEF Notification
<1>3. event.type \in {"NEWCALL", "CALLANSWERED", "CALLCLEARED", "MEDIA_RECORDING_STARTED"}
  BY DEF Sip!Event
<1> QED
  BY <1>2, <1>3 DEF NotificationsFor

\* A response on the wire, and what comes of it.
LEMMA ResponseTypes ==
  ASSUME BaseInv, NEW arrived \in 1 .. Len(fromMedia)
  PROVE  /\ Head(fromMedia) \in MediaResponse /\ Head(fromMedia) = fromMedia[1]
         /\ Head(fromMedia).callbackId \in Channels
         /\ Head(fromMedia).resourceId \in Media!SessionIds
         /\ Head(fromMedia).method = "ALLOCATE" => Head(fromMedia).answer \in Media!SessionIds
         /\ SubSeq(fromMedia, arrived + 1, Len(fromMedia)) \in Seq(MediaResponse)
<1>1. Head(fromMedia) \in MediaResponse /\ Head(fromMedia) = fromMedia[1]
      /\ SubSeq(fromMedia, arrived + 1, Len(fromMedia)) \in Seq(MediaResponse)
  BY ReadTypes DEF BaseInv, FlowTypes
<1> QED
  BY <1>1 DEF MediaResponse

LEMMA RequestTypes ==
  ASSUME BaseInv, NEW arrived \in 1 .. Len(toMedia)
  PROVE  /\ Head(toMedia) \in MediaRequest /\ Head(toMedia) = toMedia[1]
         /\ Head(toMedia).callbackId \in Channels
         /\ Head(toMedia).method = "ALLOCATE" => Head(toMedia).offer \in StreamCounts \cup {0}
         /\ Head(toMedia).method # "ALLOCATE" => Head(toMedia) \in MediaResponse
         /\ SubSeq(toMedia, arrived + 1, Len(toMedia)) \in Seq(MediaRequest)
<1>1. Head(toMedia) \in MediaRequest /\ Head(toMedia) = toMedia[1]
      /\ SubSeq(toMedia, arrived + 1, Len(toMedia)) \in Seq(MediaRequest)
  BY ReadTypes DEF BaseInv, FlowTypes
<1> QED
  BY <1>1 DEF MediaRequest, MediaResponse

-----------------------------------------------------------------------------
(* Every step is one of each component *)

LEMMA StepOfSip ==
  ASSUME BaseInv, [Next]_vars
  PROVE  [SipP!CallStep]_SipP!callVars
<1>1. ASSUME NEW r \in Sip!Request, SipReceive(r) PROVE SipP!CallStep
  BY <1>1, SameSip, SameReceive DEF SipReceive, SipP!CallStep
<1>2. ASSUME UNCHANGED sipVars PROVE UNCHANGED SipP!callVars
  BY <1>2 DEF sipVars, SipP!callVars, SipP!dialogueVars
<1>3. ASSUME NEW arrived \in 1 .. Len(fromMedia), MediaResponseReceive(arrived)
      PROVE  [SipP!CallStep]_SipP!callVars
  <2> DEFINE response == Head(fromMedia)
  <2>1. CASE response.method = "ALLOCATE"
    <3>1. response.callbackId \in SipP!Channels /\ response.answer \in Media!SessionIds
      BY <2>1, ResponseTypes, SameSip DEF Channels
    <3>2. UNCHANGED sipVars \/ Sip!AnswerCall(response.callbackId, response.answer)
      BY <1>3, <2>1 DEF MediaResponseReceive, Answer
    <3> QED
      BY <1>2, <3>1, <3>2, SameAnswerCall DEF SipP!CallStep
  <2>2. CASE response.method # "ALLOCATE"
    BY <1>2, <1>3, <2>2 DEF MediaResponseReceive
  <2> QED
    BY <2>1, <2>2
<1> QED
  BY <1>1, <1>2, <1>3
  DEF Next, ControlReceive, ControlClose, MediaRequestReceive, vars

LEMMA StepOfMedia ==
  ASSUME BaseInv, [Next]_vars
  PROVE  [MediaP!Next]_MediaP!vars
<1>1. ASSUME UNCHANGED mediaVars PROVE UNCHANGED MediaP!vars
  BY <1>1 DEF mediaVars, MediaP!vars
<1>2. ASSUME NEW arrived \in 1 .. Len(toMedia), MediaRequestReceive(arrived)
      PROVE  MediaP!Next
  <2> DEFINE request == Head(toMedia)
  <2>1. CASE request.method = "ALLOCATE"
    <3>1. request.offer \in StreamCounts \cup {0}
      BY <2>1, RequestTypes
    <3>2. Media!Allocate(NoCallId, request.offer)
      BY <1>2, <2>1 DEF MediaRequestReceive
    <3>3. Media!Next
      BY <3>1, <3>2 DEF Media!Next
    <3> QED
      BY <3>3, SameMedia
  <2>2. CASE request.method # "ALLOCATE"
    BY <1>2, <2>2, SameMedia DEF MediaRequestReceive, Media!Next
  <2> QED
    BY <2>1, <2>2
<1> QED
  BY <1>1, <1>2
  DEF Next, SipReceive, ControlReceive, ControlClose, MediaResponseReceive, vars

\* The steps of the two components keep their invariants.
LEMMA ComponentsStep ==
  ASSUME BaseInv, [Next]_vars
  PROVE  SipInv' /\ MediaInv'
BY StepOfSip, StepOfMedia, SipStepKeeps, MediaStepKeeps DEF BaseInv

\* What the SIP interface raises is an event.
LEMMA RaisedType ==
  ASSUME NEW c \in CallIds, events \in [CallIds -> Seq(Sip!Event)],
         events' \in [CallIds -> Seq(Sip!Event)], Raised(c) # <<>>
  PROVE  Head(Raised(c)) \in Sip!Event /\ Head(Raised(c)) = events'[c][Len(events[c]) + 1]
<1> DEFINE n == Len(events[c])
           m == Len(events'[c])
<1>1. n \in Nat /\ m \in Nat /\ events'[c] \in Seq(Sip!Event)
  OBVIOUS
<1>2. n < m
  <2>1. SUFFICES ASSUME m <= n PROVE FALSE
    BY <1>1
  <2>2. Raised(c) = <<>>
    BY <1>1, <2>1 DEF Raised
  <2> QED
    BY <2>2
<1>3. Raised(c)[1] = events'[c][n + 1] /\ Len(Raised(c)) = m - n /\ Raised(c) \in Seq(Sip!Event)
  BY <1>1, <1>2 DEF Raised
<1>4. events'[c][n + 1] \in Sip!Event
  BY <1>1, <1>2
<1> QED
  BY <1>3, <1>4

LEMMA FlowTypesStep ==
  ASSUME BaseInv, [Next]_vars
  PROVE  FlowTypes'
<1>1. SipInv' /\ FlowTypes /\ MediaInv /\ MediaInv' /\ SipInv
  BY ComponentsStep DEF BaseInv
<1> USE DEF FlowTypes
<1>2. ASSUME NEW r \in Sip!Request, SipReceive(r) PROVE FlowTypes'
  <2>1. r.callId \in CallIds
    BY DEF Sip!Request
  <2>2. notifications' \in [Streams -> Seq(Notification)]
    <3>1. CASE Raised(r.callId) = <<>>
      BY <1>1, <1>2, <3>1 DEF SipReceive
    <3>2. CASE Raised(r.callId) # <<>>
      <4>1. Head(Raised(r.callId)) \in Sip!Event
        BY <1>1, <2>1, <3>2, SipTypes, SipTypesNext, RaisedType
      <4>2. Post(controlStream, NotificationsFor(Head(Raised(r.callId))))
        BY <1>2, <3>2 DEF SipReceive
      <4> QED
        BY <1>1, <4>1, <4>2, NotificationsType, PostType
    <3> QED
      BY <3>1, <3>2
  <2>3. UNCHANGED <<theresourceId, controlStream, toMedia, fromMedia, closed, controlLog, allocations>>
    BY <1>2 DEF SipReceive
  <2> QED
    BY <1>1, <2>2, <2>3
<1>3. ASSUME NEW stream \in Streams, NEW request \in ControlRequest, ControlReceive(stream, request)
      PROVE  FlowTypes'
  <2>1. MediaRequestsFor(request) \in Seq(MediaRequest) /\ RepliesTo(request) \in Seq(Notification)
    BY MediaRequestsType
  <2>2. toMedia' \in Seq(MediaRequest)
    BY <1>1, <1>3, <2>1 DEF ControlReceive
  <2>3. notifications' \in [Streams -> Seq(Notification)]
    BY <1>1, <1>3, <2>1, PostType DEF ControlReceive
  <2>4. controlLog' \in Seq([stream : Streams, request : ControlRequest])
    <3>1. [stream |-> stream, request |-> request] \in [stream : Streams, request : ControlRequest]
      OBVIOUS
    <3>2. controlLog' = Append(controlLog, [stream |-> stream, request |-> request])
      BY <1>3 DEF ControlReceive
    <3> HIDE DEF FlowTypes
    <3> QED
      BY <1>1, <3>1, <3>2 DEF FlowTypes
  <2>5. controlStream' \in Streams /\ UNCHANGED <<theresourceId, fromMedia, closed, allocations>>
    BY <1>3 DEF ControlReceive
  <2> QED
    BY <1>1, <2>2, <2>3, <2>4, <2>5
<1>4. ASSUME NEW stream \in Streams, ControlClose(stream) PROVE FlowTypes'
  BY <1>1, <1>4 DEF ControlClose
<1>5. ASSUME NEW arrived \in 1 .. Len(fromMedia), MediaResponseReceive(arrived) PROVE FlowTypes'
  <2> DEFINE response == Head(fromMedia)
  <2>1. /\ response.callbackId \in Channels /\ response.resourceId \in Media!SessionIds
        /\ fromMedia' \in Seq(MediaResponse)
        /\ UNCHANGED <<controlStream, toMedia, closed, controlLog, allocations>>
    BY <1>5, ResponseTypes DEF MediaResponseReceive
  <2>2. CASE response.method = "ALLOCATE"
    <3>1. theresourceId' = response.resourceId /\ UNCHANGED notifications
      BY <1>5, <2>2 DEF MediaResponseReceive
    <3> QED
      BY <1>1, <2>1, <3>1
  <2>3. CASE response.method # "ALLOCATE"
    <3>1. Post(controlStream, <<MediaNotificationFor(response)>>) /\ UNCHANGED theresourceId
      BY <1>5, <2>3 DEF MediaResponseReceive
    <3>2. MediaNotificationFor(response) \in Notification
      BY <2>1 DEF MediaNotificationFor, Notification
    <3>3. <<MediaNotificationFor(response)>> \in Seq(Notification)
      BY <3>2
    <3> QED
      BY <1>1, <2>1, <3>1, <3>3, PostType
  <2> QED
    BY <2>2, <2>3
<1>6. ASSUME NEW arrived \in 1 .. Len(toMedia), MediaRequestReceive(arrived) PROVE FlowTypes'
  <2> DEFINE request == Head(toMedia)
             id == Media!SessionFor(NoCallId)
  <2>1. /\ request.callbackId \in Channels
        /\ toMedia' \in Seq(MediaRequest)
        /\ UNCHANGED <<theresourceId, controlStream, closed, notifications, controlLog>>
    BY <1>6, RequestTypes DEF MediaRequestReceive
  <2>2. CASE request.method = "ALLOCATE"
    <3> DEFINE made == [method |-> "ALLOCATE", callbackId |-> request.callbackId,
                        resourceId |-> id, answer |-> id]
               kept == [channelId |-> request.callbackId, offer |-> request.offer,
                        sessionId |-> id]
    <3>1. id \in Media!SessionIds /\ request.offer \in StreamCounts \cup {0}
      BY <1>1, <2>2, MediaTypes, RequestTypes
    <3>2. made \in MediaResponse
      BY <2>1, <3>1 DEF MediaResponse
    <3>3. kept \in [channelId : Channels, offer : StreamCounts \cup {0}, sessionId : Media!SessionIds]
      BY <2>1, <3>1
    <3>4. fromMedia' = Append(fromMedia, made) /\ allocations' = Append(allocations, kept)
      BY <1>6, <2>2 DEF MediaRequestReceive
    <3> HIDE DEF made, kept
    <3>5. fromMedia' \in Seq(MediaResponse)
      BY <1>1, <3>2, <3>4
    <3>6. allocations' \in Seq([channelId : Channels, offer : StreamCounts \cup {0},
                                sessionId : Media!SessionIds])
      BY <1>1, <3>3, <3>4
    <3> QED
      BY <1>1, <2>1, <3>5, <3>6
  <2>3. CASE request.method # "ALLOCATE"
    <3>1. fromMedia' = Append(fromMedia, request) /\ UNCHANGED allocations
      BY <1>6, <2>3 DEF MediaRequestReceive
    <3>2. fromMedia' \in Seq(MediaResponse)
      BY <1>1, <2>3, <3>1, RequestTypes
    <3> QED
      BY <1>1, <2>1, <3>1, <3>2
  <2> QED
    BY <2>2, <2>3
<1>7. CASE UNCHANGED vars
  BY <1>1, <1>7 DEF vars
<1> QED
  BY <1>2, <1>3, <1>4, <1>5, <1>6, <1>7 DEF Next

LEMMA BaseInit == Init => BaseInv
<1> SUFFICES ASSUME Init PROVE BaseInv
  OBVIOUS
<1>1. 0 \in Media!SessionIds
  BY MediaAssumption DEF Media!SessionIds
<1>2. FlowTypes
  BY <1>1 DEF Init, FlowTypes
<1> QED
  BY <1>2, ComponentsInit DEF BaseInv

LEMMA BaseStep == BaseInv /\ [Next]_vars => BaseInv'
BY ComponentsStep, FlowTypesStep DEF BaseInv

LEMMA BaseInvariance == Spec => []BaseInv
BY BaseInit, BaseStep, PTL DEF Spec

\* Every variable of the recorder keeps its type (TypeOK), whatever the two
\* processes, the controllers and the SIP peers do and however many messages
\* one read swallows.
THEOREM CoreTypeCorrect == Spec => []TypeOK
<1>1. BaseInv => TypeOK
  BY SipTypes, MediaTypes DEF BaseInv, FlowTypes, TypeOK
<1> QED
  BY <1>1, BaseInvariance, PTL
-----------------------------------------------------------------------------
(* How the recorder's state grows *)

\* The SIP interface's facts, said of the recorder's steps.
LEMMA DialoguesStay ==
  ASSUME BaseInv, [Next]_vars, NEW c \in CallIds, Sip!HasDialogue(c)
  PROVE  /\ callIdToDialogueMap'[c] # NoDialogue
         /\ callIdToDialogueMap'[c].channelId = callIdToDialogueMap[c].channelId
         /\ callIdToDialogueMap'[c].transaction = callIdToDialogueMap[c].transaction
<1>1. SipP!CallTypeOK /\ SipP!ChannelsHaveDialogues /\ SipP!HasDialogue(c)
  BY DEF BaseInv, SipInv, SipP!ProtocolInv, SipP!TypeInv, Sip!HasDialogue, SipP!HasDialogue
<1> QED
  BY <1>1, StepOfSip, SipP!DialoguesStay, SipAssumption, SameSip DEF SipP!HasDialogue

LEMMA ChannelsStay ==
  ASSUME BaseInv, [Next]_vars, NEW ch \in Channels, channelToDialogueMap[ch] # NoDialogue
  PROVE  channelToDialogueMap'[ch] = channelToDialogueMap[ch]
<1>1. SipP!TypeInv /\ ch \in SipP!Channels
  BY SameSip DEF BaseInv, SipInv, SipP!ProtocolInv, Channels
<1> QED
  BY <1>1, StepOfSip, SipP!ChannelsStay, SipAssumption, SameSip

LEMMA ChannelsAreNew ==
  ASSUME BaseInv, [Next]_vars, NEW ch \in Channels,
         channelToDialogueMap[ch] = NoDialogue, channelToDialogueMap'[ch] # NoDialogue
  PROVE  channelToDialogueMap'[ch] \in CallIds /\ ~Sip!HasDialogue(channelToDialogueMap'[ch])
<1>1. SipP!TypeInv /\ ch \in SipP!Channels
  BY SameSip DEF BaseInv, SipInv, SipP!ProtocolInv, Channels
<1>2. /\ channelToDialogueMap'[ch] \in CallIds
      /\ ~SipP!HasDialogue(channelToDialogueMap'[ch])
  BY <1>1, StepOfSip, SipP!ChannelsAreNew, SipAssumption, SameSip
<1> QED
  BY <1>2 DEF Sip!HasDialogue, SipP!HasDialogue

LEMMA ReceiveEffects ==
  ASSUME BaseInv, NEW r \in Sip!Request, SipReceive(r), NEW c \in CallIds
  PROVE  /\ \/ SipP!Announced(r, c) \/ SipP!Acknowledged(r, c) \/ SipP!Ended(r, c)
            \/ SipP!Subscribed(r, c) \/ SipP!Unheard(c)
         /\ callIdToDialogueMap'[c] # NoDialogue =>
              /\ callIdToDialogueMap'[c].state = "CONNECTED" =>
                   Sip!StateIs(c, "CONNECTED") \/ (c = r.callId /\ r.method = "ACK")
              /\ callIdToDialogueMap'[c].recording =>
                   Sip!HasDialogue(c) /\ callIdToDialogueMap[c].recording
<1>1. SipP!TypeInv /\ r \in SipP!Request /\ SipP!ProcessMessage(r)
  BY SameSip, SameReceive DEF BaseInv, SipInv, SipP!ProtocolInv, SipReceive
<1>2. \/ SipP!Announced(r, c) \/ SipP!Acknowledged(r, c) \/ SipP!Ended(r, c)
      \/ SipP!Subscribed(r, c) \/ SipP!Unheard(c)
  BY <1>1, SipP!ReceiveEffects, SipAssumption, SameSip
<1>3. callIdToDialogueMap'[c] # NoDialogue =>
        /\ callIdToDialogueMap'[c].state = "CONNECTED" =>
             SipP!StateIs(c, "CONNECTED") \/ (c = r.callId /\ r.method = "ACK")
        /\ callIdToDialogueMap'[c].recording =>
             SipP!HasDialogue(c) /\ callIdToDialogueMap[c].recording
  BY <1>1, SipP!ReceiveWrites, SipAssumption, SameSip
<1> QED
  BY <1>2, <1>3 DEF Sip!StateIs, SipP!StateIs, Sip!HasDialogue, SipP!HasDialogue

LEMMA LogsGrow ==
  ASSUME BaseInv, [Next]_vars
  PROVE  /\ \A i \in DOMAIN controlLog : i \in DOMAIN controlLog' /\ controlLog'[i] = controlLog[i]
         /\ \A k \in DOMAIN allocations :
              k \in DOMAIN allocations' /\ allocations'[k] = allocations[k]
<1> DEFINE Kept(s, t) == \A i \in DOMAIN s : i \in DOMAIN t /\ t[i] = s[i]
<1>1. ASSUME NEW S, NEW s \in Seq(S), NEW x PROVE Kept(s, Append(s, x))
  OBVIOUS
<1>2. controlLog' = controlLog \/ \E x : controlLog' = Append(controlLog, x)
  BY DEF Next, SipReceive, ControlReceive, ControlClose, MediaResponseReceive,
         MediaRequestReceive, vars
<1>3. allocations' = allocations \/ \E x : allocations' = Append(allocations, x)
  <2>1. ASSUME NEW arrived \in 1 .. Len(toMedia), MediaRequestReceive(arrived)
        PROVE  allocations' = allocations \/ \E x : allocations' = Append(allocations, x)
    BY <2>1 DEF MediaRequestReceive
  <2> QED
    BY <2>1 DEF Next, SipReceive, ControlReceive, ControlClose, MediaResponseReceive, vars
<1>4. Kept(controlLog, controlLog') /\ Kept(allocations, allocations')
  <2> HIDE DEF Kept
  <2>1. ASSUME NEW s PROVE Kept(s, s)
    BY DEF Kept
  <2> QED
    BY <1>1, <1>2, <1>3, <2>1 DEF BaseInv, FlowTypes
<1> QED
  BY <1>4

\* What a response of the media process has sent to the SIP peer.
AnswerTo(c, answer) ==
  [status |-> "OK", method |-> "INVITE", sdp |-> answer,
   cseq |-> callIdToDialogueMap[c].transaction.cseq]

LEMMA MediaResponseEffects ==
  ASSUME BaseInv, NEW arrived \in 1 .. Len(fromMedia), MediaResponseReceive(arrived),
         NEW c \in CallIds
  PROVE  /\ UNCHANGED <<callIdToDialogueMap, channelToDialogueMap, events>>
         /\ LET response == Head(fromMedia) IN
            responses'[c] = IF /\ response.method = "ALLOCATE"
                               /\ c = channelToDialogueMap[response.callbackId]
                            THEN Append(responses[c], AnswerTo(c, response.answer))
                            ELSE responses[c]
         /\ theresourceId' = IF Head(fromMedia).method = "ALLOCATE" THEN Head(fromMedia).resourceId
                                                                    ELSE theresourceId
<1> DEFINE response == Head(fromMedia)
           k == channelToDialogueMap[response.callbackId]
<1>1. /\ response.callbackId \in Channels /\ NoDialogue \notin CallIds
      /\ responses \in [CallIds -> Seq(Sip!Response)]
      /\ channelToDialogueMap \in [Channels -> CallIds \cup {NoDialogue}]
  BY ResponseTypes, SipTypes DEF BaseInv
<1>2. CASE response.method = "ALLOCATE" /\ k # NoDialogue
  <2>1. Sip!AnswerCall(response.callbackId, response.answer) /\ theresourceId' = response.resourceId
    BY <1>2 DEF MediaResponseReceive, Answer
  <2>2. UNCHANGED <<callIdToDialogueMap, channelToDialogueMap, events>>
    BY <2>1 DEF Sip!AnswerCall, Sip!dialogueVars
  <2>3. responses' = [responses EXCEPT ![k] = Append(@, AnswerTo(k, response.answer))]
    BY <2>1 DEF Sip!AnswerCall, Sip!Send, AnswerTo
  <2> HIDE DEF response
  <2> QED
    BY <1>1, <1>2, <2>1, <2>2, <2>3 DEF response
<1>3. CASE response.method = "ALLOCATE" /\ k = NoDialogue
  BY <1>1, <1>3 DEF MediaResponseReceive, Answer, sipVars
<1>4. CASE response.method # "ALLOCATE"
  BY <1>1, <1>4 DEF MediaResponseReceive, sipVars
<1> QED
  BY <1>2, <1>3, <1>4

\* The responses of a call grow by what the SIP interface sends of its own
\* accord, or by an answer.
LEMMA ResponsesGrow ==
  ASSUME BaseInv, [Next]_vars, NEW c \in CallIds
  PROVE  \/ responses'[c] = responses[c]
         \/ \E response \in Sip!Response :
              ~Sip!IsAnswer(response) /\ responses'[c] = Append(responses[c], response)
         \/ /\ \E arrived \in 1 .. Len(fromMedia) : MediaResponseReceive(arrived)
            /\ Head(fromMedia).method = "ALLOCATE"
            /\ c = channelToDialogueMap[Head(fromMedia).callbackId]
            /\ responses'[c] = Append(responses[c], AnswerTo(c, Head(fromMedia).answer))
<1>1. ASSUME NEW r \in Sip!Request, SipReceive(r)
      PROVE  \/ responses'[c] = responses[c]
             \/ \E response \in Sip!Response :
                  ~Sip!IsAnswer(response) /\ responses'[c] = Append(responses[c], response)
  BY <1>1, ReceiveEffects, SameSip
  DEF SipP!Announced, SipP!Acknowledged, SipP!Ended, SipP!Subscribed, SipP!Unheard, Sip!IsAnswer
<1>2. ASSUME UNCHANGED responses PROVE responses'[c] = responses[c]
  BY <1>2
<1>3. CASE \E arrived \in 1 .. Len(fromMedia) : MediaResponseReceive(arrived)
  BY <1>3, MediaResponseEffects
<1> QED
  BY <1>1, <1>2, <1>3 DEF Next, ControlReceive, ControlClose, MediaRequestReceive, vars, sipVars
-----------------------------------------------------------------------------
(* Offers, allocations and answers *)

\* An offer that counts streams is the one of the call the channel leads to.
Offered(ch, offer) ==
  offer # 0 => /\ channelToDialogueMap[ch] # NoDialogue
               /\ offer = callIdToDialogueMap[channelToDialogueMap[ch]].transaction.sdpOffer

Asked(ch) == Requested("CALL_ANSWER", ch) # {}

AllocatedFor(ch, sessionId) ==
  \E k \in DOMAIN allocations :
    allocations[k].channelId = ch /\ allocations[k].sessionId = sessionId

\* What an allocation on its way, and one that was made, stand for.
RequestsOffered ==
  \A i \in DOMAIN toMedia, ch \in Channels, offer \in StreamCounts \cup {0} :
    toMedia[i] = [method |-> "ALLOCATE", callbackId |-> ch, offer |-> offer] =>
      Offered(ch, offer) /\ Asked(ch)

AllocationsOffered ==
  \A k \in DOMAIN allocations, ch \in Channels, offer \in StreamCounts \cup {0} :
    allocations[k].channelId = ch /\ allocations[k].offer = offer =>
      Offered(ch, offer) /\ Asked(ch)

ResponsesAllocated ==
  \A i \in DOMAIN fromMedia, ch \in Channels, id \in Media!SessionIds :
    (/\ fromMedia[i].method = "ALLOCATE" /\ fromMedia[i].callbackId = ch
     /\ id \in {fromMedia[i].resourceId, fromMedia[i].answer})
      => AllocatedFor(ch, id)

\* An answer that was sent went to the call that its session's channel leads to.
AnswersAllocated ==
  \A c \in CallIds : \A i \in DOMAIN responses[c] :
    Sip!IsAnswer(responses[c][i]) =>
      /\ Sip!HasDialogue(c)
      /\ \A ch \in Channels, id \in Media!SessionIds :
           ch = callIdToDialogueMap[c].channelId /\ id = responses[c][i].sdp =>
             channelToDialogueMap[ch] = c /\ AllocatedFor(ch, id)

SomeAnswer(c) == \E i \in DOMAIN responses[c] : Sip!IsAnswer(responses[c][i])

\* theresourceId names an allocated session as soon as any call was answered.
ResourceAllocated ==
  (\E c \in CallIds : SomeAnswer(c)) =>
    \E k \in DOMAIN allocations : allocations[k].sessionId = theresourceId

\* Peers acknowledge only what was answered, so a connected call was.
ConnectedAnswered == \A c \in CallIds : Sip!StateIs(c, "CONNECTED") => SomeAnswer(c)

NoneRecording == \A c \in CallIds : Sip!HasDialogue(c) => ~callIdToDialogueMap[c].recording

FlowInv ==
  /\ SipP!MapsAgree /\ NoneRecording
  /\ RequestsOffered /\ AllocationsOffered /\ ResponsesAllocated /\ AnswersAllocated
  /\ ResourceAllocated /\ ConnectedAnswered /\ ConnectedOnlyOnRequest

LEMMA OfferedStays ==
  ASSUME BaseInv, [Next]_vars, NEW ch \in Channels, NEW offer, Offered(ch, offer)
  PROVE  Offered(ch, offer)'
<1>1. CASE offer = 0
  BY <1>1 DEF Offered
<1>2. CASE offer # 0
  <2> DEFINE c == channelToDialogueMap[ch]
  <2>1. c # NoDialogue /\ offer = callIdToDialogueMap[c].transaction.sdpOffer
    BY <1>2 DEF Offered
  <2>2. c \in CallIds /\ Sip!HasDialogue(c)
    BY <2>1, SipTypes DEF BaseInv
  <2>3. channelToDialogueMap'[ch] = c
    BY <2>1, ChannelsStay
  <2>4. callIdToDialogueMap'[c].transaction = callIdToDialogueMap[c].transaction
    BY <2>2, DialoguesStay
  <2> QED
    BY <2>1, <2>3, <2>4 DEF Offered
<1> QED
  BY <1>1, <1>2

LEMMA AskedStays ==
  ASSUME BaseInv, [Next]_vars, NEW ch, Asked(ch)
  PROVE  Asked(ch)'
BY LogsGrow DEF Asked, Requested

LEMMA AllocatedForStays ==
  ASSUME BaseInv, [Next]_vars, NEW ch, NEW sessionId, AllocatedFor(ch, sessionId)
  PROVE  AllocatedFor(ch, sessionId)'
BY LogsGrow DEF AllocatedFor

\* The members of a queue, when one is added and when its first are taken off.
LEMMA Appended ==
  ASSUME NEW S, NEW s \in Seq(S), NEW x, NEW i \in DOMAIN Append(s, x)
  PROVE  (i \in DOMAIN s /\ Append(s, x)[i] = s[i]) \/ (i = Len(s) + 1 /\ Append(s, x)[i] = x)
OBVIOUS

LEMMA TakenOff ==
  ASSUME NEW S, NEW s \in Seq(S), NEW n \in 1 .. Len(s),
         NEW i \in DOMAIN SubSeq(s, n + 1, Len(s))
  PROVE  n + i \in DOMAIN s /\ SubSeq(s, n + 1, Len(s))[i] = s[n + i]
<1>1. /\ SubSeq(s, n + 1, Len(s)) \in Seq(S)
      /\ Len(SubSeq(s, n + 1, Len(s))) = Len(s) - n
      /\ \A k \in 1 .. Len(s) - n : SubSeq(s, n + 1, Len(s))[k] = s[n + k]
  BY TailElements
<1>2. i \in 1 .. Len(s) - n
  BY <1>1
<1> QED
  BY <1>1, <1>2

LEMMA RequestsOfferedStep ==
  ASSUME BaseInv, FlowInv, [Next]_vars
  PROVE  RequestsOffered'
<1>0. toMedia \in Seq(MediaRequest) /\ controlLog \in Seq([stream : Streams, request : ControlRequest])
  BY DEF BaseInv, FlowTypes
<1> SUFFICES ASSUME NEW i \in DOMAIN toMedia', NEW ch \in Channels,
                    NEW offer \in StreamCounts \cup {0},
                    toMedia'[i] = [method |-> "ALLOCATE", callbackId |-> ch, offer |-> offer]
             PROVE  Offered(ch, offer)' /\ Asked(ch)'
  BY DEF RequestsOffered
<1>1. ASSUME NEW j \in DOMAIN toMedia, toMedia[j] = toMedia'[i]
      PROVE  Offered(ch, offer)' /\ Asked(ch)'
  BY <1>1, OfferedStays, AskedStays DEF FlowInv, RequestsOffered
<1>2. ASSUME NEW stream \in Streams, NEW request \in ControlRequest, ControlReceive(stream, request)
      PROVE  Offered(ch, offer)' /\ Asked(ch)'
  <2>1. toMedia' = toMedia \o MediaRequestsFor(request)
    BY <1>2 DEF ControlReceive
  <2>2. CASE i \in DOMAIN toMedia /\ toMedia'[i] = toMedia[i]
    BY <1>1, <2>2
  <2>3. CASE request.method = "CALL_ANSWER" /\ toMedia'[i] = Allocation(request.channelId)
    <3>1. ch = request.channelId /\ offer = OfferOn(ch)
      BY <2>3 DEF Allocation
    <3>2. Offered(ch, offer)
      BY <3>1 DEF Offered, OfferOn, Sip!MediaOffer
    <3>3. Asked(ch)'
      <4> DEFINE entry == [stream |-> stream, request |-> request]
      <4>1. controlLog' = Append(controlLog, entry) /\ entry.request = request
        BY <1>2 DEF ControlReceive
      <4> HIDE DEF entry
      <4>2. Len(controlLog) + 1 \in DOMAIN controlLog' /\ controlLog'[Len(controlLog) + 1] = entry
        BY <1>0, <4>1
      <4> QED
        BY <2>3, <3>1, <4>1, <4>2 DEF Asked, Requested
    <3> QED
      BY <3>2, <3>3, OfferedStays
  <2>4. CASE request.method \in {"RECORD_START", "RECORD_STOP"} /\ toMedia'[i].method = request.method
    BY <2>4
  <2>5. \/ i \in DOMAIN toMedia /\ toMedia'[i] = toMedia[i]
        \/ request.method = "CALL_ANSWER" /\ toMedia'[i] = Allocation(request.channelId)
        \/ request.method \in {"RECORD_START", "RECORD_STOP"} /\ toMedia'[i].method = request.method
    <3>1. MediaRequestsFor(request) \in Seq(MediaRequest)
      BY MediaRequestsType
    <3>2. \/ i \in DOMAIN toMedia /\ toMedia'[i] = toMedia[i]
          \/ i - Len(toMedia) \in DOMAIN MediaRequestsFor(request)
             /\ toMedia'[i] = MediaRequestsFor(request)[i - Len(toMedia)]
      BY <1>0, <2>1, <3>1
    <3> QED
      BY <3>2 DEF MediaRequestsFor
  <2> QED
    BY <2>2, <2>3, <2>4, <2>5
<1>3. ASSUME NEW arrived \in 1 .. Len(toMedia), MediaRequestReceive(arrived)
      PROVE  Offered(ch, offer)' /\ Asked(ch)'
  <2>1. toMedia' = SubSeq(toMedia, arrived + 1, Len(toMedia))
    BY <1>3 DEF MediaRequestReceive
  <2> QED
    BY <1>0, <1>1, <2>1, TakenOff
<1>4. CASE UNCHANGED toMedia
  BY <1>1, <1>4
<1> QED
  BY <1>2, <1>3, <1>4 DEF Next, SipReceive, ControlClose, MediaResponseReceive, vars

LEMMA AllocationTypes ==
  ASSUME BaseInv, NEW k \in DOMAIN allocations
  PROVE  allocations[k].channelId \in Channels /\ allocations[k].offer \in StreamCounts \cup {0}
<1>1. allocations[k] \in [channelId : Channels, offer : StreamCounts \cup {0},
                          sessionId : Media!SessionIds]
  BY ElementType DEF BaseInv, FlowTypes
<1> QED
  BY <1>1

\* What an allocation adds.
LEMMA AllocationEffects ==
  ASSUME BaseInv, NEW arrived \in 1 .. Len(toMedia), MediaRequestReceive(arrived),
         Head(toMedia).method = "ALLOCATE"
  PROVE  /\ allocations' = Append(allocations,
              [channelId |-> Head(toMedia).callbackId, offer |-> Head(toMedia).offer,
               sessionId |-> nextSessionId])
         /\ fromMedia' = Append(fromMedia,
              [method |-> "ALLOCATE", callbackId |-> Head(toMedia).callbackId,
               resourceId |-> nextSessionId, answer |-> nextSessionId])
         /\ nextSessionId \in Media!SessionIds
         /\ Head(toMedia) = [method |-> "ALLOCATE", callbackId |-> Head(toMedia).callbackId,
                             offer |-> Head(toMedia).offer]
<1>1. Media!SessionFor(NoCallId) = nextSessionId /\ nextSessionId \in Media!SessionIds
  BY MediaTypes DEF BaseInv
<1>2. Head(toMedia) \in MediaRequest
  BY RequestTypes
<1>3. Head(toMedia) = [method |-> "ALLOCATE", callbackId |-> Head(toMedia).callbackId,
                       offer |-> Head(toMedia).offer]
  BY <1>2 DEF MediaRequest
<1> QED
  BY <1>1, <1>3 DEF MediaRequestReceive

LEMMA AllocationsOfferedStep ==
  ASSUME BaseInv, FlowInv, [Next]_vars
  PROVE  AllocationsOffered'
<1>0. allocations \in Seq([channelId : Channels, offer : StreamCounts \cup {0},
                           sessionId : Media!SessionIds])
  BY DEF BaseInv, FlowTypes
<1> SUFFICES ASSUME NEW k \in DOMAIN allocations', NEW ch \in Channels,
                    NEW offer \in StreamCounts \cup {0},
                    allocations'[k].channelId = ch, allocations'[k].offer = offer
             PROVE  Offered(ch, offer)' /\ Asked(ch)'
  BY DEF AllocationsOffered
<1>1. ASSUME k \in DOMAIN allocations, allocations[k] = allocations'[k]
      PROVE  Offered(ch, offer)' /\ Asked(ch)'
  BY <1>1, OfferedStays, AskedStays DEF FlowInv, AllocationsOffered
<1>2. ASSUME NEW arrived \in 1 .. Len(toMedia), MediaRequestReceive(arrived)
      PROVE  Offered(ch, offer)' /\ Asked(ch)'
  <2>1. CASE Head(toMedia).method = "ALLOCATE"
    <3> DEFINE made == [channelId |-> Head(toMedia).callbackId, offer |-> Head(toMedia).offer,
                        sessionId |-> nextSessionId]
    <3>1. CASE k \in DOMAIN allocations /\ allocations'[k] = allocations[k]
      BY <1>1, <3>1
    <3>2. CASE allocations'[k] = made
      <4>1. Head(toMedia) = [method |-> "ALLOCATE", callbackId |-> ch, offer |-> offer]
        BY <1>2, <2>1, <3>2, AllocationEffects
      <4>2. 1 \in DOMAIN toMedia /\ Head(toMedia) = toMedia[1]
        BY <1>2, RequestTypes DEF BaseInv, FlowTypes
      <4> QED
        BY <4>1, <4>2, OfferedStays, AskedStays DEF FlowInv, RequestsOffered
    <3>3. allocations' = Append(allocations, made)
      BY <1>2, <2>1, AllocationEffects
    <3> HIDE DEF made
    <3> QED
      BY <1>0, <3>1, <3>2, <3>3, Appended
  <2>2. CASE Head(toMedia).method # "ALLOCATE"
    BY <1>1, <1>2, <2>2 DEF MediaRequestReceive
  <2> QED
    BY <2>1, <2>2
<1>3. CASE UNCHANGED allocations
  BY <1>1, <1>3
<1> QED
  BY <1>2, <1>3 DEF Next, SipReceive, ControlReceive, ControlClose, MediaResponseReceive, vars

LEMMA ResponsesAllocatedStep ==
  ASSUME BaseInv, FlowInv, [Next]_vars
  PROVE  ResponsesAllocated'
<1>0. /\ fromMedia \in Seq(MediaResponse)
      /\ allocations \in Seq([channelId : Channels, offer : StreamCounts \cup {0},
                              sessionId : Media!SessionIds])
  BY DEF BaseInv, FlowTypes
<1> SUFFICES ASSUME NEW i \in DOMAIN fromMedia', NEW ch \in Channels, NEW id \in Media!SessionIds,
                    fromMedia'[i].method = "ALLOCATE", fromMedia'[i].callbackId = ch,
                    id \in {fromMedia'[i].resourceId, fromMedia'[i].answer}
             PROVE  AllocatedFor(ch, id)'
  BY DEF ResponsesAllocated
<1>1. ASSUME NEW j \in DOMAIN fromMedia, fromMedia[j] = fromMedia'[i]
      PROVE  AllocatedFor(ch, id)'
  BY <1>1, AllocatedForStays DEF FlowInv, ResponsesAllocated
<1>2. ASSUME NEW arrived \in 1 .. Len(toMedia), MediaRequestReceive(arrived)
      PROVE  AllocatedFor(ch, id)'
  <2>1. CASE Head(toMedia).method = "ALLOCATE"
    <3> DEFINE made == [channelId |-> Head(toMedia).callbackId, offer |-> Head(toMedia).offer,
                        sessionId |-> nextSessionId]
               sent == [method |-> "ALLOCATE", callbackId |-> Head(toMedia).callbackId,
                        resourceId |-> nextSessionId, answer |-> nextSessionId]
    <3>1. CASE i \in DOMAIN fromMedia /\ fromMedia'[i] = fromMedia[i]
      BY <1>1, <3>1
    <3>2. CASE fromMedia'[i] = sent
      <4>1. made.channelId = ch /\ made.sessionId = id
        BY <3>2
      <4>2. allocations' = Append(allocations, made)
        BY <1>2, <2>1, AllocationEffects
      <4> HIDE DEF made
      <4>3. Len(allocations) + 1 \in DOMAIN allocations' /\ allocations'[Len(allocations) + 1] = made
        BY <1>0, <4>2
      <4> QED
        BY <4>1, <4>3 DEF AllocatedFor
    <3>3. fromMedia' = Append(fromMedia, sent)
      BY <1>2, <2>1, AllocationEffects
    <3> HIDE DEF made, sent
    <3> QED
      BY <1>0, <3>1, <3>2, <3>3, Appended
  <2>2. CASE Head(toMedia).method # "ALLOCATE"
    <3> DEFINE request == Head(toMedia)
    <3>1. fromMedia' = Append(fromMedia, request)
      BY <1>2, <2>2 DEF MediaRequestReceive
    <3>2. fromMedia'[i] # request
      BY <2>2
    <3> HIDE DEF request
    <3> QED
      BY <1>0, <1>1, <3>1, <3>2, Appended
  <2> QED
    BY <2>1, <2>2
<1>3. ASSUME NEW arrived \in 1 .. Len(fromMedia), MediaResponseReceive(arrived)
      PROVE  AllocatedFor(ch, id)'
  <2>1. fromMedia' = SubSeq(fromMedia, arrived + 1, Len(fromMedia))
    BY <1>3 DEF MediaResponseReceive
  <2> QED
    BY <1>0, <1>1, <2>1, TakenOff
<1>4. CASE UNCHANGED fromMedia
  BY <1>1, <1>4
<1> QED
  BY <1>2, <1>3, <1>4 DEF Next, SipReceive, ControlReceive, ControlClose, vars

\* The response at the head of the queue names a session of its channel.
LEMMA HeadAllocated ==
  ASSUME BaseInv, FlowInv, NEW arrived \in 1 .. Len(fromMedia),
         Head(fromMedia).method = "ALLOCATE"
  PROVE  LET response == Head(fromMedia) IN
         /\ AllocatedFor(response.callbackId, response.answer)
         /\ AllocatedFor(response.callbackId, response.resourceId)
<1>1. 1 \in DOMAIN fromMedia /\ Head(fromMedia) = fromMedia[1]
  BY ResponseTypes DEF BaseInv, FlowTypes
<1> QED
  BY <1>1, ResponseTypes DEF FlowInv, ResponsesAllocated

LEMMA AnswersAllocatedStep ==
  ASSUME BaseInv, FlowInv, [Next]_vars
  PROVE  AnswersAllocated'
<1> SUFFICES ASSUME NEW c \in CallIds, NEW i \in DOMAIN responses'[c],
                    Sip!IsAnswer(responses'[c][i])
             PROVE  /\ callIdToDialogueMap'[c] # NoDialogue
                    /\ \A ch \in Channels, id \in Media!SessionIds :
                         ch = callIdToDialogueMap'[c].channelId /\ id = responses'[c][i].sdp =>
                           channelToDialogueMap'[ch] = c /\ AllocatedFor(ch, id)'
  BY DEF AnswersAllocated, Sip!HasDialogue, Sip!IsAnswer
<1>0. responses[c] \in Seq(Sip!Response) /\ NoDialogue \notin CallIds
  BY SipTypes DEF BaseInv
<1>1. CASE i \in DOMAIN responses[c] /\ responses'[c][i] = responses[c][i]
  <2>1. /\ Sip!HasDialogue(c)
        /\ \A ch \in Channels, id \in Media!SessionIds :
             ch = callIdToDialogueMap[c].channelId /\ id = responses[c][i].sdp =>
               channelToDialogueMap[ch] = c /\ AllocatedFor(ch, id)
    BY <1>1 DEF FlowInv, AnswersAllocated
  <2>2. callIdToDialogueMap'[c] # NoDialogue
        /\ callIdToDialogueMap'[c].channelId = callIdToDialogueMap[c].channelId
    BY <2>1, DialoguesStay
  <2>3. ASSUME NEW ch \in Channels, NEW id \in Media!SessionIds,
               ch = callIdToDialogueMap'[c].channelId, id = responses'[c][i].sdp
        PROVE  channelToDialogueMap'[ch] = c /\ AllocatedFor(ch, id)'
    <3>1. channelToDialogueMap[ch] = c /\ AllocatedFor(ch, id)
      BY <1>1, <2>1, <2>2, <2>3
    <3> QED
      BY <1>0, <3>1, ChannelsStay, AllocatedForStays
  <2> QED
    BY <2>2, <2>3
<1>2. ASSUME NEW response \in Sip!Response, ~Sip!IsAnswer(response),
             responses'[c] = Append(responses[c], response)
      PROVE  i \in DOMAIN responses[c] /\ responses'[c][i] = responses[c][i]
  <2>1. responses'[c][i] # response
    BY <1>2 DEF Sip!IsAnswer
  <2> QED
    BY <1>0, <1>2, <2>1, Appended
<1>3. ASSUME NEW arrived \in 1 .. Len(fromMedia), MediaResponseReceive(arrived),
             Head(fromMedia).method = "ALLOCATE",
             c = channelToDialogueMap[Head(fromMedia).callbackId],
             responses'[c][i] = AnswerTo(c, Head(fromMedia).answer)
      PROVE  /\ callIdToDialogueMap'[c] # NoDialogue
             /\ \A ch \in Channels, id \in Media!SessionIds :
                  ch = callIdToDialogueMap'[c].channelId /\ id = responses'[c][i].sdp =>
                    channelToDialogueMap'[ch] = c /\ AllocatedFor(ch, id)'
  <2>1. /\ Head(fromMedia).callbackId \in Channels
        /\ AllocatedFor(Head(fromMedia).callbackId, Head(fromMedia).answer)
    BY <1>3, ResponseTypes, HeadAllocated
  <2>2. Sip!HasDialogue(c) /\ callIdToDialogueMap[c].channelId = Head(fromMedia).callbackId
    <3>1. c # NoDialogue
      BY <1>0
    <3> QED
      BY <1>3, <2>1, <3>1, SipTypes, SameSip DEF BaseInv, FlowInv, SipP!MapsAgree, Channels
  <2>3. UNCHANGED <<callIdToDialogueMap, channelToDialogueMap>>
    BY <1>3, MediaResponseEffects
  <2>4. responses'[c][i].sdp = Head(fromMedia).answer
    BY <1>3 DEF AnswerTo
  <2>5. ASSUME NEW ch \in Channels, NEW id \in Media!SessionIds,
               ch = callIdToDialogueMap'[c].channelId, id = responses'[c][i].sdp
        PROVE  channelToDialogueMap'[ch] = c /\ AllocatedFor(ch, id)'
    <3>1. ch = Head(fromMedia).callbackId /\ id = Head(fromMedia).answer
      BY <2>2, <2>3, <2>4, <2>5
    <3> QED
      BY <1>3, <2>1, <2>3, <3>1, AllocatedForStays
  <2> QED
    BY <2>2, <2>3, <2>5 DEF Sip!HasDialogue
<1>4. CASE responses'[c] = responses[c]
  BY <1>1, <1>4
<1> QED
  BY <1>0, <1>1, <1>2, <1>3, <1>4, ResponsesGrow, Appended

\* A call that was answered stays so.
LEMMA SomeAnswerStays ==
  ASSUME BaseInv, [Next]_vars, NEW c \in CallIds, SomeAnswer(c)
  PROVE  SomeAnswer(c)'
<1>0. responses[c] \in Seq(Sip!Response)
  BY SipTypes DEF BaseInv
<1>1. PICK i \in DOMAIN responses[c] : Sip!IsAnswer(responses[c][i])
  BY DEF SomeAnswer
<1>2. responses'[c] = responses[c] \/ \E x : responses'[c] = Append(responses[c], x)
  BY ResponsesGrow
<1>3. i \in DOMAIN responses'[c] /\ responses'[c][i] = responses[c][i]
  BY <1>0, <1>2
<1> QED
  BY <1>1, <1>3 DEF SomeAnswer, Sip!IsAnswer

LEMMA ResourceAllocatedStep ==
  ASSUME BaseInv, FlowInv, [Next]_vars
  PROVE  ResourceAllocated'
<1> DEFINE Goal == \E k \in DOMAIN allocations' : allocations'[k].sessionId = theresourceId'
<1> SUFFICES ASSUME NEW c \in CallIds, SomeAnswer(c)' PROVE Goal
  BY DEF ResourceAllocated
<1>1. ASSUME NEW k \in DOMAIN allocations, allocations[k].sessionId = theresourceId' PROVE Goal
  BY <1>1, LogsGrow
<1>2. ASSUME NEW arrived \in 1 .. Len(fromMedia), MediaResponseReceive(arrived),
             Head(fromMedia).method = "ALLOCATE"
      PROVE  Goal
  BY <1>1, <1>2, HeadAllocated, MediaResponseEffects DEF AllocatedFor
<1>3. ASSUME ~ \E arrived \in 1 .. Len(fromMedia) :
                 MediaResponseReceive(arrived) /\ Head(fromMedia).method = "ALLOCATE"
      PROVE  Goal
  <2>1. theresourceId' = theresourceId
    <3>1. ASSUME NEW arrived \in 1 .. Len(fromMedia), MediaResponseReceive(arrived)
          PROVE  theresourceId' = theresourceId
      BY <1>3, <3>1, MediaResponseEffects
    <3> QED
      BY <3>1 DEF Next, SipReceive, ControlReceive, ControlClose, MediaRequestReceive, vars
  <2>2. SomeAnswer(c)
    <3>0. responses[c] \in Seq(Sip!Response)
      BY SipTypes DEF BaseInv
    <3>1. PICK i \in DOMAIN responses'[c] : Sip!IsAnswer(responses'[c][i])
      BY DEF SomeAnswer, Sip!IsAnswer
    <3>2. CASE responses'[c] = responses[c]
      BY <3>1, <3>2 DEF SomeAnswer
    <3>3. ASSUME NEW response \in Sip!Response, ~Sip!IsAnswer(response),
                 responses'[c] = Append(responses[c], response)
          PROVE  SomeAnswer(c)
      <4>1. responses'[c][i] # response
        BY <3>1, <3>3
      <4>2. i \in DOMAIN responses[c] /\ responses'[c][i] = responses[c][i]
        BY <3>0, <3>3, <4>1, Appended
      <4> QED
        BY <3>1, <4>2 DEF SomeAnswer
    <3> QED
      BY <1>3, <3>2, <3>3, ResponsesGrow
  <2> QED
    BY <1>1, <2>1, <2>2 DEF FlowInv, ResourceAllocated
<1> QED
  BY <1>2, <1>3

LEMMA ConnectedAnsweredStep ==
  ASSUME BaseInv, FlowInv, [Next]_vars
  PROVE  ConnectedAnswered'
<1> SUFFICES ASSUME NEW c \in CallIds, callIdToDialogueMap'[c] # NoDialogue,
                    callIdToDialogueMap'[c].state = "CONNECTED"
             PROVE  SomeAnswer(c)'
  BY DEF ConnectedAnswered, Sip!StateIs, Sip!HasDialogue
<1>1. CASE Sip!StateIs(c, "CONNECTED")
  BY <1>1, SomeAnswerStays DEF FlowInv, ConnectedAnswered
<1>2. ASSUME NEW r \in Sip!Request, SipReceive(r), c = r.callId, r.method = "ACK"
      PROVE  SomeAnswer(c)'
  <2>1. SomeAnswer(c)
    BY <1>2 DEF SipReceive, CanArrive, Answered, SomeAnswer
  <2> QED
    BY <2>1, SomeAnswerStays
<1>3. ASSUME NEW r \in Sip!Request, SipReceive(r) PROVE SomeAnswer(c)'
  BY <1>1, <1>2, <1>3, ReceiveEffects
<1>4. CASE callIdToDialogueMap' = callIdToDialogueMap
  BY <1>1, <1>4 DEF Sip!StateIs, Sip!HasDialogue
<1> QED
  BY <1>3, <1>4, MediaResponseEffects
  DEF Next, ControlReceive, ControlClose, MediaRequestReceive, vars, sipVars

LEMMA NoneRecordingStep ==
  ASSUME BaseInv, FlowInv, [Next]_vars
  PROVE  NoneRecording'
<1> SUFFICES ASSUME NEW c \in CallIds, callIdToDialogueMap'[c] # NoDialogue
             PROVE  ~callIdToDialogueMap'[c].recording
  BY DEF NoneRecording, Sip!HasDialogue
<1>1. Sip!HasDialogue(c) => ~callIdToDialogueMap[c].recording
  BY DEF FlowInv, NoneRecording
<1>2. ASSUME NEW r \in Sip!Request, SipReceive(r) PROVE ~callIdToDialogueMap'[c].recording
  BY <1>1, <1>2, ReceiveEffects
<1>3. CASE callIdToDialogueMap' = callIdToDialogueMap
  BY <1>1, <1>3 DEF Sip!HasDialogue
<1> QED
  BY <1>2, <1>3, MediaResponseEffects
  DEF Next, ControlReceive, ControlClose, MediaRequestReceive, vars, sipVars

\* What is raised on a call by a request: one event at most, as no call is
\* being recorded.
RaisedOne(r, c, event, type) ==
  /\ c = r.callId /\ event.type = type
  /\ events'[c] = Append(events[c], event)
  /\ callIdToDialogueMap'[c] # NoDialogue
  /\ event.channelId = callIdToDialogueMap'[c].channelId

LEMMA EventsGrow ==
  ASSUME BaseInv, FlowInv, [Next]_vars, NEW r \in Sip!Request, SipReceive(r), NEW c \in CallIds
  PROVE  \/ events'[c] = events[c]
         \/ \E event \in Sip!Event :
              \/ RaisedOne(r, c, event, "NEWCALL")
              \/ RaisedOne(r, c, event, "CALLCLEARED")
              \/ /\ RaisedOne(r, c, event, "CALLANSWERED")
                 /\ r.method = "ACK" /\ Sip!HasDialogue(c)
                 /\ event.channelId = callIdToDialogueMap[c].channelId
<1>0. events[c] \in Seq(Sip!Event)
  BY SipTypes DEF BaseInv
<1>1. CASE SipP!Announced(r, c)
  BY <1>1, SameSip DEF SipP!Announced, SipP!HasDialogue, RaisedOne
<1>2. CASE SipP!Acknowledged(r, c)
  <2>1. Sip!HasDialogue(c)
    BY <1>2 DEF SipP!Acknowledged, SipP!HasDialogue, Sip!HasDialogue
  <2> QED
    BY <1>2, <2>1, SameSip, DialoguesStay DEF SipP!Acknowledged, RaisedOne
<1>3. CASE SipP!Ended(r, c)
  <2>1. PICK event \in Sip!Event, garbage \in Channels :
          /\ c = r.callId /\ Sip!HasDialogue(c)
          /\ event.type = "CALLCLEARED" /\ event.channelId = callIdToDialogueMap[c].channelId
          /\ events'[c] = events[c] \o Append(SipP!RecordingEvents(c, garbage), event)
    BY <1>3, SameSip DEF SipP!Ended, SipP!HasDialogue, Sip!HasDialogue, Channels
  <2>2. SipP!RecordingEvents(c, garbage) = <<>>
    BY <2>1 DEF SipP!RecordingEvents, FlowInv, NoneRecording
  <2>3. events'[c] = Append(events[c], event)
    BY <1>0, <2>1, <2>2
  <2> QED
    BY <2>1, <2>3, DialoguesStay DEF RaisedOne
<1> QED
  BY <1>1, <1>2, <1>3, ReceiveEffects DEF SipP!Subscribed, SipP!Unheard

LEMMA ConnectedOnlyOnRequestStep ==
  ASSUME BaseInv, FlowInv, [Next]_vars
  PROVE  ConnectedOnlyOnRequest'
<1> SUFFICES ASSUME NEW c \in CallIds, NEW i \in DOMAIN events'[c], NEW ch,
                    events'[c][i].type = "CALLANSWERED", ch = events'[c][i].channelId
             PROVE  Asked(ch)'
  BY DEF ConnectedOnlyOnRequest, Asked, Requested
<1>0. events[c] \in Seq(Sip!Event)
  BY SipTypes DEF BaseInv
<1>1. ASSUME i \in DOMAIN events[c], events'[c][i] = events[c][i] PROVE Asked(ch)'
  BY <1>1, AskedStays DEF FlowInv, ConnectedOnlyOnRequest, Asked
<1>2. ASSUME NEW r \in Sip!Request, SipReceive(r), r.method = "ACK", c = r.callId,
             Sip!HasDialogue(c), ch = callIdToDialogueMap[c].channelId
      PROVE  Asked(ch)'
  <2>1. PICK j \in DOMAIN responses[c] : Sip!IsAnswer(responses[c][j])
    BY <1>2 DEF SipReceive, CanArrive, Answered
  <2>2. responses[c][j] \in Sip!Response /\ callIdToDialogueMap[c] \in Sip!Dialogue
    BY <1>2, SipTypes DEF BaseInv
  <2>3. ch \in Channels /\ responses[c][j].sdp \in Media!SessionIds
    BY <1>2, <2>1, <2>2 DEF Sip!Dialogue, Channels, Sip!Response, Sip!IsAnswer
  <2>4. PICK k \in DOMAIN allocations : allocations[k].channelId = ch
    BY <1>2, <2>1, <2>3 DEF FlowInv, AnswersAllocated, AllocatedFor
  <2>5. allocations[k].offer \in StreamCounts \cup {0}
    BY AllocationTypes
  <2>6. Asked(ch)
    BY <2>3, <2>4, <2>5 DEF FlowInv, AllocationsOffered
  <2> QED
    BY <2>6, AskedStays
<1>3. ASSUME NEW r \in Sip!Request, SipReceive(r) PROVE Asked(ch)'
  <2>1. CASE events'[c] = events[c]
    BY <1>1, <2>1
  <2>2. ASSUME NEW event \in Sip!Event, events'[c] = Append(events[c], event),
               event.type = "CALLANSWERED" =>
                 /\ c = r.callId /\ r.method = "ACK" /\ Sip!HasDialogue(c)
                 /\ event.channelId = callIdToDialogueMap[c].channelId
        PROVE  Asked(ch)'
    <3>1. CASE events'[c][i] = event
      BY <1>2, <1>3, <2>2, <3>1
    <3> QED
      BY <1>0, <1>1, <2>2, <3>1, Appended
  <2> QED
    BY <1>3, <2>1, <2>2, EventsGrow DEF RaisedOne
<1>4. CASE events' = events
  BY <1>1, <1>4
<1> QED
  BY <1>3, <1>4, MediaResponseEffects
  DEF Next, ControlReceive, ControlClose, MediaRequestReceive, vars, sipVars

LEMMA FlowInit == Init => FlowInv
<1> SUFFICES ASSUME Init PROVE FlowInv
  OBVIOUS
<1>1. /\ Sip!Init /\ SipP!Init
      /\ toMedia = <<>> /\ fromMedia = <<>> /\ allocations = <<>>
  BY SameSip DEF Init
<1>2. \A c \in CallIds : callIdToDialogueMap[c] = NoDialogue /\ events[c] = <<>> /\ responses[c] = <<>>
  BY <1>1 DEF Sip!Init
<1>3. SipP!MapsAgree
  BY <1>1, SipP!MapsAgreeInit, SipAssumption, SameSip
<1> QED
  BY <1>1, <1>2, <1>3
  DEF FlowInv, NoneRecording, RequestsOffered, AllocationsOffered, ResponsesAllocated,
      AnswersAllocated, ResourceAllocated, SomeAnswer, ConnectedAnswered, ConnectedOnlyOnRequest,
      Sip!HasDialogue, Sip!StateIs

LEMMA FlowStep == BaseInv /\ FlowInv /\ [Next]_vars => FlowInv'
<1> SUFFICES ASSUME BaseInv, FlowInv, [Next]_vars PROVE FlowInv'
  OBVIOUS
<1>1. SipP!MapsAgree'
  BY StepOfSip, SipP!MapsAgreeStep, SipAssumption, SameSip
  DEF BaseInv, SipInv, SipP!ProtocolInv, FlowInv
<1> QED
  BY <1>1, NoneRecordingStep, RequestsOfferedStep, AllocationsOfferedStep,
     ResponsesAllocatedStep, AnswersAllocatedStep, ResourceAllocatedStep, ConnectedAnsweredStep,
     ConnectedOnlyOnRequestStep
  DEF FlowInv

LEMMA FlowInvariance == Spec => [](BaseInv /\ FlowInv)
BY FlowInit, FlowStep, BaseInit, BaseStep, PTL DEF Spec

\* The answer a caller gets describes a session that was allocated for that very
\* call and its offer (AnswersCarryOwnSession), however requests, responses and
\* controllers' commands are interleaved, lost or repeated.
THEOREM OwnSessions == Spec => []AnswersCarryOwnSession
<1>1. BaseInv /\ FlowInv => AnswersCarryOwnSession
  <2> SUFFICES ASSUME BaseInv, FlowInv, NEW c \in CallIds, NEW i \in DOMAIN responses[c],
                      Sip!IsAnswer(responses[c][i])
               PROVE  \E k \in DOMAIN allocations :
                        /\ allocations[k].sessionId = responses[c][i].sdp
                        /\ allocations[k].channelId = callIdToDialogueMap[c].channelId
                        /\ allocations[k].offer \in {0, callIdToDialogueMap[c].transaction.sdpOffer}
    BY DEF AnswersCarryOwnSession
  <2> DEFINE ch == callIdToDialogueMap[c].channelId
             id == responses[c][i].sdp
  <2>1. responses[c][i] \in Sip!Response /\ Sip!HasDialogue(c)
    BY SipTypes DEF BaseInv, FlowInv, AnswersAllocated
  <2>2. ch \in Channels /\ id \in Media!SessionIds
    BY <2>1, SipTypes DEF BaseInv, Sip!Dialogue, Channels, Sip!Response, Sip!IsAnswer
  <2>3. channelToDialogueMap[ch] = c /\ AllocatedFor(ch, id)
    BY <2>2 DEF FlowInv, AnswersAllocated
  <2>4. PICK k \in DOMAIN allocations : allocations[k].channelId = ch /\ allocations[k].sessionId = id
    BY <2>3 DEF AllocatedFor
  <2>5. allocations[k].offer \in StreamCounts \cup {0}
    BY AllocationTypes
  <2>6. Offered(ch, allocations[k].offer)
    BY <2>2, <2>4, <2>5 DEF FlowInv, AllocationsOffered
  <2> QED
    BY <2>3, <2>4, <2>6 DEF Offered
<1> QED
  BY <1>1, FlowInvariance, PTL

\* No call is reported connected that no controller asked to answer
\* (ConnectedOnlyOnRequest).
THEOREM ConnectedByRequest == Spec => []ConnectedOnlyOnRequest
<1>1. BaseInv /\ FlowInv => ConnectedOnlyOnRequest
  BY DEF FlowInv
<1> QED
  BY <1>1, FlowInvariance, PTL

\* While sessions were allocated for one channel only, a recording asked for on
\* that channel, once it is connected, names one of them
\* (RecordingsNameOwnSession).
THEOREM RecordingsOwnSession == Spec => RecordingsNameOwnSession
<1> DEFINE posted == toMedia'[Len(toMedia')]
           A == (/\ Len(toMedia') > Len(toMedia)
                 /\ posted.method # "ALLOCATE"
                 /\ Connected(posted.callbackId)
                 /\ \A k \in DOMAIN allocations : allocations[k].channelId = posted.callbackId)
                  => \E k \in DOMAIN allocations : allocations[k].sessionId = posted.resourceId
<1>1. BaseInv /\ FlowInv /\ [Next]_vars => [A]_vars
  <2> SUFFICES ASSUME BaseInv, FlowInv, Next, Len(toMedia') > Len(toMedia),
                      posted.method # "ALLOCATE", Connected(posted.callbackId)
               PROVE  \E k \in DOMAIN allocations : allocations[k].sessionId = posted.resourceId
    OBVIOUS
  <2>1. toMedia \in Seq(MediaRequest)
    BY DEF BaseInv, FlowTypes
  <2>2. PICK stream \in Streams, request \in ControlRequest : ControlReceive(stream, request)
    <3>1. ASSUME NEW arrived \in 1 .. Len(toMedia), MediaRequestReceive(arrived) PROVE FALSE
      BY <2>1, <3>1, TailElements DEF MediaRequestReceive
    <3> QED
      BY <2>1, <3>1 DEF Next, SipReceive, ControlClose, MediaResponseReceive
  <2>3. toMedia' = toMedia \o MediaRequestsFor(request)
        /\ MediaRequestsFor(request) \in Seq(MediaRequest)
    BY <2>2, MediaRequestsType DEF ControlReceive
  <2>4. posted.resourceId = theresourceId
    <3>1. MediaRequestsFor(request) # <<>>
      BY <2>1, <2>3
    <3>2. posted = MediaRequestsFor(request)[1]
      BY <2>1, <2>3, <3>1 DEF MediaRequestsFor
    <3> QED
      BY <3>1, <3>2 DEF MediaRequestsFor, Allocation
  <2>5. \E c \in CallIds : SomeAnswer(c)
    <3>1. \E c \in CallIds : Sip!StateIs(c, "CONNECTED")
      <4>1. posted \in MediaRequest
        BY <2>1, <2>3
      <4>2. posted.callbackId \in Channels
        BY <4>1 DEF MediaRequest
      <4> QED
        BY <4>2, SipTypes DEF Connected, BaseInv
    <3> QED
      BY <3>1 DEF FlowInv, ConnectedAnswered
  <2> QED
    BY <2>4, <2>5 DEF FlowInv, ResourceAllocated
<1> QED
  BY <1>1, FlowInvariance, PTL DEF Spec, RecordingsNameOwnSession

-----------------------------------------------------------------------------
(* Counting requests and their outcomes *)

\* How often a queue holds a message, a log a request, and the connections a
\* notification.
WaitingIn(queue, method, ch) ==
  Cardinality({i \in DOMAIN queue : queue[i].method = method /\ queue[i].callbackId = ch})

RequestedIn(log, method, ch) ==
  Cardinality({i \in DOMAIN log : /\ log[i].request.method = method
                                  /\ log[i].request.channelId = ch})

NotifiedIn(ns, type, ch) ==
  {place \in UNION {{s} \X DOMAIN ns[s] : s \in Streams} :
     ns[place[1]][place[2]] = [type |-> type, channelId |-> ch]}

LEMMA WaitingIsPlaces ==
  ASSUME NEW S, NEW queue \in Seq(S), NEW method, NEW ch
  PROVE  WaitingIn(queue, method, ch)
           = Cardinality(Places(queue, {x \in S : x.method = method /\ x.callbackId = ch}))
<1>1. \A i \in DOMAIN queue : queue[i] \in S
  OBVIOUS
<1>2. {i \in DOMAIN queue : queue[i].method = method /\ queue[i].callbackId = ch}
        = Places(queue, {x \in S : x.method = method /\ x.callbackId = ch})
  BY <1>1 DEF Places
<1> QED
  BY <1>2 DEF WaitingIn

LEMMA WaitingAppended ==
  ASSUME NEW S, NEW queue \in Seq(S), NEW x \in S, NEW method, NEW ch
  PROVE  /\ WaitingIn(queue, method, ch) \in Nat
         /\ WaitingIn(Append(queue, x), method, ch)
              = WaitingIn(queue, method, ch)
                  + (IF x.method = method /\ x.callbackId = ch THEN 1 ELSE 0)
<1> DEFINE X == {y \in S : y.method = method /\ y.callbackId = ch}
<1>1. Append(queue, x) \in Seq(S) /\ (x \in X <=> x.method = method /\ x.callbackId = ch)
  OBVIOUS
<1>2. /\ WaitingIn(queue, method, ch) = Cardinality(Places(queue, X))
      /\ WaitingIn(Append(queue, x), method, ch) = Cardinality(Places(Append(queue, x), X))
  <2>1. ASSUME NEW q \in Seq(S) PROVE WaitingIn(q, method, ch) = Cardinality(Places(q, X))
    BY WaitingIsPlaces
  <2> HIDE DEF X
  <2> QED
    BY <1>1, <2>1
<1> HIDE DEF X
<1>3. Cardinality(Places(queue, X)) \in Nat
  BY PlacesFinite
<1>4. Cardinality(Places(Append(queue, x), X))
        = Cardinality(Places(queue, X)) + (IF x \in X THEN 1 ELSE 0)
  BY PlacesAppend
<1> QED
  BY <1>1, <1>2, <1>3, <1>4

LEMMA WaitingTaken ==
  ASSUME NEW S, NEW queue \in Seq(S), NEW n \in 1 .. Len(queue), NEW method, NEW ch
  PROVE  /\ WaitingIn(SubSeq(queue, n + 1, Len(queue)), method, ch) \in Nat
         /\ WaitingIn(queue, method, ch) \in Nat
         /\ WaitingIn(SubSeq(queue, n + 1, Len(queue)), method, ch)
              + (IF Head(queue).method = method /\ Head(queue).callbackId = ch THEN 1 ELSE 0)
            <= WaitingIn(queue, method, ch)
<1> DEFINE X == {y \in S : y.method = method /\ y.callbackId = ch}
           rest == SubSeq(queue, n + 1, Len(queue))
<1>1. Head(queue) \in S /\ rest \in Seq(S)
  BY ReadTypes
<1>2. Head(queue) \in X <=> Head(queue).method = method /\ Head(queue).callbackId = ch
  BY <1>1
<1>3. WaitingIn(queue, method, ch) = Cardinality(Places(queue, X))
  BY WaitingIsPlaces
<1>4. WaitingIn(rest, method, ch) = Cardinality(Places(rest, X))
  <2> HIDE DEF rest
  <2> QED
    BY <1>1, WaitingIsPlaces
<1>5. Cardinality(Places(queue, X)) \in Nat /\ Cardinality(Places(rest, X)) \in Nat
  <2> HIDE DEF rest, X
  <2> QED
    BY <1>1, PlacesFinite
<1>6. Cardinality(Places(rest, X)) + (IF Head(queue) \in X THEN 1 ELSE 0)
        <= Cardinality(Places(queue, X))
  <2> HIDE DEF X
  <2> QED
    BY PlacesRest
<1> HIDE DEF X
<1> QED
  BY <1>2, <1>3, <1>4, <1>5, <1>6

LEMMA RequestAppended ==
  ASSUME NEW S, NEW log \in Seq(S), NEW x \in S, NEW method, NEW ch
  PROVE  /\ RequestedIn(log, method, ch) \in Nat
         /\ RequestedIn(Append(log, x), method, ch)
              = RequestedIn(log, method, ch)
                  + (IF x.request.method = method /\ x.request.channelId = ch THEN 1 ELSE 0)
<1> DEFINE X == {y \in S : y.request.method = method /\ y.request.channelId = ch}
<1>1. ASSUME NEW l \in Seq(S) PROVE RequestedIn(l, method, ch) = Cardinality(Places(l, X))
  <2>1. \A i \in DOMAIN l : l[i] \in S
    OBVIOUS
  <2>2. {i \in DOMAIN l : l[i].request.method = method /\ l[i].request.channelId = ch}
          = Places(l, X)
    BY <2>1 DEF Places
  <2> QED
    BY <2>2 DEF RequestedIn
<1>2. /\ Append(log, x) \in Seq(S)
      /\ x \in X <=> x.request.method = method /\ x.request.channelId = ch
  OBVIOUS
<1> HIDE DEF X
<1>3. /\ RequestedIn(log, method, ch) = Cardinality(Places(log, X))
      /\ RequestedIn(Append(log, x), method, ch) = Cardinality(Places(Append(log, x), X))
  BY <1>1, <1>2
<1>4. Cardinality(Places(log, X)) \in Nat
  BY PlacesFinite
<1>5. Cardinality(Places(Append(log, x), X))
        = Cardinality(Places(log, X)) + (IF x \in X THEN 1 ELSE 0)
  BY PlacesAppend
<1> QED
  BY <1>2, <1>3, <1>4, <1>5

\* Where a notification was put.
LEMMA NotifiedPlaces ==
  ASSUME NEW ns, NEW type, NEW ch, NEW place
  PROVE  place \in NotifiedIn(ns, type, ch) <=>
           \E s \in Streams : \E i \in DOMAIN ns[s] :
             place = <<s, i>> /\ ns[s][i] = [type |-> type, channelId |-> ch]
<1>1. ASSUME place \in NotifiedIn(ns, type, ch)
      PROVE  \E s \in Streams : \E i \in DOMAIN ns[s] :
               place = <<s, i>> /\ ns[s][i] = [type |-> type, channelId |-> ch]
  <2>1. PICK s \in Streams : place \in {s} \X DOMAIN ns[s]
    BY <1>1 DEF NotifiedIn
  <2>2. PICK i \in DOMAIN ns[s] : place = <<s, i>>
    BY <2>1
  <2>3. ns[place[1]][place[2]] = [type |-> type, channelId |-> ch]
    BY <1>1 DEF NotifiedIn
  <2> QED
    BY <2>2, <2>3
<1>2. ASSUME NEW s \in Streams, NEW i \in DOMAIN ns[s],
             place = <<s, i>>, ns[s][i] = [type |-> type, channelId |-> ch]
      PROVE  place \in NotifiedIn(ns, type, ch)
  <2>1. place \in {s} \X DOMAIN ns[s] /\ place[1] = s /\ place[2] = i
    BY <1>2
  <2> QED
    BY <1>2, <2>1 DEF NotifiedIn
<1> QED
  BY <1>1, <1>2

\* Posting a notification puts it in one place at most.
LEMMA PostCounts ==
  ASSUME notifications \in [Streams -> Seq(Notification)],
         NEW stream, NEW n \in Notification, Post(stream, <<n>>),
         NEW type, NEW ch, IsFiniteSet(NotifiedIn(notifications, type, ch))
  PROVE  /\ IsFiniteSet(NotifiedIn(notifications', type, ch))
         /\ Cardinality(NotifiedIn(notifications', type, ch))
              <= Cardinality(NotifiedIn(notifications, type, ch))
                   + (IF n = [type |-> type, channelId |-> ch] THEN 1 ELSE 0)
<1> DEFINE before == NotifiedIn(notifications, type, ch)
           after == NotifiedIn(notifications', type, ch)
           place == <<stream, Len(notifications[stream]) + 1>>
<1>0. Cardinality(before) \in Nat
  BY FS_CardinalityType
<1>1. CASE stream \notin Streams \ closed
  <2>1. notifications' = notifications
    BY <1>1 DEF Post
  <2> QED
    BY <1>0, <2>1
<1>2. CASE stream \in Streams \ closed
  <2>1. notifications' = [notifications EXCEPT ![stream] = @ \o <<n>>]
    BY <1>2 DEF Post
  <2>2. \A s \in Streams : s # stream => notifications'[s] = notifications[s]
    BY <2>1
  <2>3. /\ DOMAIN notifications'[stream]
             = DOMAIN notifications[stream] \cup {Len(notifications[stream]) + 1}
        /\ \A i \in DOMAIN notifications[stream] :
             notifications'[stream][i] = notifications[stream][i]
        /\ notifications'[stream][Len(notifications[stream]) + 1] = n
    <3>1. notifications'[stream] = notifications[stream] \o <<n>>
      BY <1>2, <2>1
    <3>2. notifications[stream] \in Seq(Notification)
      BY <1>2
    <3> QED
      BY <3>1, <3>2
  <2>4. \A p \in after :
          p \in before \/ (p = place /\ n = [type |-> type, channelId |-> ch])
    <3> SUFFICES ASSUME NEW p \in after
                 PROVE  p \in before \/ (p = place /\ n = [type |-> type, channelId |-> ch])
      OBVIOUS
    <3>0. PICK s \in Streams : \E i \in DOMAIN notifications'[s] :
            p = <<s, i>> /\ notifications'[s][i] = [type |-> type, channelId |-> ch]
      BY NotifiedPlaces
    <3>1. PICK i \in DOMAIN notifications'[s] :
            p = <<s, i>> /\ notifications'[s][i] = [type |-> type, channelId |-> ch]
      BY <3>0
    <3>2. CASE s = stream /\ i = Len(notifications[stream]) + 1
      BY <2>3, <3>1, <3>2
    <3>3. CASE ~(s = stream /\ i = Len(notifications[stream]) + 1)
      <4>1. i \in DOMAIN notifications[s] /\ notifications'[s][i] = notifications[s][i]
        BY <2>2, <2>3, <3>1, <3>3
      <4> QED
        BY <3>1, <4>1, NotifiedPlaces
    <3> QED
      BY <3>2, <3>3
  <2>5. CASE n = [type |-> type, channelId |-> ch]
    <3>1. after \in SUBSET (before \cup {place})
      BY <2>4
    <3>2. /\ IsFiniteSet(before \cup {place})
          /\ Cardinality(before \cup {place}) <= Cardinality(before) + 1
          /\ Cardinality(before \cup {place}) \in Nat
      <4> HIDE DEF before, place
      <4>1. /\ IsFiniteSet(before \cup {place})
            /\ Cardinality(before \cup {place})
                 = IF place \in before THEN Cardinality(before) ELSE Cardinality(before) + 1
        BY FS_AddElement DEF before
      <4> QED
        BY <1>0, <4>1
    <3>3. IsFiniteSet(after) /\ Cardinality(after) <= Cardinality(before \cup {place})
          /\ Cardinality(after) \in Nat
      <4> HIDE DEF before, after, place
      <4> QED
        BY <3>1, <3>2, FS_Subset, FS_CardinalityType
    <3> QED
      BY <1>0, <2>5, <3>2, <3>3
  <2>6. CASE n # [type |-> type, channelId |-> ch]
    <3>1. after \in SUBSET before
      BY <2>4, <2>6
    <3>2. IsFiniteSet(after) /\ Cardinality(after) <= Cardinality(before)
      <4> HIDE DEF after
      <4> QED
        BY <3>1, FS_Subset
    <3> QED
      BY <1>0, <2>6, <3>2
  <2> QED
    BY <2>5, <2>6
<1> QED
  BY <1>1, <1>2

\* The media request a controller's request leads to is of this method.
MethodAskedBy(method) == IF method = "ALLOCATE" THEN "CALL_ANSWER" ELSE method

WireMethods == {"ALLOCATE", "RECORD_START", "RECORD_STOP"}

InFlight(method, ch) == WaitingIn(toMedia, method, ch) + WaitingIn(fromMedia, method, ch)

AskedFor(method, ch) == RequestedIn(controlLog, MethodAskedBy(method), ch)

LEMMA CountTypes ==
  ASSUME BaseInv, NEW method, NEW ch
  PROVE  /\ WaitingIn(toMedia, method, ch) \in Nat /\ WaitingIn(fromMedia, method, ch) \in Nat
         /\ InFlight(method, ch) \in Nat /\ AskedFor(method, ch) \in Nat
<1>1. ASSUME NEW S, NEW queue \in Seq(S) PROVE WaitingIn(queue, method, ch) \in Nat
  <2> DEFINE X == {x \in S : x.method = method /\ x.callbackId = ch}
  <2>1. WaitingIn(queue, method, ch) = Cardinality(Places(queue, X))
    BY WaitingIsPlaces
  <2> HIDE DEF X
  <2>2. Cardinality(Places(queue, X)) \in Nat
    BY PlacesFinite
  <2> QED
    BY <2>1, <2>2
<1>2. AskedFor(method, ch) \in Nat
  <2>1. IsFiniteSet(DOMAIN controlLog)
    BY FS_Interval DEF BaseInv, FlowTypes
  <2> QED
    BY <2>1, FS_Subset, FS_CardinalityType DEF AskedFor, RequestedIn
<1> QED
  BY <1>1, <1>2 DEF BaseInv, FlowTypes, InFlight

\* What requests and responses on the wire leave of what was asked for becomes
\* no less: a request goes out for one that was made, and becomes one response.
LEMMA SlackKept ==
  ASSUME BaseInv, [Next]_vars, NEW method \in WireMethods, NEW ch \in Channels
  PROVE  /\ InFlight(method, ch)' \in Nat /\ AskedFor(method, ch)' \in Nat
         /\ AskedFor(method, ch) - InFlight(method, ch)
              <= AskedFor(method, ch)' - InFlight(method, ch)'
<1> DEFINE W == WaitingIn(toMedia, method, ch)
           V == WaitingIn(fromMedia, method, ch)
           R == RequestedIn(controlLog, MethodAskedBy(method), ch)
           Wn == WaitingIn(toMedia', method, ch)
           Vn == WaitingIn(fromMedia', method, ch)
           Rn == RequestedIn(controlLog', MethodAskedBy(method), ch)
           Goal == Wn + Vn \in Nat /\ Rn \in Nat /\ R - (W + V) <= Rn - (Wn + Vn)
<1>0. /\ toMedia \in Seq(MediaRequest) /\ fromMedia \in Seq(MediaResponse)
      /\ controlLog \in Seq([stream : Streams, request : ControlRequest])
      /\ W \in Nat /\ V \in Nat /\ R \in Nat
  BY CountTypes DEF BaseInv, FlowTypes, AskedFor
<1> SUFFICES Goal
  BY DEF InFlight, AskedFor
<1>1. ASSUME NEW stream \in Streams, NEW request \in ControlRequest, ControlReceive(stream, request)
      PROVE  Goal
  <2> DEFINE entry == [stream |-> stream, request |-> request]
             asked == request.method = MethodAskedBy(method) /\ request.channelId = ch
  <2>1. controlLog' = Append(controlLog, entry) /\ entry.request = request
        /\ entry \in [stream : Streams, request : ControlRequest]
    BY <1>1 DEF ControlReceive
  <2>2. Rn = R + (IF asked THEN 1 ELSE 0)
    <3> DEFINE asking == MethodAskedBy(method)
               S == [stream : Streams, request : ControlRequest]
    <3>1. Rn = R + (IF entry.request.method = asking /\ entry.request.channelId = ch THEN 1 ELSE 0)
      <4>1. entry \in S /\ controlLog \in Seq(S) /\ controlLog' = Append(controlLog, entry)
        BY <1>0, <2>1
      <4> HIDE DEF entry, asking, S
      <4>2. RequestedIn(Append(controlLog, entry), asking, ch)
              = RequestedIn(controlLog, asking, ch)
                  + (IF entry.request.method = asking /\ entry.request.channelId = ch THEN 1 ELSE 0)
        BY <4>1, RequestAppended
      <4> QED
        BY <4>1, <4>2 DEF asking
    <3> QED
      BY <2>1, <3>1
  <2>3. toMedia' = toMedia \o MediaRequestsFor(request) /\ fromMedia' = fromMedia
    BY <1>1 DEF ControlReceive
  <2>4. Wn \in Nat /\ Wn = W + (IF asked THEN 1 ELSE 0)
    <3>1. CASE MediaRequestsFor(request) = <<>>
      <4>1. ~asked
        BY <3>1 DEF MediaRequestsFor, MethodAskedBy, WireMethods
      <4>2. toMedia' = toMedia
        BY <1>0, <2>3, <3>1
      <4> QED
        BY <1>0, <4>1, <4>2
    <3>2. ASSUME NEW x \in MediaRequest, MediaRequestsFor(request) = <<x>>
          PROVE  Wn \in Nat /\ Wn = W + (IF asked THEN 1 ELSE 0)
      <4>1. toMedia' = Append(toMedia, x)
        BY <1>0, <2>3, <3>2
      <4>2. x.method = method /\ x.callbackId = ch <=> asked
        <5>1. CASE request.method = "CALL_ANSWER"
          <6>1. x = Allocation(request.channelId)
            BY <3>2, <5>1 DEF MediaRequestsFor
          <6> QED
            BY <5>1, <6>1 DEF Allocation, MethodAskedBy, WireMethods
        <5>2. CASE request.method \in {"RECORD_START", "RECORD_STOP"}
          <6>1. x = [method |-> request.method, callbackId |-> request.channelId,
                     resourceId |-> theresourceId]
            BY <3>2, <5>2 DEF MediaRequestsFor
          <6> QED
            BY <5>2, <6>1 DEF MethodAskedBy, WireMethods
        <5> QED
          BY <3>2, <5>1, <5>2 DEF MediaRequestsFor
      <4>3. Wn = W + (IF x.method = method /\ x.callbackId = ch THEN 1 ELSE 0)
        BY <1>0, <4>1, WaitingAppended
      <4> QED
        BY <1>0, <4>2, <4>3
    <3>3. MediaRequestsFor(request) = <<>> \/ \E x \in MediaRequest : MediaRequestsFor(request) = <<x>>
      <4>1. MediaRequestsFor(request) \in Seq(MediaRequest)
        BY MediaRequestsType
      <4>2. MediaRequestsFor(request) = <<>> \/ \E x : MediaRequestsFor(request) = <<x>>
        BY DEF MediaRequestsFor
      <4> QED
        BY <4>1, <4>2
    <3> QED
      BY <3>1, <3>2, <3>3
  <2> QED
    BY <1>0, <2>2, <2>3, <2>4, SMTT(30)
<1>2. ASSUME NEW arrived \in 1 .. Len(toMedia), MediaRequestReceive(arrived) PROVE Goal
  <2> DEFINE request == Head(toMedia)
             read == request.method = method /\ request.callbackId = ch
  <2>1. toMedia' = SubSeq(toMedia, arrived + 1, Len(toMedia)) /\ controlLog' = controlLog
    BY <1>2 DEF MediaRequestReceive
  <2>2. Wn \in Nat /\ Wn + (IF read THEN 1 ELSE 0) <= W
    BY <1>0, <2>1, WaitingTaken
  <2>3. Vn \in Nat /\ Vn = V + (IF read THEN 1 ELSE 0)
    <3>1. \E x \in MediaResponse : /\ fromMedia' = Append(fromMedia, x)
                                   /\ x.method = request.method /\ x.callbackId = request.callbackId
      <4>1. CASE request.method = "ALLOCATE"
        <5> DEFINE made == [method |-> "ALLOCATE", callbackId |-> request.callbackId,
                            resourceId |-> nextSessionId, answer |-> nextSessionId]
        <5>1. fromMedia' = Append(fromMedia, made) /\ nextSessionId \in Media!SessionIds
          BY <1>2, <4>1, AllocationEffects
        <5>2. request.callbackId \in Channels
          BY RequestTypes
        <5>3. made \in MediaResponse
          BY <5>1, <5>2 DEF MediaResponse
        <5> QED
          BY <4>1, <5>1, <5>3
      <4>2. CASE request.method # "ALLOCATE"
        <5>1. fromMedia' = Append(fromMedia, request)
          BY <1>2, <4>2 DEF MediaRequestReceive
        <5>2. request \in MediaResponse
          BY <4>2, RequestTypes
        <5> QED
          BY <5>1, <5>2
      <4> QED
        BY <4>1, <4>2
    <3>2. PICK x \in MediaResponse : /\ fromMedia' = Append(fromMedia, x)
                                     /\ x.method = request.method /\ x.callbackId = request.callbackId
      BY <3>1
    <3>3. Vn = V + (IF x.method = method /\ x.callbackId = ch THEN 1 ELSE 0)
      BY <1>0, <3>2, WaitingAppended
    <3> QED
      BY <1>0, <3>2, <3>3
  <2> HIDE DEF read
  <2> QED
    BY <1>0, <2>1, <2>2, <2>3, SMTT(30)
<1>3. ASSUME NEW arrived \in 1 .. Len(fromMedia), MediaResponseReceive(arrived) PROVE Goal
  <2>1. /\ fromMedia' = SubSeq(fromMedia, arrived + 1, Len(fromMedia))
        /\ toMedia' = toMedia /\ controlLog' = controlLog
    BY <1>3 DEF MediaResponseReceive
  <2>2. Vn \in Nat /\ Vn <= V
    BY <1>0, <2>1, WaitingTaken
  <2> QED
    BY <1>0, <2>1, <2>2
<1>4. CASE UNCHANGED <<toMedia, fromMedia, controlLog>>
  BY <1>0, <1>4
<1> QED
  BY <1>1, <1>2, <1>3, <1>4 DEF Next, SipReceive, ControlClose, vars

\* A response that is read leaves one more.
LEMMA SlackGrows ==
  ASSUME BaseInv, NEW arrived \in 1 .. Len(fromMedia), MediaResponseReceive(arrived),
         NEW method, NEW ch \in Channels,
         Head(fromMedia).method = method, Head(fromMedia).callbackId = ch
  PROVE  AskedFor(method, ch) - InFlight(method, ch) + 1
           <= AskedFor(method, ch)' - InFlight(method, ch)'
<1>1. /\ fromMedia' = SubSeq(fromMedia, arrived + 1, Len(fromMedia))
      /\ toMedia' = toMedia /\ controlLog' = controlLog
  BY DEF MediaResponseReceive
<1>2. /\ WaitingIn(fromMedia', method, ch) \in Nat
      /\ WaitingIn(fromMedia', method, ch) + 1 <= WaitingIn(fromMedia, method, ch)
  BY <1>1, WaitingTaken DEF BaseInv, FlowTypes
<1> QED
  BY <1>1, <1>2, CountTypes DEF InFlight, AskedFor

-----------------------------------------------------------------------------
(* Outcomes *)

\* What a controller is told of an event of a call.
HeardAs(type) ==
  CASE type = "NEWCALL" -> "CALL_INCOMING"
    [] type = "CALLANSWERED" -> "CALL_CONNECTED"
    [] type = "CALLCLEARED" -> "CALL_CLEARED"

Heard(event) == [type |-> HeardAs(event.type), channelId |-> event.channelId]

CallEvents == {"NEWCALL", "CALLANSWERED", "CALLCLEARED"}

\* Where a notification comes from.
SipPosts ==
  \E r \in Sip!Request, event \in Sip!Event :
    /\ SipReceive(r) /\ event.type \in CallEvents
    /\ RaisedOne(r, r.callId, event, event.type)
    /\ Post(controlStream, <<Heard(event)>>)

MediaPosts ==
  /\ \E arrived \in 1 .. Len(fromMedia) : MediaResponseReceive(arrived)
  /\ Head(fromMedia).method # "ALLOCATE"
  /\ Post(controlStream, <<MediaNotificationFor(Head(fromMedia))>>)

ReplyPosts ==
  \E stream \in Streams, n \in Notification :
    n.type \in {"LOGIN", "CALLCOUNT"} /\ Post(stream, <<n>>)

LEMMA NothingPosted ==
  ASSUME notifications \in [Streams -> Seq(Notification)], NEW stream, Post(stream, <<>>)
  PROVE  notifications' = notifications
<1>1. CASE stream \in Streams \ closed
  <2>1. notifications' = [notifications EXCEPT ![stream] = notifications[stream] \o <<>>]
    BY <1>1 DEF Post
  <2>2. notifications[stream] \o <<>> = notifications[stream]
    BY <1>1
  <2> QED
    BY <2>1, <2>2
<1>2. CASE stream \notin Streams \ closed
  BY <1>2 DEF Post
<1> QED
  BY <1>1, <1>2

LEMMA SipReceivePosts ==
  ASSUME BaseInv, FlowInv, NEW r \in Sip!Request, SipReceive(r)
  PROVE  notifications' = notifications \/ SipPosts
<1> DEFINE c == r.callId
<1>0. /\ c \in CallIds /\ [Next]_vars
      /\ events \in [CallIds -> Seq(Sip!Event)] /\ events' \in [CallIds -> Seq(Sip!Event)]
  <2>1. c \in CallIds /\ [Next]_vars
    BY DEF Sip!Request, Next
  <2> QED
    BY <2>1, ComponentsStep, SipTypes, SipTypesNext DEF BaseInv
<1>1. CASE Raised(c) = <<>>
  BY <1>1 DEF SipReceive
<1>2. CASE Raised(c) # <<>>
  <2>1. Head(Raised(c)) = events'[c][Len(events[c]) + 1]
    BY <1>0, <1>2, RaisedType
  <2>2. events'[c] # events[c]
    <3>1. events[c] \in Seq(Sip!Event)
      BY <1>0
    <3>2. SubSeq(events[c], Len(events[c]) + 1, Len(events[c])) = <<>>
      BY <3>1
    <3> QED
      BY <1>2, <3>2 DEF Raised
  <2>3. PICK event \in Sip!Event :
          event.type \in CallEvents /\ RaisedOne(r, c, event, event.type)
    BY <1>0, <2>2, EventsGrow DEF RaisedOne, CallEvents
  <2>4. Head(Raised(c)) = event
    <3>1. events'[c] = Append(events[c], event) /\ events[c] \in Seq(Sip!Event)
      BY <1>0, <2>3 DEF RaisedOne
    <3>2. Append(events[c], event)[Len(events[c]) + 1] = event
      BY <3>1
    <3> QED
      BY <2>1, <3>1, <3>2
  <2>5. Post(controlStream, NotificationsFor(event))
    BY <1>2, <2>4 DEF SipReceive
  <2>6. NotificationsFor(event) = <<Heard(event)>>
    BY <2>3 DEF NotificationsFor, Heard, HeardAs, CallEvents
  <2> QED
    BY <2>3, <2>5, <2>6 DEF SipPosts
<1> QED
  BY <1>1, <1>2

LEMMA StepPosts ==
  ASSUME BaseInv, FlowInv, [Next]_vars
  PROVE  notifications' = notifications \/ SipPosts \/ MediaPosts \/ ReplyPosts
<1>1. ASSUME NEW r \in Sip!Request, SipReceive(r)
      PROVE  notifications' = notifications \/ SipPosts
  BY <1>1, SipReceivePosts
<1>2. ASSUME NEW stream \in Streams, NEW request \in ControlRequest, ControlReceive(stream, request)
      PROVE  notifications' = notifications \/ ReplyPosts
  <2>1. Post(stream, RepliesTo(request))
    BY <1>2 DEF ControlReceive
  <2>2. CASE RepliesTo(request) = <<>>
    BY <2>1, <2>2, NothingPosted DEF BaseInv, FlowTypes
  <2>3. ASSUME NEW n \in [type : {"LOGIN", "CALLCOUNT"}], RepliesTo(request) = <<n>>
        PROVE  ReplyPosts
    <3>1. n \in Notification /\ n.type \in {"LOGIN", "CALLCOUNT"}
      BY DEF Notification
    <3> QED
      BY <2>1, <2>3, <3>1 DEF ReplyPosts
  <2>4. RepliesTo(request) = <<>>
        \/ \E n \in [type : {"LOGIN", "CALLCOUNT"}] : RepliesTo(request) = <<n>>
    BY DEF RepliesTo
  <2> QED
    BY <2>2, <2>3, <2>4
<1>3. ASSUME NEW arrived \in 1 .. Len(fromMedia), MediaResponseReceive(arrived)
      PROVE  notifications' = notifications \/ MediaPosts
  BY <1>3 DEF MediaResponseReceive, MediaPosts
<1> QED
  BY <1>1, <1>2, <1>3 DEF Next, ControlClose, MediaRequestReceive, vars

\* How often a call was answered, and an outcome of a recording was reported.
AnswersOf(ch) ==
  IF channelToDialogueMap[ch] = NoDialogue
  THEN 0
  ELSE SipP!ResponsesIn(responses[channelToDialogueMap[ch]], "OK", "INVITE")

Report(method) == IF method = "RECORD_START" THEN "CALL_RECORD_START" ELSE "CALL_RECORD_END"

\* An outcome, or a message that may still become one, stands for a request.
AnswersBounded ==
  \A ch \in Channels : AnswersOf(ch) + InFlight("ALLOCATE", ch) <= AskedFor("ALLOCATE", ch)

ReportsBounded ==
  \A ch \in Channels, method \in {"RECORD_START", "RECORD_STOP"} :
    /\ IsFiniteSet(NotifiedIn(notifications, Report(method), ch))
    /\ Cardinality(NotifiedIn(notifications, Report(method), ch)) + InFlight(method, ch)
         <= AskedFor(method, ch)

LEMMA AnswersAdded ==
  ASSUME BaseInv, NEW c \in CallIds, NEW response \in Sip!Response,
         responses'[c] = Append(responses[c], response)
  PROVE  /\ SipP!ResponsesIn(responses[c], "OK", "INVITE") \in Nat
         /\ SipP!ResponsesIn(responses'[c], "OK", "INVITE")
              = SipP!ResponsesIn(responses[c], "OK", "INVITE")
                  + (IF Sip!IsAnswer(response) THEN 1 ELSE 0)
<1>1. responses[c] \in Seq(SipP!Response) /\ response \in SipP!Response
  BY SipTypes, SameSip DEF BaseInv
<1> QED
  BY <1>1, SipP!ResponseAppended, SipAssumption, SameSip DEF Sip!IsAnswer

LEMMA AnswersType ==
  ASSUME BaseInv, NEW ch \in Channels
  PROVE  AnswersOf(ch) \in Nat
<1>1. CASE channelToDialogueMap[ch] # NoDialogue
  <2>1. responses[channelToDialogueMap[ch]] \in Seq(SipP!Response)
    BY <1>1, SipTypes, SameSip DEF BaseInv
  <2>2. IsFiniteSet(DOMAIN responses[channelToDialogueMap[ch]])
    BY <2>1, FS_Interval
  <2> QED
    BY <1>1, <2>2, FS_Subset, FS_CardinalityType, SameFiniteSets DEF AnswersOf, SipP!ResponsesIn
<1> QED
  BY <1>1 DEF AnswersOf

\* A step answers a call once at most, and then it reads the response to a
\* request of that call.
LEMMA AnswersBoundedStep ==
  ASSUME BaseInv, FlowInv, AnswersBounded, [Next]_vars
  PROVE  AnswersBounded'
<1> SUFFICES ASSUME NEW ch \in Channels
             PROVE  (AnswersOf(ch) + InFlight("ALLOCATE", ch) <= AskedFor("ALLOCATE", ch))'
  BY DEF AnswersBounded
<1> DEFINE c == channelToDialogueMap[ch]
           cn == channelToDialogueMap'[ch]
<1>0. /\ AnswersOf(ch) + InFlight("ALLOCATE", ch) <= AskedFor("ALLOCATE", ch)
      /\ AnswersOf(ch) \in Nat /\ InFlight("ALLOCATE", ch) \in Nat
      /\ AskedFor("ALLOCATE", ch) \in Nat
      /\ InFlight("ALLOCATE", ch)' \in Nat /\ AskedFor("ALLOCATE", ch)' \in Nat
      /\ AskedFor("ALLOCATE", ch) - InFlight("ALLOCATE", ch)
           <= AskedFor("ALLOCATE", ch)' - InFlight("ALLOCATE", ch)'
  BY AnswersType, CountTypes, SlackKept DEF AnswersBounded, WireMethods
<1>1. ASSUME AnswersOf(ch)' = AnswersOf(ch)
      PROVE  (AnswersOf(ch) + InFlight("ALLOCATE", ch) <= AskedFor("ALLOCATE", ch))'
  BY <1>0, <1>1
<1>2. CASE c = NoDialogue /\ cn = NoDialogue
  BY <1>1, <1>2 DEF AnswersOf
<1>3. CASE c = NoDialogue /\ cn # NoDialogue
  <2>1. cn \in CallIds /\ ~Sip!HasDialogue(cn)
    BY <1>3, ChannelsAreNew
  <2>2. \A i \in DOMAIN responses[cn] : ~Sip!IsAnswer(responses[cn][i])
    BY <2>1 DEF FlowInv, AnswersAllocated
  <2>3. responses[cn] \in Seq(Sip!Response)
    BY <2>1, SipTypes DEF BaseInv
  <2>4. responses'[cn] = responses[cn]
        \/ \E response \in Sip!Response :
             ~Sip!IsAnswer(response) /\ responses'[cn] = Append(responses[cn], response)
    <3>1. ASSUME NEW arrived \in 1 .. Len(fromMedia), MediaResponseReceive(arrived),
                 Head(fromMedia).method = "ALLOCATE",
                 cn = channelToDialogueMap[Head(fromMedia).callbackId]
          PROVE  FALSE
      <4>1. Head(fromMedia).callbackId \in Channels
        BY ResponseTypes
      <4> QED
        BY <1>3, <2>1, <3>1, <4>1, SipTypes DEF BaseInv
    <3> QED
      BY <2>1, <3>1, ResponsesGrow
  <2>5. \A i \in DOMAIN responses'[cn] : ~Sip!IsAnswer(responses'[cn][i])
    BY <2>2, <2>3, <2>4
  <2>6. {i \in DOMAIN responses'[cn] :
           responses'[cn][i].status = "OK" /\ responses'[cn][i].method = "INVITE"} = {}
    BY <2>5 DEF Sip!IsAnswer
  <2>7. SipP!ResponsesIn(responses'[cn], "OK", "INVITE") = 0
    BY <2>6, FS_EmptySet, SameFiniteSets DEF SipP!ResponsesIn
  <2> QED
    BY <1>1, <1>3, <2>7 DEF AnswersOf
<1>4. CASE c # NoDialogue
  <2>1. cn = c /\ c \in CallIds
    BY <1>4, ChannelsStay, SipTypes DEF BaseInv
  <2>2. /\ AnswersOf(ch) = SipP!ResponsesIn(responses[c], "OK", "INVITE")
        /\ AnswersOf(ch)' = SipP!ResponsesIn(responses'[c], "OK", "INVITE")
    BY <1>4, <2>1 DEF AnswersOf
  <2>3. CASE responses'[c] = responses[c]
    BY <1>1, <2>2, <2>3
  <2>4. ASSUME NEW response \in Sip!Response, ~Sip!IsAnswer(response),
               responses'[c] = Append(responses[c], response)
        PROVE  (AnswersOf(ch) + InFlight("ALLOCATE", ch) <= AskedFor("ALLOCATE", ch))'
    <3>1. AnswersOf(ch)' = AnswersOf(ch)
      <4>1. /\ SipP!ResponsesIn(responses[c], "OK", "INVITE") \in Nat
            /\ SipP!ResponsesIn(responses'[c], "OK", "INVITE")
                 = SipP!ResponsesIn(responses[c], "OK", "INVITE") + 0
        <5> HIDE DEF c
        <5> QED
          BY <2>1, <2>4, AnswersAdded
      <4> HIDE DEF c
      <4> QED
        BY <2>2, <4>1
    <3> QED
      BY <1>1, <3>1
  <2>5. ASSUME NEW arrived \in 1 .. Len(fromMedia), MediaResponseReceive(arrived),
               Head(fromMedia).method = "ALLOCATE",
               c = channelToDialogueMap[Head(fromMedia).callbackId],
               responses'[c] = Append(responses[c], AnswerTo(c, Head(fromMedia).answer))
        PROVE  (AnswersOf(ch) + InFlight("ALLOCATE", ch) <= AskedFor("ALLOCATE", ch))'
    <3>1. Head(fromMedia).callbackId = ch
      <4>1. Head(fromMedia).callbackId \in SipP!Channels /\ ch \in SipP!Channels
        BY ResponseTypes, SameSip DEF Channels
      <4> QED
        BY <1>4, <2>5, <4>1 DEF FlowInv, SipP!MapsAgree
    <3>2. /\ AnswerTo(c, Head(fromMedia).answer) \in Sip!Response
          /\ Sip!IsAnswer(AnswerTo(c, Head(fromMedia).answer))
      <4>1. Head(fromMedia).answer \in Media!SessionIds
        BY <2>5, ResponseTypes
      <4>2. callIdToDialogueMap[c].transaction.cseq \in CSeqs
        BY <1>4, SipTypes DEF BaseInv, Sip!Dialogue, Sip!Transaction
      <4> QED
        BY <4>1, <4>2 DEF AnswerTo, Sip!IsAnswer, Sip!Response
    <3>3. AnswersOf(ch)' = AnswersOf(ch) + 1
      <4> HIDE DEF c
      <4> QED
        BY <2>1, <2>2, <2>5, <3>2, AnswersAdded
    <3>4. AskedFor("ALLOCATE", ch) - InFlight("ALLOCATE", ch) + 1
            <= AskedFor("ALLOCATE", ch)' - InFlight("ALLOCATE", ch)'
      BY <2>5, <3>1, SlackGrows
    <3> QED
      BY <1>0, <3>3, <3>4
  <2> QED
    BY <2>1, <2>3, <2>4, <2>5, ResponsesGrow
<1> QED
  BY <1>2, <1>3, <1>4

\* A step reports one outcome at most, and then it reads the message that the
\* media process sent back for a request.
LEMMA ReportsBoundedStep ==
  ASSUME BaseInv, FlowInv, ReportsBounded, [Next]_vars
  PROVE  ReportsBounded'
<1> SUFFICES ASSUME NEW ch \in Channels, NEW method \in {"RECORD_START", "RECORD_STOP"}
             PROVE  /\ IsFiniteSet(NotifiedIn(notifications', Report(method), ch))
                    /\ Cardinality(NotifiedIn(notifications', Report(method), ch))
                         + InFlight(method, ch)'
                         <= AskedFor(method, ch)'
  BY DEF ReportsBounded
<1> DEFINE N == NotifiedIn(notifications, Report(method), ch)
           Nn == NotifiedIn(notifications', Report(method), ch)
           Goal == IsFiniteSet(Nn) /\ Cardinality(Nn) + InFlight(method, ch)' <= AskedFor(method, ch)'
<1> SUFFICES Goal
  OBVIOUS
<1>0. /\ IsFiniteSet(N) /\ Cardinality(N) \in Nat
      /\ Cardinality(N) + InFlight(method, ch) <= AskedFor(method, ch)
      /\ InFlight(method, ch) \in Nat /\ AskedFor(method, ch) \in Nat
      /\ InFlight(method, ch)' \in Nat /\ AskedFor(method, ch)' \in Nat
      /\ AskedFor(method, ch) - InFlight(method, ch)
           <= AskedFor(method, ch)' - InFlight(method, ch)'
      /\ notifications \in [Streams -> Seq(Notification)]
  BY CountTypes, SlackKept, FS_CardinalityType
  DEF ReportsBounded, WireMethods, BaseInv, FlowTypes
<1>1. ASSUME IsFiniteSet(Nn), Cardinality(Nn) <= Cardinality(N) PROVE Goal
  <2>1. Cardinality(Nn) \in Nat
    BY <1>1, FS_CardinalityType
  <2> HIDE DEF N, Nn
  <2> QED
    BY <1>0, <1>1, <2>1
<1>2. ASSUME NEW stream, NEW n \in Notification, Post(stream, <<n>>),
             n # [type |-> Report(method), channelId |-> ch]
      PROVE  Goal
  <2>1. IsFiniteSet(Nn) /\ Cardinality(Nn) <= Cardinality(N) + 0
    BY <1>0, <1>2, PostCounts
  <2> HIDE DEF N, Nn, Goal
  <2> QED
    BY <1>0, <1>1, <2>1
<1>3. CASE notifications' = notifications
  <2>1. Nn = N
    BY <1>3
  <2> HIDE DEF N, Nn, Goal
  <2> QED
    BY <1>0, <1>1, <2>1
<1>4. CASE SipPosts
  <2>1. PICK r \in Sip!Request, event \in Sip!Event :
          event.type \in CallEvents /\ Post(controlStream, <<Heard(event)>>)
    BY <1>4 DEF SipPosts
  <2>2. /\ Heard(event) \in Notification
        /\ Heard(event) # [type |-> Report(method), channelId |-> ch]
    <3>1. event.channelId \in Channels
      BY DEF Sip!Event, Channels
    <3>2. HeardAs(event.type) \in {"CALL_INCOMING", "CALL_CONNECTED", "CALL_CLEARED"}
      BY <2>1 DEF HeardAs, CallEvents
    <3>3. Heard(event).type # Report(method)
      BY <3>2 DEF Heard, Report
    <3> QED
      BY <3>1, <3>2, <3>3 DEF Heard, Notification
  <2> HIDE DEF Goal
  <2> QED
    BY <1>2, <2>1, <2>2
<1>5. CASE ReplyPosts
  <2>1. PICK stream \in Streams, n \in Notification :
          n.type \in {"LOGIN", "CALLCOUNT"} /\ Post(stream, <<n>>)
    BY <1>5 DEF ReplyPosts
  <2>2. n # [type |-> Report(method), channelId |-> ch]
    BY <2>1 DEF Report
  <2> HIDE DEF Goal
  <2> QED
    BY <1>2, <2>1, <2>2
<1>6. CASE MediaPosts
  <2> DEFINE response == Head(fromMedia)
             n == MediaNotificationFor(response)
  <2>1. PICK arrived \in 1 .. Len(fromMedia) : MediaResponseReceive(arrived)
    BY <1>6 DEF MediaPosts
  <2>2. /\ response.method \in {"RECORD_START", "RECORD_STOP"} /\ response.callbackId \in Channels
        /\ Post(controlStream, <<n>>)
    BY <1>6, ResponseTypes DEF MediaPosts, MediaResponse
  <2>3. n \in Notification
    BY <2>2 DEF MediaNotificationFor, Notification
  <2>4. CASE n # [type |-> Report(method), channelId |-> ch]
    <3> HIDE DEF Goal, n
    <3> QED
      BY <1>2, <2>2, <2>3, <2>4
  <2>5. CASE n = [type |-> Report(method), channelId |-> ch]
    <3>1. response.method = method /\ response.callbackId = ch
      <4>1. n.type = Report(method) /\ n.channelId = ch
        BY <2>5
      <4> QED
        BY <2>2, <4>1 DEF MediaNotificationFor, Report
    <3>2. AskedFor(method, ch) - InFlight(method, ch) + 1
            <= AskedFor(method, ch)' - InFlight(method, ch)'
      BY <2>1, <3>1, SlackGrows
    <3>3. IsFiniteSet(Nn) /\ Cardinality(Nn) <= Cardinality(N) + 1
      <4> HIDE DEF n
      <4> QED
        BY <1>0, <2>2, <2>3, <2>5, PostCounts
    <3>4. Cardinality(Nn) \in Nat
      BY <3>3, FS_CardinalityType
    <3> HIDE DEF N, Nn
    <3> QED
      BY <1>0, <3>2, <3>3, <3>4
  <2> QED
    BY <2>4, <2>5
<1> QED
  BY <1>3, <1>4, <1>5, <1>6, StepPosts

LEMMA OutcomesInit == Init => AnswersBounded /\ ReportsBounded
<1> SUFFICES ASSUME Init PROVE AnswersBounded /\ ReportsBounded
  OBVIOUS
<1>1. /\ Sip!Init /\ toMedia = <<>> /\ fromMedia = <<>> /\ controlLog = <<>>
      /\ notifications = [s \in Streams |-> <<>>]
  BY DEF Init
<1>2. \A ch \in Channels : channelToDialogueMap[ch] = NoDialogue
  BY <1>1 DEF Sip!Init, Channels
<1>3. Cardinality({}) = 0 /\ IsFiniteSet({})
  BY FS_EmptySet
<1>4. ASSUME NEW method, NEW ch PROVE InFlight(method, ch) = 0 /\ AskedFor(method, ch) = 0
  <2>1. DOMAIN toMedia = {} /\ DOMAIN fromMedia = {} /\ DOMAIN controlLog = {}
    BY <1>1
  <2> QED
    BY <1>3, <2>1 DEF InFlight, AskedFor, WaitingIn, RequestedIn
<1>5. ASSUME NEW type, NEW ch PROVE NotifiedIn(notifications, type, ch) = {}
  <2>1. \A s \in Streams : DOMAIN notifications[s] = {}
    BY <1>1
  <2> QED
    BY <2>1 DEF NotifiedIn
<1>6. AnswersBounded
  BY <1>2, <1>4 DEF AnswersBounded, AnswersOf
<1>7. ReportsBounded
  BY <1>3, <1>4, <1>5 DEF ReportsBounded
<1> QED
  BY <1>6, <1>7

\* A call is not answered more often than controllers asked for it, and no start
\* or end of a recording is reported that was not asked for
\* (OutcomesMatchRequests), whatever the two queues lose.
THEOREM OneOutcomeEach == Spec => []OutcomesMatchRequests
<1> DEFINE IInv == BaseInv /\ FlowInv /\ AnswersBounded /\ ReportsBounded
<1>1. Init => IInv
  BY BaseInit, FlowInit, OutcomesInit
<1>2. IInv /\ [Next]_vars => IInv'
  BY BaseStep, FlowStep, AnswersBoundedStep, ReportsBoundedStep
<1>3. IInv => OutcomesMatchRequests
  <2> SUFFICES ASSUME IInv, NEW ch \in Channels
               PROVE  /\ channelToDialogueMap[ch] # NoDialogue =>
                           Sip!ResponseCount(channelToDialogueMap[ch], "OK", "INVITE")
                             <= Cardinality(Requested("CALL_ANSWER", ch))
                      /\ Cardinality(Notified("CALL_RECORD_START", ch))
                           <= Cardinality(Requested("RECORD_START", ch))
                      /\ Cardinality(Notified("CALL_RECORD_END", ch))
                           <= Cardinality(Requested("RECORD_STOP", ch))
    BY DEF OutcomesMatchRequests
  <2>1. /\ AskedFor("ALLOCATE", ch) = Cardinality(Requested("CALL_ANSWER", ch))
        /\ AskedFor("RECORD_START", ch) = Cardinality(Requested("RECORD_START", ch))
        /\ AskedFor("RECORD_STOP", ch) = Cardinality(Requested("RECORD_STOP", ch))
    BY DEF AskedFor, MethodAskedBy, RequestedIn, Requested
  <2>2. \A method : InFlight(method, ch) \in Nat /\ AskedFor(method, ch) \in Nat
    BY CountTypes
  <2>3. channelToDialogueMap[ch] # NoDialogue =>
          Sip!ResponseCount(channelToDialogueMap[ch], "OK", "INVITE") = AnswersOf(ch)
    BY SameFiniteSets DEF AnswersOf, Sip!ResponseCount, SipP!ResponsesIn
  <2>4. /\ AnswersOf(ch) \in Nat
        /\ AnswersOf(ch) + InFlight("ALLOCATE", ch) <= AskedFor("ALLOCATE", ch)
    BY AnswersType DEF AnswersBounded
  <2>5. ASSUME NEW method \in {"RECORD_START", "RECORD_STOP"}
        PROVE  Cardinality(Notified(Report(method), ch)) <= AskedFor(method, ch)
    <3>1. Notified(Report(method), ch) = NotifiedIn(notifications, Report(method), ch)
      BY DEF Notified, NotifiedIn
    <3>2. /\ Cardinality(NotifiedIn(notifications, Report(method), ch)) \in Nat
          /\ Cardinality(NotifiedIn(notifications, Report(method), ch)) + InFlight(method, ch)
               <= AskedFor(method, ch)
      BY FS_CardinalityType DEF ReportsBounded
    <3> QED
      BY <2>2, <3>1, <3>2
  <2>6. Report("RECORD_START") = "CALL_RECORD_START" /\ Report("RECORD_STOP") = "CALL_RECORD_END"
    BY DEF Report
  <2>7. /\ Cardinality(Notified("CALL_RECORD_START", ch)) <= AskedFor("RECORD_START", ch)
        /\ Cardinality(Notified("CALL_RECORD_END", ch)) <= AskedFor("RECORD_STOP", ch)
    BY <2>5, <2>6
  <2>8. channelToDialogueMap[ch] # NoDialogue =>
          Sip!ResponseCount(channelToDialogueMap[ch], "OK", "INVITE") <= AskedFor("ALLOCATE", ch)
    BY <2>2, <2>3, <2>4
  <2> QED
    BY <2>1, <2>7, <2>8
<1> QED
  BY <1>1, <1>2, <1>3, PTL DEF Spec

-----------------------------------------------------------------------------
(* Events *)

EventsOn(ch, type) ==
  IF channelToDialogueMap[ch] = NoDialogue
  THEN 0
  ELSE SipP!EventsIn(events[channelToDialogueMap[ch]], type)

\* While every call has a channel of its own, what the connections were told of
\* a channel is what was raised on its call.
EventsBounded ==
  \A ch \in Channels, type \in CallEvents :
    /\ IsFiniteSet(NotifiedIn(notifications, HeardAs(type), ch))
    /\ Cardinality(Sip!Dialogues) <= ChannelModulus =>
         Cardinality(NotifiedIn(notifications, HeardAs(type), ch)) <= EventsOn(ch, type)

LEMMA EventAdded ==
  ASSUME BaseInv, NEW c \in CallIds, NEW event \in Sip!Event, NEW type,
         events'[c] = Append(events[c], event)
  PROVE  SipP!EventsIn(events'[c], type)
           = SipP!EventsIn(events[c], type) + (IF event.type = type THEN 1 ELSE 0)
<1>1. events[c] \in Seq(SipP!Event) /\ event \in SipP!Event
  BY SipTypes, SameSip DEF BaseInv
<1> QED
  BY <1>1, SipP!EventAppended, SipAssumption, SameSip

LEMMA EventsType ==
  ASSUME BaseInv, NEW c \in CallIds, NEW type
  PROVE  SipP!EventsIn(events[c], type) \in Nat
<1>1. IsFiniteSet(DOMAIN events[c])
  BY SipTypes, FS_Interval DEF BaseInv
<1> QED
  BY <1>1, FS_Subset, FS_CardinalityType, SameFiniteSets DEF SipP!EventsIn

LEMMA EventsKept ==
  ASSUME BaseInv, FlowInv, [Next]_vars, NEW c \in CallIds, NEW type
  PROVE  /\ SipP!EventsIn(events[c], type) \in Nat /\ SipP!EventsIn(events'[c], type) \in Nat
         /\ SipP!EventsIn(events[c], type) <= SipP!EventsIn(events'[c], type)
<1>1. SipP!EventsIn(events[c], type) \in Nat
  BY EventsType
<1>2. CASE events'[c] = events[c]
  BY <1>1, <1>2
<1>3. ASSUME NEW event \in Sip!Event, events'[c] = Append(events[c], event)
      PROVE  /\ SipP!EventsIn(events'[c], type) \in Nat
             /\ SipP!EventsIn(events[c], type) <= SipP!EventsIn(events'[c], type)
  <2>1. SipP!EventsIn(events'[c], type)
          = SipP!EventsIn(events[c], type) + (IF event.type = type THEN 1 ELSE 0)
    BY <1>3, EventAdded
  <2> QED
    BY <1>1, <2>1
<1>4. ASSUME NEW r \in Sip!Request, SipReceive(r)
      PROVE  events'[c] = events[c]
             \/ \E event \in Sip!Event : events'[c] = Append(events[c], event)
  BY <1>4, EventsGrow DEF RaisedOne
<1>5. events' = events \/ \E r \in Sip!Request : SipReceive(r)
  BY MediaResponseEffects
  DEF Next, ControlReceive, ControlClose, MediaRequestReceive, MediaResponseReceive, Answer,
      Sip!AnswerCall, Sip!dialogueVars, vars, sipVars
<1> QED
  BY <1>1, <1>2, <1>3, <1>4, <1>5

\* Dialogues are never taken down, so fewer channels were given before.
LEMMA DialoguesGrow ==
  ASSUME BaseInv, [Next]_vars, Cardinality(Sip!Dialogues') <= ChannelModulus
  PROVE  /\ Cardinality(Sip!Dialogues) <= ChannelModulus
         /\ \A c \in CallIds : callIdToDialogueMap'[c] # NoDialogue =>
              channelToDialogueMap'[callIdToDialogueMap'[c].channelId] = c
<1>1. Sip!Dialogues' = SipP!Dialogues' /\ Sip!Dialogues \subseteq Sip!Dialogues'
  BY DialoguesStay DEF Sip!Dialogues, Sip!HasDialogue, SipP!Dialogues, SipP!HasDialogue
<1>2. SipP!RouteInv'
  BY ComponentsStep DEF SipInv
<1>3. IsFiniteSet(Sip!Dialogues')
  <2>1. SipP!IsFiniteSet(SipP!Dialogues')
    BY <1>2 DEF SipP!RouteInv
  <2> QED
    BY <1>1, <2>1, SameFiniteSets
<1>4. Cardinality(Sip!Dialogues) <= ChannelModulus
  <2>1. /\ Cardinality(Sip!Dialogues) <= Cardinality(Sip!Dialogues')
        /\ Cardinality(Sip!Dialogues) \in Nat /\ Cardinality(Sip!Dialogues') \in Nat
    BY <1>1, <1>3, FS_Subset, FS_CardinalityType
  <2> QED
    BY <2>1, SipAssumption
<1>5. \A c \in SipP!Dialogues' : channelToDialogueMap'[callIdToDialogueMap'[c].channelId] = c
  <2>1. SipP!Cardinality(SipP!Dialogues') <= ChannelModulus
    BY <1>1, SameFiniteSets
  <2> QED
    BY <1>2, <2>1 DEF SipP!RouteInv, SipP!ChannelsAreFresh
<1> QED
  BY <1>4, <1>5 DEF SipP!Dialogues, SipP!HasDialogue

\* What was raised on the call of a channel becomes no less.
LEMMA EventsOnKept ==
  ASSUME BaseInv, FlowInv, [Next]_vars, NEW ch \in Channels, NEW type
  PROVE  EventsOn(ch, type) \in Nat /\ EventsOn(ch, type)' \in Nat
         /\ EventsOn(ch, type) <= EventsOn(ch, type)'
<1> DEFINE c == channelToDialogueMap[ch]
           cn == channelToDialogueMap'[ch]
<1>1. CASE c # NoDialogue
  <2>1. c \in CallIds /\ cn = c
    BY <1>1, SipTypes, ChannelsStay DEF BaseInv
  <2> QED
    BY <1>1, <2>1, EventsKept DEF EventsOn
<1>2. CASE c = NoDialogue /\ cn = NoDialogue
  BY <1>2 DEF EventsOn
<1>3. CASE c = NoDialogue /\ cn # NoDialogue
  <2>1. cn \in CallIds
    BY <1>3, ChannelsAreNew
  <2> QED
    BY <1>3, <2>1, EventsKept DEF EventsOn
<1> QED
  BY <1>1, <1>2, <1>3

\* A step tells one connection of an event, and then it raised that event on the
\* call the channel leads to.
LEMMA EventsBoundedStep ==
  ASSUME BaseInv, FlowInv, EventsBounded, [Next]_vars
  PROVE  EventsBounded'
<1> SUFFICES ASSUME NEW ch \in Channels, NEW type \in CallEvents
             PROVE  /\ IsFiniteSet(NotifiedIn(notifications', HeardAs(type), ch))
                    /\ Cardinality(Sip!Dialogues') <= ChannelModulus =>
                         Cardinality(NotifiedIn(notifications', HeardAs(type), ch))
                           <= EventsOn(ch, type)'
  BY DEF EventsBounded
<1> DEFINE N == NotifiedIn(notifications, HeardAs(type), ch)
           Nn == NotifiedIn(notifications', HeardAs(type), ch)
           Few == Cardinality(Sip!Dialogues') <= ChannelModulus
           Goal == IsFiniteSet(Nn) /\ (Few => Cardinality(Nn) <= EventsOn(ch, type)')
<1> SUFFICES Goal
  OBVIOUS
<1>0. /\ IsFiniteSet(N) /\ Cardinality(N) \in Nat
      /\ Few => Cardinality(N) <= EventsOn(ch, type)
      /\ EventsOn(ch, type) \in Nat /\ EventsOn(ch, type)' \in Nat
      /\ EventsOn(ch, type) <= EventsOn(ch, type)'
      /\ notifications \in [Streams -> Seq(Notification)]
      /\ HeardAs(type) \in {"CALL_INCOMING", "CALL_CONNECTED", "CALL_CLEARED"}
  <2>1. HeardAs(type) \in {"CALL_INCOMING", "CALL_CONNECTED", "CALL_CLEARED"}
    BY DEF HeardAs, CallEvents
  <2>2. Few => Cardinality(Sip!Dialogues) <= ChannelModulus
    BY DialoguesGrow
  <2> HIDE DEF Few
  <2> QED
    BY <2>1, <2>2, EventsOnKept, FS_CardinalityType DEF EventsBounded, BaseInv, FlowTypes
<1>1. ASSUME IsFiniteSet(Nn), Cardinality(Nn) <= Cardinality(N) PROVE Goal
  <2>1. Cardinality(Nn) \in Nat
    BY <1>1, FS_CardinalityType
  <2> HIDE DEF N, Nn, Few
  <2> QED
    BY <1>0, <1>1, <2>1
<1>2. ASSUME NEW stream, NEW n \in Notification, Post(stream, <<n>>),
             n # [type |-> HeardAs(type), channelId |-> ch]
      PROVE  Goal
  <2>1. IsFiniteSet(Nn) /\ Cardinality(Nn) <= Cardinality(N) + 0
    BY <1>0, <1>2, PostCounts
  <2> HIDE DEF N, Nn, Goal
  <2> QED
    BY <1>0, <1>1, <2>1
<1>3. CASE notifications' = notifications
  <2>1. Nn = N
    BY <1>3
  <2> HIDE DEF N, Nn, Goal
  <2> QED
    BY <1>0, <1>1, <2>1
<1>4. CASE ReplyPosts
  <2>1. PICK stream \in Streams, n \in Notification :
          n.type \in {"LOGIN", "CALLCOUNT"} /\ Post(stream, <<n>>)
    BY <1>4 DEF ReplyPosts
  <2>2. n # [type |-> HeardAs(type), channelId |-> ch]
    BY <1>0, <2>1
  <2> HIDE DEF Goal
  <2> QED
    BY <1>2, <2>1, <2>2
<1>5. CASE MediaPosts
  <2> DEFINE n == MediaNotificationFor(Head(fromMedia))
  <2>1. /\ Head(fromMedia).callbackId \in Channels /\ Post(controlStream, <<n>>)
    BY <1>5, ResponseTypes DEF MediaPosts
  <2>2. n \in Notification /\ n.type \in {"CALL_RECORD_START", "CALL_RECORD_END"}
    BY <2>1 DEF MediaNotificationFor, Notification
  <2>3. n # [type |-> HeardAs(type), channelId |-> ch]
    <3> HIDE DEF n
    <3> QED
      BY <1>0, <2>2
  <2> HIDE DEF Goal, n
  <2> QED
    BY <1>2, <2>1, <2>2, <2>3
<1>6. CASE SipPosts
  <2>1. PICK r \in Sip!Request, event \in Sip!Event :
          /\ SipReceive(r) /\ event.type \in CallEvents
          /\ RaisedOne(r, r.callId, event, event.type)
          /\ Post(controlStream, <<Heard(event)>>)
    BY <1>6 DEF SipPosts
  <2> DEFINE c == r.callId
  <2>2. Heard(event) \in Notification
    <3>1. event.channelId \in Channels
      BY DEF Sip!Event, Channels
    <3> QED
      BY <2>1, <3>1 DEF Heard, HeardAs, CallEvents, Notification
  <2>3. CASE Heard(event) # [type |-> HeardAs(type), channelId |-> ch]
    <3> HIDE DEF Goal
    <3> QED
      BY <1>2, <2>1, <2>2, <2>3
  <2>4. CASE Heard(event) = [type |-> HeardAs(type), channelId |-> ch]
    <3>1. event.type = type /\ event.channelId = ch
      <4>1. HeardAs(event.type) = HeardAs(type) /\ event.channelId = ch
        BY <2>4 DEF Heard
      <4> QED
        BY <2>1, <4>1 DEF HeardAs, CallEvents
    <3>2. IsFiniteSet(Nn) /\ Cardinality(Nn) <= Cardinality(N) + 1
      BY <1>0, <2>1, <2>2, <2>4, PostCounts
    <3>3. Few => EventsOn(ch, type) + 1 <= EventsOn(ch, type)'
      <4> SUFFICES ASSUME Few PROVE EventsOn(ch, type) + 1 <= EventsOn(ch, type)'
        OBVIOUS
      <4>1. /\ c \in CallIds /\ callIdToDialogueMap'[c] # NoDialogue
            /\ callIdToDialogueMap'[c].channelId = ch
            /\ events'[c] = Append(events[c], event)
        BY <2>1, <3>1 DEF RaisedOne, Sip!Request
      <4>2. channelToDialogueMap'[ch] = c
        BY <4>1, DialoguesGrow
      <4>3. c # NoDialogue
        BY <4>1, SipTypes DEF BaseInv
      <4>4. EventsOn(ch, type)' = SipP!EventsIn(events'[c], type)
        BY <4>2, <4>3 DEF EventsOn
      <4>5. /\ SipP!EventsIn(events'[c], type) = SipP!EventsIn(events[c], type) + 1
            /\ SipP!EventsIn(events[c], type) \in Nat
        BY <3>1, <4>1, EventAdded, EventsType
      <4>6. EventsOn(ch, type) <= SipP!EventsIn(events[c], type)
        <5>1. CASE channelToDialogueMap[ch] = NoDialogue
          BY <4>5, <5>1 DEF EventsOn
        <5>2. CASE channelToDialogueMap[ch] # NoDialogue
          <6>1. channelToDialogueMap[ch] = c
            BY <4>2, <5>2, ChannelsStay
          <6> QED
            BY <4>5, <5>2, <6>1 DEF EventsOn
        <5> QED
          BY <5>1, <5>2
      <4> QED
        BY <1>0, <4>4, <4>5, <4>6
    <3>4. Cardinality(Nn) \in Nat
      BY <3>2, FS_CardinalityType
    <3> HIDE DEF N, Nn, Few
    <3> QED
      BY <1>0, <3>2, <3>3, <3>4
  <2> QED
    BY <2>3, <2>4
<1> QED
  BY <1>3, <1>4, <1>5, <1>6, StepPosts

\* However control moves between connections, an event of a call reaches one
\* controller at most (EventsReachOneController).
THEOREM OneControllerHears == Spec => []EventsReachOneController
<1> DEFINE IInv == BaseInv /\ FlowInv /\ EventsBounded
<1>1. Init => IInv
  <2> SUFFICES ASSUME Init PROVE EventsBounded
    BY BaseInit, FlowInit
  <2>1. /\ Sip!Init /\ notifications = [s \in Streams |-> <<>>]
    BY DEF Init
  <2>2. \A ch \in Channels, type \in CallEvents : EventsOn(ch, type) = 0
    BY <2>1 DEF Sip!Init, Channels, EventsOn
  <2>3. ASSUME NEW type, NEW ch PROVE NotifiedIn(notifications, type, ch) = {}
    <3>1. \A s \in Streams : DOMAIN notifications[s] = {}
      BY <2>1
    <3> QED
      BY <3>1 DEF NotifiedIn
  <2> QED
    BY <2>2, <2>3, FS_EmptySet DEF EventsBounded
<1>2. IInv /\ [Next]_vars => IInv'
  BY BaseStep, FlowStep, EventsBoundedStep
<1>3. IInv => EventsReachOneController
  <2> SUFFICES ASSUME IInv, Cardinality(Sip!Dialogues) <= ChannelModulus,
                      NEW c \in Sip!Dialogues, NEW ch, ch = callIdToDialogueMap[c].channelId
               PROVE  /\ Cardinality(Notified("CALL_INCOMING", ch)) <= Sip!EventCount(c, "NEWCALL")
                      /\ Cardinality(Notified("CALL_CONNECTED", ch))
                           <= Sip!EventCount(c, "CALLANSWERED")
                      /\ Cardinality(Notified("CALL_CLEARED", ch))
                           <= Sip!EventCount(c, "CALLCLEARED")
    BY DEF EventsReachOneController
  <2>1. c \in CallIds /\ Sip!HasDialogue(c) /\ c \in SipP!Dialogues
    BY SameSip DEF Sip!Dialogues
  <2>2. ch \in Channels /\ c # NoDialogue
    BY <2>1, SipTypes DEF BaseInv, Sip!Dialogue, Channels
  <2>3. channelToDialogueMap[ch] = c
    <3>1. SipP!Cardinality(SipP!Dialogues) <= ChannelModulus
      BY SameSip, SameFiniteSets
    <3> QED
      BY <2>1, <3>1 DEF BaseInv, SipInv, SipP!RouteInv, SipP!ChannelsAreFresh
  <2>4. ASSUME NEW type \in CallEvents
        PROVE  Cardinality(Notified(HeardAs(type), ch)) <= Sip!EventCount(c, type)
    <3>1. Notified(HeardAs(type), ch) = NotifiedIn(notifications, HeardAs(type), ch)
      BY DEF Notified, NotifiedIn
    <3>2. EventsOn(ch, type) = Sip!EventCount(c, type)
      BY <2>2, <2>3, SameFiniteSets DEF EventsOn, Sip!EventCount, SipP!EventsIn
    <3>3. Cardinality(NotifiedIn(notifications, HeardAs(type), ch)) <= EventsOn(ch, type)
      BY <2>2 DEF EventsBounded
    <3> QED
      BY <3>1, <3>2, <3>3
  <2>5. /\ HeardAs("NEWCALL") = "CALL_INCOMING" /\ HeardAs("CALLANSWERED") = "CALL_CONNECTED"
        /\ HeardAs("CALLCLEARED") = "CALL_CLEARED"
    BY DEF HeardAs
  <2> QED
    BY <2>4, <2>5 DEF CallEvents
<1> QED
  BY <1>1, <1>2, <1>3, PTL DEF Spec
=============================================================================
