---------------------------- MODULE SipDialogues ----------------------------
(***************************************************************************)
(* SIP call control of the recorder: SipInterface's request handlers over  *)
(* SipDialogueManager, SipDialogue and SipTransaction.                     *)
(*                                                                         *)
(* Requests reach the interface in any order and any number of times (UDP  *)
(* loses, repeats and reorders them), and the application calls the API    *)
(* whenever its media server answers.  One libuv loop runs everything, so  *)
(* a handler is one action.  Upcalls to the application (handler(&event))  *)
(* and responses put on the wire are logged per Call-ID.                   *)
(*                                                                         *)
(* The dialogue manager is a static object: its constructor asks for the   *)
(* logger before main registers it and keeps a null pointer.  A call       *)
(* through that pointer is undefined; a build in which it ends the process *)
(* handles no request and no call of the application.                      *)
(***************************************************************************)
EXTENDS Naturals, Sequences, FiniteSets

CONSTANTS
  CallIds,         \* Call-ID header values
  Offers,          \* SDP bodies an INVITE can carry
  Answers,         \* SDP bodies the application can answer with
  CSeqs,           \* CSeq header values
  ChannelModulus,  \* channel ids are unsigned and wrap: 2^32 in the code
  NoDialogue       \* the null dialogue pointer

Channels == 0 .. ChannelModulus - 1

ASSUME ChannelModulusAssumption == ChannelModulus \in Nat \ {0, 1}

\* SipDialogue::DialogueState; no code ever enters OUTGOING or CLEARING.
DialogueState ==
  {"NONE", "INCOMING", "OUTGOING", "CONNECTED", "CLEARING", "CLEARED"}

\* What the transaction keeps of the INVITE that started it.
Transaction == [cseq : CSeqs, sdpOffer : Offers]

Dialogue == [channelId : Channels, state : DialogueState,
             recording : BOOLEAN, transaction : Transaction]

ASSUME NoDialogueAssumption == NoDialogue \notin CallIds \cup Dialogue

Request ==
       [method : {"INVITE"}, callId : CallIds, cseq : CSeqs, sdp : Offers]
  \cup [method : {"ACK", "BYE", "OPTIONS", "SUBSCRIBE"},
        callId : CallIds, cseq : CSeqs]

Event == [type : {"NEWCALL", "CALLANSWERED", "CALLCLEARED",
                  "MEDIA_RECORDING_STARTED"}, channelId : Channels]

\* The CSeq header a response repeats names the request's method.
Response == [status : {"TRYING"}, method : {"INVITE"}, cseq : CSeqs]
       \cup [status : {"OK"}, method : {"BYE", "SUBSCRIBE"}, cseq : CSeqs]
       \cup [status : {"OK"}, method : {"INVITE"}, cseq : CSeqs, sdp : Answers]

VARIABLES
  callIdToDialogueMap,   \* Call-ID -> dialogue, NoDialogue when unmapped
  channelToDialogueMap,  \* channel id -> Call-ID of the dialogue it points to
  lastChannelId,
  events,                \* per Call-ID: the events passed to the application
  responses,             \* per Call-ID: the responses sent
  running,               \* has the process not ended?
  logEnds                \* of the build: does a call through a null logger end it?

dialogueVars == <<callIdToDialogueMap, channelToDialogueMap, lastChannelId>>
callVars == <<dialogueVars, events, responses>>
vars == <<callVars, running, logEnds>>

Init ==
  /\ running = TRUE
  /\ logEnds \in BOOLEAN
  /\ callIdToDialogueMap = [c \in CallIds |-> NoDialogue]
  /\ channelToDialogueMap = [ch \in Channels |-> NoDialogue]
  /\ lastChannelId = 0
  /\ events = [c \in CallIds |-> <<>>]
  /\ responses = [c \in CallIds |-> <<>>]

-----------------------------------------------------------------------------
HasDialogue(c) == callIdToDialogueMap[c] # NoDialogue

StateIs(c, s) == HasDialogue(c) /\ callIdToDialogueMap[c].state = s

\* Mutants: a counter wider than the channel ids; one that is not advanced.
NextChannelIdUnwrapped == lastChannelId + 1
NextChannelIdStuck == lastChannelId

NextChannelId == (lastChannelId + 1) % ChannelModulus

NewDialogue(invite) ==
  [channelId |-> NextChannelId, state |-> "NONE", recording |-> FALSE,
   transaction |-> [cseq |-> invite.cseq, sdpOffer |-> invite.sdp]]

SetState(c, s) ==
  callIdToDialogueMap' = [callIdToDialogueMap EXCEPT ![c].state = s]

EventOf(c, type) ==
  [type |-> type, channelId |-> callIdToDialogueMap[c].channelId]

Raise(c, raised) == events' = [events EXCEPT ![c] = @ \o raised]

Send(c, response) == responses' = [responses EXCEPT ![c] = Append(@, response)]

Ok(request) == [status |-> "OK", method |-> request.method, cseq |-> request.cseq]

\* The common end of processInvite for dialogue d: every INVITE, whether the
\* dialogue is new, ringing, connected or cleared, puts it (back) to INCOMING.
ProcessInvite(invite, d) ==
  LET c == invite.callId IN
  /\ callIdToDialogueMap' =
       [callIdToDialogueMap EXCEPT ![c] = [d EXCEPT !.state = "INCOMING"]]
  /\ Send(c, [status |-> "TRYING", method |-> "INVITE", cseq |-> invite.cseq])
  /\ Raise(c, <<[type |-> "NEWCALL", channelId |-> d.channelId]>>)

\* An INVITE with an unknown Call-ID: startTransaction makes the dialogue.
\* std::map::insert leaves a channel id that is already mapped as it is.
ReceiveFirstInvite(invite) ==
  /\ invite.method = "INVITE"
  /\ ~HasDialogue(invite.callId)
  /\ lastChannelId' = NextChannelId
  /\ channelToDialogueMap' =
       [channelToDialogueMap EXCEPT
          ![NextChannelId] = IF @ = NoDialogue THEN invite.callId ELSE @]
  /\ ProcessInvite(invite, NewDialogue(invite))

\* Mutants: every INVITE starts a transaction; a repeated one gets no response.
ReceiveFurtherInviteRearming(invite) ==
  LET d == callIdToDialogueMap[invite.callId] IN
  /\ invite.method = "INVITE"
  /\ HasDialogue(invite.callId)
  /\ ProcessInvite(invite, [d EXCEPT !.transaction = [cseq |-> invite.cseq, sdpOffer |-> invite.sdp]])
  /\ UNCHANGED <<channelToDialogueMap, lastChannelId>>

ReceiveFurtherInviteQuietly(invite) ==
  /\ invite.method = "INVITE"
  /\ HasDialogue(invite.callId)
  /\ SetState(invite.callId, "INCOMING")
  /\ Raise(invite.callId, <<EventOf(invite.callId, "NEWCALL")>>)
  /\ UNCHANGED <<channelToDialogueMap, lastChannelId, responses>>

\* An INVITE on a known Call-ID (a retransmission, a re-INVITE or the Call-ID
\* used again): the dialogue's first transaction stays the current one.
ReceiveFurtherInvite(invite) ==
  /\ invite.method = "INVITE"
  /\ HasDialogue(invite.callId)
  /\ ProcessInvite(invite, callIdToDialogueMap[invite.callId])
  /\ UNCHANGED <<channelToDialogueMap, lastChannelId>>

\* Mutant: an ACK is taken in every state.
ReceiveAckAlways(ack) ==
  /\ ack.method = "ACK"
  /\ HasDialogue(ack.callId)
  /\ SetState(ack.callId, "CONNECTED")
  /\ Raise(ack.callId, <<EventOf(ack.callId, "CALLANSWERED")>>)
  /\ UNCHANGED <<channelToDialogueMap, lastChannelId, responses>>

\* In any other state the ACK changes nothing.
ReceiveAck(ack) ==
  /\ ack.method = "ACK"
  /\ StateIs(ack.callId, "INCOMING")
  /\ SetState(ack.callId, "CONNECTED")
  /\ Raise(ack.callId, <<EventOf(ack.callId, "CALLANSWERED")>>)
  /\ UNCHANGED <<channelToDialogueMap, lastChannelId, responses>>

\* A recorded call raises the recording event (its "started" flavour) with the
\* BYE's own channelId, a member no constructor and no request path sets.
RecordingEvents(c, uninitialised) ==
  IF callIdToDialogueMap[c].recording
  THEN <<[type |-> "MEDIA_RECORDING_STARTED", channelId |-> uninitialised]>>
  ELSE <<>>

\* Mutant: the BYE releases the dialogue.
ReceiveByeReleasing(bye) ==
  /\ bye.method = "BYE"
  /\ StateIs(bye.callId, "CONNECTED")
  /\ callIdToDialogueMap' = [callIdToDialogueMap EXCEPT ![bye.callId] = NoDialogue]
  /\ Send(bye.callId, Ok(bye))
  /\ Raise(bye.callId, <<EventOf(bye.callId, "CALLCLEARED")>>)
  /\ UNCHANGED <<channelToDialogueMap, lastChannelId>>

\* In any other state the BYE is neither answered nor acted on (CLEARING, the
\* other state processBye looks for, is never entered).
ReceiveBye(bye) ==
  /\ bye.method = "BYE"
  /\ StateIs(bye.callId, "CONNECTED")
  /\ SetState(bye.callId, "CLEARED")
  /\ Send(bye.callId, Ok(bye))
  /\ \E garbage \in Channels :
       Raise(bye.callId, Append(RecordingEvents(bye.callId, garbage),
                                EventOf(bye.callId, "CALLCLEARED")))
  /\ UNCHANGED <<channelToDialogueMap, lastChannelId>>

\* SUBSCRIBE is accepted, but only on a Call-ID that has a dialogue.
ReceiveSubscribe(subscribe) ==
  /\ subscribe.method = "SUBSCRIBE"
  /\ HasDialogue(subscribe.callId)
  /\ Send(subscribe.callId, Ok(subscribe))
  /\ UNCHANGED <<dialogueVars, events>>

\* OPTIONS has an empty handler; requests without a dialogue are dropped.
ReceiveIgnored(request) ==
  /\ \/ request.method = "OPTIONS"
     \/ request.method # "INVITE" /\ ~HasDialogue(request.callId)
     \/ request.method = "ACK" /\ ~StateIs(request.callId, "INCOMING")
     \/ request.method = "BYE" /\ ~StateIs(request.callId, "CONNECTED")
  /\ UNCHANGED callVars

\* updateTransaction and the handler it leads to, where logging does no harm.
ProcessMessage(request) ==
  \/ ReceiveFirstInvite(request)
  \/ ReceiveFurtherInvite(request)
  \/ ReceiveAck(request)
  \/ ReceiveBye(request)
  \/ ReceiveSubscribe(request)
  \/ ReceiveIgnored(request)

-----------------------------------------------------------------------------
\* What getMediaOffer returns; a channel without a dialogue has no offer.
MediaOffer(ch) == callIdToDialogueMap[channelToDialogueMap[ch]].transaction.sdpOffer

\* answerCall: the 200 OK is built from the transaction's INVITE, whatever the
\* state of the dialogue.
AnswerCall(ch, answer) ==
  LET c == channelToDialogueMap[ch] IN
  /\ c # NoDialogue
  /\ Send(c, [status |-> "OK", method |-> "INVITE", sdp |-> answer,
              cseq |-> callIdToDialogueMap[c].transaction.cseq])
  /\ UNCHANGED <<dialogueVars, events>>

StartRecordingCall(ch) ==
  LET c == channelToDialogueMap[ch] IN
  /\ c # NoDialogue
  /\ callIdToDialogueMap' = [callIdToDialogueMap EXCEPT ![c].recording = TRUE]
  /\ Raise(c, <<EventOf(c, "MEDIA_RECORDING_STARTED")>>)
  /\ UNCHANGED <<channelToDialogueMap, lastChannelId, responses>>

\* A request of a peer, or a call of the application.
CallStep ==
  \/ \E request \in Request : ProcessMessage(request)
  \/ \E ch \in Channels, answer \in Answers : AnswerCall(ch, answer)
  \/ \E ch \in Channels : StartRecordingCall(ch)

\* Whatever the dialogue manager is asked, it first of all calls through its null
\* logger (updateTransaction, retrieveDialogue).
EndAtLogger == running' = FALSE /\ UNCHANGED callVars

Next ==
  /\ running
  /\ UNCHANGED logEnds
  /\ IF logEnds THEN EndAtLogger ELSE CallStep /\ UNCHANGED running

Spec == Init /\ [][Next]_vars

-----------------------------------------------------------------------------
(* Properties *)

CallTypeOK ==
  /\ callIdToDialogueMap \in [CallIds -> Dialogue \cup {NoDialogue}]
  /\ channelToDialogueMap \in [Channels -> CallIds \cup {NoDialogue}]
  /\ lastChannelId \in Channels
  /\ events \in [CallIds -> Seq(Event)]
  /\ responses \in [CallIds -> Seq(Response)]

\* Every variable stays within its type: dialogues, both maps and both logs
\* (startTransaction, getNextChannelId and the request handlers).
TypeOK == CallTypeOK /\ running \in BOOLEAN /\ logEnds \in BOOLEAN

PrecededBy(log, i, type) ==
  \E j \in 1 .. i - 1 :
    /\ log[j].type = type
    /\ \A k \in j + 1 .. i - 1 : log[k].type = "MEDIA_RECORDING_STARTED"

InProtocol(log) ==
  \A i \in 1 .. Len(log) :
    /\ log[i].type = "CALLANSWERED" => PrecededBy(log, i, "NEWCALL")
    /\ log[i].type = "CALLCLEARED" => PrecededBy(log, i, "CALLANSWERED")
    /\ i = 1 => log[i].type = "NEWCALL"

\* The application never hears of a call out of order, whatever the network
\* repeats, loses or reorders: recording events aside, an answered call was
\* announced just before, a cleared call was answered just before, and nothing
\* comes before the announcement (processInvite, processAck, processBye).
EventsFollowProtocol == \A c \in CallIds : InProtocol(events[c])

Dialogues == {c \in CallIds : HasDialogue(c)}

\* While no more dialogues exist than channel ids, the channel id of every call
\* event the application was ever given still leads back to that very call
\* (getNextChannelId and the two maps): an answer cannot reach another call.
ChannelsRouteToCalls ==
  Cardinality(Dialogues) <= ChannelModulus =>
    \A c \in CallIds : \A i \in 1 .. Len(events[c]) :
      events[c][i].type # "MEDIA_RECORDING_STARTED" =>
        channelToDialogueMap[events[c][i].channelId] = c

IsAnswer(response) == response.status = "OK" /\ response.method = "INVITE"

\* Every answer sent on a call names the CSeq of the call's first INVITE (the
\* first request the call's first response was for): a re-INVITE, whose CSeq is
\* another, is announced to the application and never answered (answerCall).
AnswersNameFirstInvite ==
  \A c \in CallIds : \A i \in 1 .. Len(responses[c]) :
    IsAnswer(responses[c][i]) =>
      /\ responses[c][1].status = "TRYING"
      /\ responses[c][i].cseq = responses[c][1].cseq

\* A dialogue is never removed and never re-armed: its channel id and the offer
\* that getMediaOffer returns stay those of the first INVITE on the Call-ID,
\* also when the Call-ID is used again after the call was cleared.
DialoguesArePermanent ==
  [][\A c \in Dialogues :
       /\ HasDialogue(c)'
       /\ callIdToDialogueMap'[c].channelId = callIdToDialogueMap[c].channelId
       /\ callIdToDialogueMap'[c].transaction = callIdToDialogueMap[c].transaction
    ]_vars

EventCount(c, type) == Cardinality({i \in DOMAIN events[c] : events[c][i].type = type})

ResponseCount(c, status, method) ==
  Cardinality({i \in DOMAIN responses[c] :
    responses[c][i].status = status /\ responses[c][i].method = method})

\* What the application is told and what the peer is told agree: as many calls
\* announced as INVITEs acknowledged, as many cleared as BYEs accepted.
UpcallsMatchResponses ==
  \A c \in CallIds :
    /\ EventCount(c, "NEWCALL") = ResponseCount(c, "TRYING", "INVITE")
    /\ EventCount(c, "CALLCLEARED") = ResponseCount(c, "OK", "BYE")

\* What updateTransaction says of an INVITE whose CSeq is the transaction's,
\* "Sequence numbers match, ignoring": a retransmission is not a new call, so
\* there is at most one announcement for each CSeq the call has seen.
RetransmissionsIgnored ==
  \A c \in CallIds :
    EventCount(c, "NEWCALL") <=
      Cardinality({responses[c][i].cseq : i \in DOMAIN responses[c]})
=============================================================================
