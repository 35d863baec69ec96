------------------------- MODULE SipDialoguesProofs -------------------------
(* Theorems about SipDialogues, for every set of calls, offers, answers and  *)
(* CSeqs and every channel modulus.                                          *)
EXTENDS SipDialogues, DataLemmas

\* A step that ends the process leaves the calls as they are.
LEMMA StepOfCalls == [Next]_vars => [CallStep]_callVars
BY DEF Next, EndAtLogger, vars, callVars, dialogueVars

Invite == [method : {"INVITE"}, callId : CallIds, cseq : CSeqs, sdp : Offers]

\* A request whose method is INVITE carries an offer.
LEMMA InviteType ==
  ASSUME NEW r \in Request, r.method = "INVITE"
  PROVE  r \in Invite
BY DEF Request, Invite

LEMMA NextChannelIdType ==
  ASSUME lastChannelId \in Channels
  PROVE  NextChannelId \in Channels
BY ChannelModulusAssumption DEF NextChannelId, Channels

LEMMA RaiseType ==
  ASSUME events \in [CallIds -> Seq(Event)],
         NEW c \in CallIds, NEW raised \in Seq(Event), Raise(c, raised)
  PROVE  events' \in [CallIds -> Seq(Event)]
<1>1. events[c] \o raised \in Seq(Event)
  OBVIOUS
<1> QED
  BY <1>1 DEF Raise

LEMMA SendType ==
  ASSUME responses \in [CallIds -> Seq(Response)],
         NEW c \in CallIds, NEW response \in Response, Send(c, response)
  PROVE  responses' \in [CallIds -> Seq(Response)]
<1>1. Append(responses[c], response) \in Seq(Response)
  OBVIOUS
<1> QED
  BY <1>1 DEF Send

LEMMA SetStateType ==
  ASSUME callIdToDialogueMap \in [CallIds -> Dialogue \cup {NoDialogue}],
         NEW c \in CallIds, callIdToDialogueMap[c] \in Dialogue,
         NEW s \in DialogueState, SetState(c, s)
  PROVE  callIdToDialogueMap' \in [CallIds -> Dialogue \cup {NoDialogue}]
<1>1. [callIdToDialogueMap[c] EXCEPT !.state = s] \in Dialogue
  BY DEF Dialogue
<1> QED
  BY <1>1 DEF SetState

LEMMA ProcessInviteType ==
  ASSUME CallTypeOK, NEW invite \in Invite, NEW d \in Dialogue, ProcessInvite(invite, d)
  PROVE  /\ callIdToDialogueMap' \in [CallIds -> Dialogue \cup {NoDialogue}]
         /\ events' \in [CallIds -> Seq(Event)]
         /\ responses' \in [CallIds -> Seq(Response)]
<1>1. invite.callId \in CallIds /\ invite.cseq \in CSeqs
  BY DEF Invite
<1>2. [d EXCEPT !.state = "INCOMING"] \in Dialogue
  BY DEF Dialogue, DialogueState
<1>3. [status |-> "TRYING", method |-> "INVITE", cseq |-> invite.cseq] \in Response
  BY <1>1 DEF Response
<1>4. <<[type |-> "NEWCALL", channelId |-> d.channelId]>> \in Seq(Event)
  <2>1. [type |-> "NEWCALL", channelId |-> d.channelId] \in Event
    BY DEF Event, Dialogue
  <2> QED
    BY <2>1
<1>5. callIdToDialogueMap' \in [CallIds -> Dialogue \cup {NoDialogue}]
  BY <1>1, <1>2 DEF CallTypeOK, ProcessInvite
<1>6. events' \in [CallIds -> Seq(Event)]
  BY <1>1, <1>4, RaiseType DEF CallTypeOK, ProcessInvite
<1>7. responses' \in [CallIds -> Seq(Response)]
  BY <1>1, <1>3, SendType DEF CallTypeOK, ProcessInvite
<1> QED
  BY <1>5, <1>6, <1>7

\* A channel leads to a call that has a dialogue: what answerCall relies on
\* when it takes the transaction of the dialogue it finds.
ChannelsHaveDialogues ==
  \A ch \in Channels :
    channelToDialogueMap[ch] # NoDialogue => HasDialogue(channelToDialogueMap[ch])

LEMMA TypeStep ==
  ASSUME CallTypeOK, ChannelsHaveDialogues, [CallStep]_callVars
  PROVE  CallTypeOK'
<1> USE DEF CallTypeOK
<1>1. ASSUME NEW r \in Request, ReceiveFirstInvite(r) PROVE CallTypeOK'
  <2>1. r \in Invite
    BY <1>1, InviteType DEF ReceiveFirstInvite
  <2>2. NextChannelId \in Channels
    BY NextChannelIdType
  <2>3. NewDialogue(r) \in Dialogue
    BY <2>1, <2>2 DEF Invite, NewDialogue, Dialogue, DialogueState, Transaction
  <2>4. channelToDialogueMap' \in [Channels -> CallIds \cup {NoDialogue}]
    BY <1>1, <2>1 DEF ReceiveFirstInvite, Invite
  <2> QED
    BY <1>1, <2>1, <2>2, <2>3, <2>4, ProcessInviteType DEF ReceiveFirstInvite
<1>2. ASSUME NEW r \in Request, ReceiveFurtherInvite(r) PROVE CallTypeOK'
  <2>1. r \in Invite
    BY <1>2, InviteType DEF ReceiveFurtherInvite
  <2>2. callIdToDialogueMap[r.callId] \in Dialogue
    BY <1>2, <2>1 DEF ReceiveFurtherInvite, HasDialogue, Invite
  <2> QED
    BY <1>2, <2>1, <2>2, ProcessInviteType DEF ReceiveFurtherInvite
<1>3. ASSUME NEW r \in Request, ReceiveAck(r) PROVE CallTypeOK'
  <2>1. r.callId \in CallIds
    BY DEF Request
  <2>2. callIdToDialogueMap[r.callId] \in Dialogue
    BY <1>3, <2>1 DEF ReceiveAck, StateIs, HasDialogue
  <2>3. <<EventOf(r.callId, "CALLANSWERED")>> \in Seq(Event)
    <3>1. EventOf(r.callId, "CALLANSWERED") \in Event
      BY <2>2 DEF EventOf, Event, Dialogue
    <3> QED
      BY <3>1
  <2>4. callIdToDialogueMap' \in [CallIds -> Dialogue \cup {NoDialogue}]
    BY <1>3, <2>1, <2>2, SetStateType DEF ReceiveAck, DialogueState
  <2>5. events' \in [CallIds -> Seq(Event)]
    BY <1>3, <2>1, <2>3, RaiseType DEF ReceiveAck
  <2> QED
    BY <1>3, <2>4, <2>5 DEF ReceiveAck
<1>4. ASSUME NEW r \in Request, ReceiveBye(r) PROVE CallTypeOK'
  <2>1. r.callId \in CallIds /\ r.cseq \in CSeqs /\ r.method = "BYE"
    BY <1>4 DEF Request, ReceiveBye
  <2>2. callIdToDialogueMap[r.callId] \in Dialogue
    BY <1>4, <2>1 DEF ReceiveBye, StateIs, HasDialogue
  <2>3. callIdToDialogueMap' \in [CallIds -> Dialogue \cup {NoDialogue}]
    BY <1>4, <2>1, <2>2, SetStateType DEF ReceiveBye, DialogueState
  <2>4. events' \in [CallIds -> Seq(Event)]
    <3>1. PICK garbage \in Channels :
            Raise(r.callId, Append(RecordingEvents(r.callId, garbage),
                                   EventOf(r.callId, "CALLCLEARED")))
      BY <1>4 DEF ReceiveBye
    <3>2. EventOf(r.callId, "CALLCLEARED") \in Event
      BY <2>2 DEF EventOf, Event, Dialogue
    <3>3. [type |-> "MEDIA_RECORDING_STARTED", channelId |-> garbage] \in Event
      BY DEF Event
    <3>4. RecordingEvents(r.callId, garbage) \in Seq(Event)
      BY <3>3 DEF RecordingEvents
    <3>5. Append(RecordingEvents(r.callId, garbage), EventOf(r.callId, "CALLCLEARED"))
            \in Seq(Event)
      BY <3>2, <3>4
    <3> QED
      BY <2>1, <3>1, <3>5, RaiseType
  <2>5. Ok(r) \in Response
    BY <2>1 DEF Ok, Response
  <2> QED
    BY <1>4, <2>1, <2>3, <2>4, <2>5, SendType DEF ReceiveBye
<1>5. ASSUME NEW r \in Request, ReceiveSubscribe(r) PROVE CallTypeOK'
  <2>1. r.callId \in CallIds /\ Ok(r) \in Response
    BY <1>5 DEF Request, ReceiveSubscribe, Ok, Response
  <2> QED
    BY <1>5, <2>1, SendType DEF ReceiveSubscribe, dialogueVars
<1>6. ASSUME NEW r \in Request, ReceiveIgnored(r) PROVE CallTypeOK'
  BY <1>6 DEF ReceiveIgnored, callVars, dialogueVars
<1>7. ASSUME NEW ch \in Channels, NEW answer \in Answers, AnswerCall(ch, answer) PROVE CallTypeOK'
  <2> DEFINE c == channelToDialogueMap[ch]
             ok == [status |-> "OK", method |-> "INVITE", sdp |-> answer,
                    cseq |-> callIdToDialogueMap[c].transaction.cseq]
  <2>1. c \in CallIds /\ callIdToDialogueMap[c] \in Dialogue
    BY <1>7 DEF AnswerCall, ChannelsHaveDialogues, HasDialogue
  <2>2. ok \in Response
    BY <2>1 DEF Response, Dialogue, Transaction
  <2> QED
    BY <1>7, <2>1, <2>2, SendType DEF AnswerCall, dialogueVars
<1>8. ASSUME NEW ch \in Channels, StartRecordingCall(ch) PROVE CallTypeOK'
  <2> DEFINE c == channelToDialogueMap[ch]
  <2>1. c \in CallIds /\ callIdToDialogueMap[c] \in Dialogue
    BY <1>8 DEF StartRecordingCall, ChannelsHaveDialogues, HasDialogue
  <2>2. <<EventOf(c, "MEDIA_RECORDING_STARTED")>> \in Seq(Event)
    <3>1. EventOf(c, "MEDIA_RECORDING_STARTED") \in Event
      BY <2>1 DEF EventOf, Event, Dialogue
    <3> QED
      BY <3>1
  <2>3. callIdToDialogueMap' \in [CallIds -> Dialogue \cup {NoDialogue}]
    BY <1>8, <2>1 DEF StartRecordingCall, Dialogue
  <2> QED
    BY <1>8, <2>1, <2>2, <2>3, RaiseType DEF StartRecordingCall
<1>9. CASE UNCHANGED callVars
  BY <1>9 DEF callVars, dialogueVars
<1> QED
  BY <1>1, <1>2, <1>3, <1>4, <1>5, <1>6, <1>7, <1>8, <1>9 DEF CallStep, ProcessMessage

\* A step writes one call's dialogue at most, and of a dialogue that exists
\* neither the channel nor the transaction.
DialogueWritten(k, d) ==
  /\ callIdToDialogueMap' = [callIdToDialogueMap EXCEPT ![k] = d]
  /\ HasDialogue(k) => /\ d.channelId = callIdToDialogueMap[k].channelId
                       /\ d.transaction = callIdToDialogueMap[k].transaction

LEMMA StepWritesOneDialogue ==
  ASSUME CallTypeOK, ChannelsHaveDialogues, [CallStep]_callVars
  PROVE  \/ UNCHANGED callIdToDialogueMap
         \/ \E k \in CallIds, d \in Dialogue :
              /\ DialogueWritten(k, d)
              /\ HasDialogue(k) \/ \E r \in Request : ReceiveFirstInvite(r)
<1> DEFINE Goal == \/ UNCHANGED callIdToDialogueMap
                   \/ \E k \in CallIds, d \in Dialogue :
                        /\ DialogueWritten(k, d)
                        /\ HasDialogue(k) \/ \E r \in Request : ReceiveFirstInvite(r)
<1> USE DEF CallTypeOK, DialogueWritten
<1>1. ASSUME NEW r \in Request, ReceiveFirstInvite(r) PROVE Goal
  <2>1. r \in Invite
    BY <1>1, InviteType DEF ReceiveFirstInvite
  <2> DEFINE d == [NewDialogue(r) EXCEPT !.state = "INCOMING"]
  <2>2. d \in Dialogue
    BY <2>1, NextChannelIdType DEF Invite, NewDialogue, Dialogue, DialogueState, Transaction
  <2>3. DialogueWritten(r.callId, d)
    BY <1>1 DEF ReceiveFirstInvite, ProcessInvite
  <2> QED
    BY <1>1, <2>1, <2>2, <2>3 DEF Invite
<1>2. ASSUME NEW r \in Request, ReceiveFurtherInvite(r) PROVE Goal
  <2>1. r.callId \in CallIds /\ callIdToDialogueMap[r.callId] \in Dialogue
    BY <1>2 DEF ReceiveFurtherInvite, HasDialogue, Request
  <2> DEFINE d == [callIdToDialogueMap[r.callId] EXCEPT !.state = "INCOMING"]
  <2>2. d \in Dialogue /\ d.channelId = callIdToDialogueMap[r.callId].channelId
                       /\ d.transaction = callIdToDialogueMap[r.callId].transaction
    BY <2>1 DEF Dialogue, DialogueState
  <2>3. DialogueWritten(r.callId, d)
    BY <1>2, <2>2 DEF ReceiveFurtherInvite, ProcessInvite
  <2> QED
    BY <1>2, <2>1, <2>2, <2>3 DEF ReceiveFurtherInvite
<1>3. ASSUME NEW c \in CallIds, NEW s \in DialogueState, HasDialogue(c), SetState(c, s) PROVE Goal
  <2> DEFINE d == [callIdToDialogueMap[c] EXCEPT !.state = s]
  <2>1. callIdToDialogueMap[c] \in Dialogue
    BY <1>3 DEF HasDialogue
  <2>2. d \in Dialogue /\ d.channelId = callIdToDialogueMap[c].channelId
                       /\ d.transaction = callIdToDialogueMap[c].transaction
    BY <2>1 DEF Dialogue
  <2>3. DialogueWritten(c, d)
    BY <1>3, <2>2 DEF SetState
  <2> QED
    BY <1>3, <2>2, <2>3
<1>4. ASSUME NEW r \in Request, ReceiveAck(r) \/ ReceiveBye(r) PROVE Goal
  BY <1>3, <1>4 DEF ReceiveAck, ReceiveBye, StateIs, Request, DialogueState
<1>5. ASSUME NEW r \in Request, ReceiveSubscribe(r) \/ ReceiveIgnored(r) PROVE Goal
  BY <1>5 DEF ReceiveSubscribe, ReceiveIgnored, callVars, dialogueVars
<1>6. ASSUME NEW ch \in Channels, NEW answer \in Answers, AnswerCall(ch, answer) PROVE Goal
  BY <1>6 DEF AnswerCall, dialogueVars
<1>7. ASSUME NEW ch \in Channels, StartRecordingCall(ch) PROVE Goal
  <2> DEFINE c == channelToDialogueMap[ch]
             d == [callIdToDialogueMap[c] EXCEPT !.recording = TRUE]
  <2>1. c \in CallIds /\ callIdToDialogueMap[c] \in Dialogue /\ HasDialogue(c)
    BY <1>7 DEF StartRecordingCall, ChannelsHaveDialogues, HasDialogue
  <2>2. d \in Dialogue /\ d.channelId = callIdToDialogueMap[c].channelId
                       /\ d.transaction = callIdToDialogueMap[c].transaction
    BY <2>1 DEF Dialogue
  <2>3. DialogueWritten(c, d)
    BY <1>7, <2>2 DEF StartRecordingCall
  <2> QED
    BY <2>1, <2>2, <2>3
<1>8. CASE UNCHANGED callVars
  BY <1>8 DEF callVars, dialogueVars
<1> QED
  BY <1>1, <1>2, <1>4, <1>5, <1>6, <1>7, <1>8 DEF CallStep, ProcessMessage

LEMMA DialoguesStay ==
  ASSUME CallTypeOK, ChannelsHaveDialogues, [CallStep]_callVars, NEW c \in CallIds, HasDialogue(c)
  PROVE  /\ HasDialogue(c)'
         /\ callIdToDialogueMap'[c].channelId = callIdToDialogueMap[c].channelId
         /\ callIdToDialogueMap'[c].transaction = callIdToDialogueMap[c].transaction
<1>1. CASE UNCHANGED callIdToDialogueMap
  BY <1>1 DEF HasDialogue
<1>2. ASSUME NEW k \in CallIds, NEW d \in Dialogue, DialogueWritten(k, d)
      PROVE  /\ HasDialogue(c)'
             /\ callIdToDialogueMap'[c].channelId = callIdToDialogueMap[c].channelId
             /\ callIdToDialogueMap'[c].transaction = callIdToDialogueMap[c].transaction
  <2>1. CASE c = k
    BY <1>2, <2>1, NoDialogueAssumption DEF DialogueWritten, HasDialogue, CallTypeOK
  <2>2. CASE c # k
    BY <1>2, <2>2 DEF DialogueWritten, HasDialogue, CallTypeOK
  <2> QED
    BY <2>1, <2>2
<1> QED
  BY <1>1, <1>2, StepWritesOneDialogue

\* Only the first INVITE of a call makes a dialogue and maps a channel.
LEMMA OnlyFirstInvitesAddDialogues ==
  ASSUME CallTypeOK, ChannelsHaveDialogues, [CallStep]_callVars,
         ~ \E r \in Request : ReceiveFirstInvite(r)
  PROVE  /\ UNCHANGED <<channelToDialogueMap, lastChannelId>>
         /\ Dialogues' = Dialogues
<1>1. UNCHANGED <<channelToDialogueMap, lastChannelId>>
  BY DEF CallStep, ProcessMessage, ReceiveFurtherInvite, ReceiveAck, ReceiveBye, ReceiveSubscribe,
         ReceiveIgnored, AnswerCall, StartRecordingCall, callVars, dialogueVars
<1>2. ASSUME NEW c \in CallIds, HasDialogue(c)' PROVE HasDialogue(c)
  BY <1>2, StepWritesOneDialogue DEF DialogueWritten, HasDialogue, CallTypeOK
<1> QED
  BY <1>1, <1>2, DialoguesStay DEF Dialogues

LEMMA ChannelsHaveDialoguesStep ==
  ASSUME CallTypeOK, ChannelsHaveDialogues, [CallStep]_callVars
  PROVE  ChannelsHaveDialogues'
<1>1. ASSUME NEW r \in Request, ReceiveFirstInvite(r),
             NEW ch \in Channels, channelToDialogueMap'[ch] # NoDialogue
      PROVE  callIdToDialogueMap'[channelToDialogueMap'[ch]] # NoDialogue
  <2>1. r \in Invite /\ r.callId \in CallIds
    BY <1>1, InviteType DEF ReceiveFirstInvite, Invite
  <2>2. [NewDialogue(r) EXCEPT !.state = "INCOMING"] \in Dialogue
    BY <2>1, NextChannelIdType DEF Invite, NewDialogue, Dialogue, DialogueState, Transaction, CallTypeOK
  <2>3. callIdToDialogueMap'[r.callId] # NoDialogue
    BY <1>1, <2>1, <2>2, NoDialogueAssumption DEF ReceiveFirstInvite, ProcessInvite, HasDialogue, CallTypeOK
  <2>4. channelToDialogueMap'[ch] \in {r.callId, channelToDialogueMap[ch]}
    BY <1>1 DEF ReceiveFirstInvite, CallTypeOK
  <2>5. CASE channelToDialogueMap'[ch] = channelToDialogueMap[ch]
    <3>1. channelToDialogueMap[ch] \in CallIds /\ HasDialogue(channelToDialogueMap[ch])
      BY <1>1, <2>5 DEF ChannelsHaveDialogues, CallTypeOK
    <3> QED
      BY <2>5, <3>1, DialoguesStay DEF HasDialogue
  <2> QED
    BY <2>3, <2>4, <2>5
<1>2. ASSUME UNCHANGED channelToDialogueMap PROVE ChannelsHaveDialogues'
  BY <1>2, DialoguesStay DEF ChannelsHaveDialogues, HasDialogue, CallTypeOK
<1> QED
  BY <1>1, <1>2, OnlyFirstInvitesAddDialogues DEF ChannelsHaveDialogues, HasDialogue

TypeInv == CallTypeOK /\ ChannelsHaveDialogues

LEMMA TypeInit == Init => TypeInv
BY ChannelModulusAssumption DEF Init, TypeInv, CallTypeOK, ChannelsHaveDialogues, Channels

LEMMA TypeInvStep == TypeInv /\ [CallStep]_callVars => TypeInv'
BY TypeStep, ChannelsHaveDialoguesStep DEF TypeInv

LEMMA TypeInvariance == Spec => []TypeInv
BY TypeInit, TypeInvStep, StepOfCalls, PTL DEF Spec

\* Every variable of the SIP interface keeps its type (TypeOK): in particular the
\* recording event of a BYE is well typed whatever its channel is.
THEOREM TypeCorrect == Spec => []TypeOK
<1> DEFINE ProcessOK == running \in BOOLEAN /\ logEnds \in BOOLEAN
<1>1. TypeInv /\ ProcessOK => TypeOK
  BY DEF TypeInv, TypeOK
<1>2. Init => ProcessOK
  BY DEF Init
<1>3. ProcessOK /\ [Next]_vars => ProcessOK'
  BY DEF Next, EndAtLogger, vars
<1> HIDE DEF ProcessOK
<1> QED
  BY <1>1, <1>2, <1>3, TypeInvariance, PTL DEF Spec

\* No dialogue is removed and none is re-armed (DialoguesArePermanent).
THEOREM PermanentDialogues == Spec => DialoguesArePermanent
<1>1. TypeInv /\ [CallStep]_callVars =>
        [\A c \in Dialogues :
           /\ HasDialogue(c)'
           /\ callIdToDialogueMap'[c].channelId = callIdToDialogueMap[c].channelId
           /\ callIdToDialogueMap'[c].transaction = callIdToDialogueMap[c].transaction]_vars
  BY DialoguesStay DEF TypeInv, Dialogues
<1> QED
  BY <1>1, TypeInvariance, StepOfCalls, PTL DEF Spec, DialoguesArePermanent

-----------------------------------------------------------------------------
(* The order of events *)

\* The last event of a log, recordings aside.
LastIs(log, type) == PrecededBy(log, Len(log) + 1, type)

IsRecording(event) == event.type = "MEDIA_RECORDING_STARTED"

\* A log that is in protocol order stays so when events are added that end, after
\* recordings only, in one that may follow the log's last event.
LEMMA ProtocolExtends ==
  ASSUME NEW log \in Seq(Event), InProtocol(log),
         NEW raised \in Seq(Event), raised # <<>>,
         \A m \in 1 .. Len(raised) - 1 : IsRecording(raised[m]),
         raised[Len(raised)].type = "CALLANSWERED" => LastIs(log, "NEWCALL"),
         raised[Len(raised)].type = "CALLCLEARED" => LastIs(log, "CALLANSWERED"),
         log = <<>> => Len(raised) = 1 /\ raised[1].type = "NEWCALL"
  PROVE  /\ InProtocol(log \o raised)
         /\ LastIs(log \o raised, raised[Len(raised)].type)
<1> DEFINE longer == log \o raised
           n == Len(log)
           m == Len(raised)
<1>1. n \in Nat /\ m \in Nat /\ m >= 1 /\ Len(longer) = n + m
  OBVIOUS
<1>2. \A i \in 1 .. n : longer[i] = log[i]
  OBVIOUS
<1>3. \A i \in 1 .. m : longer[n + i] = raised[i]
  OBVIOUS
<1> HIDE DEF longer, n, m
<1>4. ASSUME NEW i \in 1 .. n, NEW type, PrecededBy(log, i, type)
      PROVE  PrecededBy(longer, i, type)
  <2>1. PICK j \in 1 .. i - 1 : /\ log[j].type = type
                                /\ \A k \in j + 1 .. i - 1 : IsRecording(log[k])
    BY <1>4 DEF PrecededBy, IsRecording
  <2>2. longer[j].type = type
    BY <1>1, <1>2, <2>1
  <2>3. \A k \in j + 1 .. i - 1 : IsRecording(longer[k])
    BY <1>1, <1>2, <2>1
  <2> QED
    BY <2>1, <2>2, <2>3 DEF PrecededBy, IsRecording
<1>5. ASSUME NEW type, LastIs(log, type) PROVE PrecededBy(longer, n + m, type)
  <2>1. PICK j \in 1 .. n : /\ log[j].type = type
                            /\ \A k \in j + 1 .. n : IsRecording(log[k])
    BY <1>1, <1>5 DEF LastIs, PrecededBy, IsRecording, n
  <2>2. ASSUME NEW k \in j + 1 .. n + m - 1 PROVE IsRecording(longer[k])
    <3>1. CASE k <= n
      BY <1>1, <1>2, <2>1, <3>1
    <3>2. CASE k > n
      <4>1. k - n \in 1 .. m - 1 /\ k = n + (k - n)
        BY <1>1, <3>2
      <4>2. longer[k] = raised[k - n]
        BY <1>3, <4>1, <1>1
      <4> QED
        BY <4>1, <4>2 DEF m
    <3> QED
      BY <1>1, <3>1, <3>2
  <2> QED
    BY <1>1, <1>2, <2>1, <2>2 DEF PrecededBy, IsRecording
<1>6. longer[n + m] = raised[m]
  BY <1>1, <1>3
<1>7. ASSUME NEW i \in 1 .. n + m
      PROVE  /\ longer[i].type = "CALLANSWERED" => PrecededBy(longer, i, "NEWCALL")
             /\ longer[i].type = "CALLCLEARED" => PrecededBy(longer, i, "CALLANSWERED")
             /\ i = 1 => longer[i].type = "NEWCALL"
  <2>1. CASE i <= n
    BY <1>1, <1>2, <1>4, <2>1 DEF InProtocol, n
  <2>2. CASE i > n /\ i < n + m
    <3>1. i - n \in 1 .. m - 1 /\ i = n + (i - n)
      BY <1>1, <2>2
    <3>2. IsRecording(longer[i])
      <4>1. longer[i] = raised[i - n]
        BY <1>1, <1>3, <3>1
      <4> QED
        BY <3>1, <4>1 DEF m
    <3>3. i # 1
      BY <1>1, <3>1 DEF n, m
    <3> QED
      BY <3>2, <3>3 DEF IsRecording
  <2>3. CASE i = n + m
    BY <1>1, <1>5, <1>6, <2>3 DEF n, m
  <2> QED
    BY <1>1, <2>1, <2>2, <2>3
<1>8. InProtocol(longer)
  BY <1>1, <1>7 DEF InProtocol
<1>9. LastIs(longer, raised[m].type)
  BY <1>1, <1>6 DEF LastIs, PrecededBy
<1> QED
  BY <1>8, <1>9 DEF longer, m

\* Recordings leave the last call event what it was.
LEMMA RecordingsKeepLast ==
  ASSUME NEW log \in Seq(Event), NEW event \in Event, IsRecording(event),
         NEW type, LastIs(log, type)
  PROVE  LastIs(log \o <<event>>, type)
<1> DEFINE longer == log \o <<event>>
<1>1. /\ Len(longer) = Len(log) + 1 /\ Len(log) \in Nat
      /\ longer[Len(log) + 1] = event
      /\ \A i \in 1 .. Len(log) : longer[i] = log[i]
  OBVIOUS
<1> HIDE DEF longer
<1>2. PICK j \in 1 .. Len(log) : /\ log[j].type = type
                                 /\ \A k \in j + 1 .. Len(log) : IsRecording(log[k])
  BY <1>1 DEF LastIs, PrecededBy, IsRecording
<1>3. \A k \in j + 1 .. Len(log) + 1 : IsRecording(longer[k])
  BY <1>1, <1>2
<1>4. LastIs(longer, type)
  BY <1>1, <1>2, <1>3 DEF LastIs, PrecededBy, IsRecording
<1> QED
  BY <1>4 DEF longer

\* What the events of a call say of its dialogue.
CallInProtocol(c) ==
  /\ InProtocol(events[c])
  /\ HasDialogue(c) <=> events[c] # <<>>
  /\ \A i \in 1 .. Len(events[c]) :
       IsRecording(events[c][i]) \/ events[c][i].channelId = callIdToDialogueMap[c].channelId
  /\ StateIs(c, "INCOMING") => LastIs(events[c], "NEWCALL")
  /\ StateIs(c, "CONNECTED") => LastIs(events[c], "CALLANSWERED")

ProtocolInv == TypeInv /\ \A c \in CallIds : CallInProtocol(c)

\* A step that raises events on a call and leaves its dialogue in a state that
\* fits the last of them.
LEMMA RaisingStep ==
  ASSUME TypeInv, NEW c \in CallIds, CallInProtocol(c),
         NEW d \in Dialogue, callIdToDialogueMap'[c] = d,
         HasDialogue(c) => d.channelId = callIdToDialogueMap[c].channelId,
         NEW raised \in Seq(Event), raised # <<>>, events'[c] = events[c] \o raised,
         \A m \in 1 .. Len(raised) - 1 : IsRecording(raised[m]),
         raised[Len(raised)].channelId = d.channelId,
         raised[Len(raised)].type = "CALLANSWERED" => LastIs(events[c], "NEWCALL"),
         raised[Len(raised)].type = "CALLCLEARED" => LastIs(events[c], "CALLANSWERED"),
         ~HasDialogue(c) => Len(raised) = 1 /\ raised[1].type = "NEWCALL",
         d.state = "INCOMING" => raised[Len(raised)].type = "NEWCALL",
         d.state = "CONNECTED" => raised[Len(raised)].type = "CALLANSWERED"
  PROVE  CallInProtocol(c)'
<1>1. events[c] \in Seq(Event) /\ InProtocol(events[c])
  BY DEF TypeInv, CallTypeOK, CallInProtocol
<1>2. events[c] = <<>> => Len(raised) = 1 /\ raised[1].type = "NEWCALL"
  BY DEF CallInProtocol
<1>3. InProtocol(events'[c]) /\ LastIs(events'[c], raised[Len(raised)].type)
  BY <1>1, <1>2, ProtocolExtends
<1>4. events'[c] # <<>>
  BY <1>1
<1>5. HasDialogue(c)'
  BY NoDialogueAssumption DEF HasDialogue
<1>6. \A i \in 1 .. Len(events'[c]) :
        IsRecording(events'[c][i]) \/ events'[c][i].channelId = d.channelId
  <2>1. ASSUME NEW i \in 1 .. Len(events[c])
        PROVE  IsRecording(events[c][i]) \/ events[c][i].channelId = d.channelId
    BY <1>1, <2>1 DEF CallInProtocol
  <2>2. ASSUME NEW i \in 1 .. Len(raised)
        PROVE  IsRecording(raised[i]) \/ raised[i].channelId = d.channelId
    OBVIOUS
  <2>3. ASSUME NEW i \in 1 .. Len(events'[c])
        PROVE  IsRecording(events'[c][i]) \/ events'[c][i].channelId = d.channelId
    <3>1. CASE i <= Len(events[c])
      BY <1>1, <2>1, <3>1
    <3>2. CASE i > Len(events[c])
      <4>1. i - Len(events[c]) \in 1 .. Len(raised) /\ events'[c][i] = raised[i - Len(events[c])]
        BY <1>1, <3>2
      <4> QED
        BY <2>2, <4>1
    <3> QED
      BY <1>1, <3>1, <3>2
  <2> QED
    BY <2>3
<1> QED
  BY <1>3, <1>4, <1>5, <1>6 DEF CallInProtocol, StateIs

\* A step that concerns other calls.
LEMMA OtherCall ==
  ASSUME NEW c \in CallIds, CallInProtocol(c), events'[c] = events[c],
         callIdToDialogueMap'[c] = callIdToDialogueMap[c]
  PROVE  CallInProtocol(c)'
BY DEF CallInProtocol, StateIs, HasDialogue

LEMMA ProtocolStep ==
  ASSUME ProtocolInv, [CallStep]_callVars, NEW c \in CallIds
  PROVE  CallInProtocol(c)'
<1> USE DEF ProtocolInv
<1>0. TypeInv /\ CallTypeOK /\ CallInProtocol(c) /\ ChannelsHaveDialogues
  BY DEF TypeInv
<1>1. ASSUME NEW r \in Invite, NEW d \in Dialogue, ProcessInvite(r, d),
             HasDialogue(r.callId) => d.channelId = callIdToDialogueMap[r.callId].channelId
      PROVE  CallInProtocol(c)'
  <2> DEFINE raised == <<[type |-> "NEWCALL", channelId |-> d.channelId]>>
  <2>1. /\ raised \in Seq(Event) /\ Len(raised) = 1
        /\ raised[1].type = "NEWCALL" /\ raised[1].channelId = d.channelId
    <3>1. [type |-> "NEWCALL", channelId |-> d.channelId] \in Event
      BY DEF Event, Dialogue
    <3> QED
      BY <3>1
  <2>2. [d EXCEPT !.state = "INCOMING"] \in Dialogue
    BY DEF Dialogue, DialogueState
  <2>3. CASE c = r.callId
    <3>1. events'[c] = events[c] \o raised
      BY <1>0, <1>1, <2>3 DEF ProcessInvite, Raise, CallTypeOK
    <3>2. callIdToDialogueMap'[c] = [d EXCEPT !.state = "INCOMING"]
      BY <1>0, <1>1, <2>3 DEF ProcessInvite, CallTypeOK
    <3> DEFINE e == [d EXCEPT !.state = "INCOMING"]
    <3>3. e \in Dialogue /\ e.state = "INCOMING" /\ e.channelId = d.channelId
      BY <2>2 DEF Dialogue
    <3>4. callIdToDialogueMap'[c] = e
      BY <3>2
    <3>5. HasDialogue(c) => e.channelId = callIdToDialogueMap[c].channelId
      BY <1>1, <2>3, <3>3
    <3> HIDE DEF raised, e
    <3> QED
      BY <1>0, <2>1, <3>1, <3>3, <3>4, <3>5, RaisingStep
  <2>4. CASE c # r.callId
    BY <1>0, <1>1, <2>4, OtherCall DEF ProcessInvite, Raise, CallTypeOK
  <2> QED
    BY <2>3, <2>4
<1>2. ASSUME NEW r \in Request, ReceiveFirstInvite(r) PROVE CallInProtocol(c)'
  <2>1. r \in Invite
    BY <1>2, InviteType DEF ReceiveFirstInvite
  <2>2. NewDialogue(r) \in Dialogue
    BY <1>0, <2>1, NextChannelIdType DEF Invite, NewDialogue, Dialogue, DialogueState, Transaction, CallTypeOK
  <2> QED
    BY <1>1, <1>2, <2>1, <2>2 DEF ReceiveFirstInvite
<1>3. ASSUME NEW r \in Request, ReceiveFurtherInvite(r) PROVE CallInProtocol(c)'
  <2>1. r \in Invite
    BY <1>3, InviteType DEF ReceiveFurtherInvite
  <2>2. callIdToDialogueMap[r.callId] \in Dialogue
    BY <1>0, <1>3, <2>1 DEF ReceiveFurtherInvite, HasDialogue, Invite, CallTypeOK
  <2> QED
    BY <1>1, <1>3, <2>1, <2>2 DEF ReceiveFurtherInvite
<1>4. ASSUME NEW r \in Request, ReceiveAck(r) PROVE CallInProtocol(c)'
  <2> DEFINE raised == <<EventOf(c, "CALLANSWERED")>>
             d == [callIdToDialogueMap[c] EXCEPT !.state = "CONNECTED"]
  <2>1. r.callId \in CallIds
    BY DEF Request
  <2>2. CASE c = r.callId
    <3>1. callIdToDialogueMap[c] \in Dialogue
      BY <1>0, <1>4, <2>2 DEF ReceiveAck, StateIs, HasDialogue, CallTypeOK
    <3>2. /\ raised \in Seq(Event) /\ raised # <<>> /\ Len(raised) = 1
          /\ raised[1].type = "CALLANSWERED" /\ raised[1].channelId = d.channelId
          /\ \A m \in 1 .. Len(raised) - 1 : IsRecording(raised[m])
      <4>1. /\ EventOf(c, "CALLANSWERED") \in Event
            /\ EventOf(c, "CALLANSWERED").type = "CALLANSWERED"
            /\ EventOf(c, "CALLANSWERED").channelId = d.channelId
        BY <3>1 DEF EventOf, Event, Dialogue
      <4> QED
        BY <4>1
    <3>3. /\ d \in Dialogue /\ d.state = "CONNECTED"
          /\ d.channelId = callIdToDialogueMap[c].channelId
      BY <3>1 DEF Dialogue, DialogueState
    <3>4. callIdToDialogueMap'[c] = d
      BY <1>0, <1>4, <2>2 DEF ReceiveAck, SetState, CallTypeOK
    <3>5. events'[c] = events[c] \o raised
      BY <1>0, <1>4, <2>2 DEF ReceiveAck, Raise, CallTypeOK
    <3>6. LastIs(events[c], "NEWCALL") /\ HasDialogue(c)
      BY <1>0, <1>4, <2>2 DEF ReceiveAck, CallInProtocol, StateIs
    <3> HIDE DEF raised, d
    <3> QED
      BY <1>0, <3>2, <3>3, <3>4, <3>5, <3>6, RaisingStep
  <2>3. CASE c # r.callId
    BY <1>0, <1>4, <2>1, <2>3, OtherCall DEF ReceiveAck, SetState, Raise, CallTypeOK
  <2> QED
    BY <2>2, <2>3
<1>5. ASSUME NEW r \in Request, ReceiveBye(r) PROVE CallInProtocol(c)'
  <2>1. r.callId \in CallIds
    BY DEF Request
  <2>2. PICK garbage \in Channels :
          Raise(r.callId, Append(RecordingEvents(r.callId, garbage),
                                 EventOf(r.callId, "CALLCLEARED")))
    BY <1>5 DEF ReceiveBye
  <2> DEFINE raised == Append(RecordingEvents(c, garbage), EventOf(c, "CALLCLEARED"))
             d == [callIdToDialogueMap[c] EXCEPT !.state = "CLEARED"]
  <2>3. CASE c = r.callId
    <3>1. callIdToDialogueMap[c] \in Dialogue
      BY <1>0, <1>5, <2>3 DEF ReceiveBye, StateIs, HasDialogue, CallTypeOK
    <3>2. /\ EventOf(c, "CALLCLEARED") \in Event
          /\ EventOf(c, "CALLCLEARED").type = "CALLCLEARED"
          /\ EventOf(c, "CALLCLEARED").channelId = d.channelId
      BY <3>1 DEF EventOf, Event, Dialogue
    <3>3. /\ RecordingEvents(c, garbage) \in Seq(Event)
          /\ \A m \in 1 .. Len(RecordingEvents(c, garbage)) :
               IsRecording(RecordingEvents(c, garbage)[m])
      <4>1. [type |-> "MEDIA_RECORDING_STARTED", channelId |-> garbage] \in Event
        BY DEF Event
      <4> QED
        BY <4>1 DEF RecordingEvents, IsRecording
    <3>4. /\ raised \in Seq(Event) /\ raised # <<>>
          /\ raised[Len(raised)].type = "CALLCLEARED"
          /\ raised[Len(raised)].channelId = d.channelId
          /\ \A m \in 1 .. Len(raised) - 1 : IsRecording(raised[m])
      BY <3>2, <3>3
    <3>5. /\ d \in Dialogue /\ d.state = "CLEARED"
          /\ d.channelId = callIdToDialogueMap[c].channelId
      BY <3>1 DEF Dialogue, DialogueState
    <3>6. callIdToDialogueMap'[c] = d
      BY <1>0, <1>5, <2>3 DEF ReceiveBye, SetState, CallTypeOK
    <3>7. events'[c] = events[c] \o raised
      BY <1>0, <2>2, <2>3 DEF Raise, CallTypeOK
    <3>8. LastIs(events[c], "CALLANSWERED") /\ HasDialogue(c)
      BY <1>0, <1>5, <2>3 DEF ReceiveBye, CallInProtocol, StateIs
    <3> HIDE DEF raised, d
    <3> QED
      BY <1>0, <3>4, <3>5, <3>6, <3>7, <3>8, RaisingStep
  <2>4. CASE c # r.callId
    BY <1>0, <1>5, <2>1, <2>2, <2>4, OtherCall DEF ReceiveBye, SetState, Raise, CallTypeOK
  <2> QED
    BY <2>3, <2>4
<1>6. ASSUME NEW ch \in Channels, StartRecordingCall(ch) PROVE CallInProtocol(c)'
  <2>1. channelToDialogueMap[ch] \in CallIds /\ HasDialogue(channelToDialogueMap[ch])
    BY <1>0, <1>6 DEF StartRecordingCall, ChannelsHaveDialogues, CallTypeOK
  <2> DEFINE event == EventOf(c, "MEDIA_RECORDING_STARTED")
             d == [callIdToDialogueMap[c] EXCEPT !.recording = TRUE]
  <2>2. CASE c = channelToDialogueMap[ch]
    <3>1. callIdToDialogueMap[c] \in Dialogue
      BY <1>0, <2>1, <2>2 DEF HasDialogue, CallTypeOK
    <3>2. event \in Event /\ event.type = "MEDIA_RECORDING_STARTED"
      BY <3>1 DEF EventOf, Event, Dialogue
    <3>3. callIdToDialogueMap'[c] = d /\ d.state = callIdToDialogueMap[c].state /\ d \in Dialogue
      BY <1>0, <1>6, <2>2, <3>1 DEF StartRecordingCall, Dialogue, CallTypeOK
    <3>4. events'[c] = events[c] \o <<event>>
      BY <1>0, <1>6, <2>2 DEF StartRecordingCall, Raise, CallTypeOK
    <3>5. events[c] \in Seq(Event) /\ events[c] # <<>>
      BY <1>0, <2>1, <2>2 DEF CallInProtocol, CallTypeOK
    <3>6. /\ <<event>> \in Seq(Event) /\ <<event>> # <<>> /\ Len(<<event>>) = 1
          /\ <<event>>[1] = event
      BY <3>2
    <3>7. InProtocol(events'[c])
      <4> DEFINE raised == <<event>>
      <4>1. InProtocol(events[c])
        BY <1>0 DEF CallInProtocol
      <4>2. /\ raised \in Seq(Event) /\ raised # <<>> /\ Len(raised) = 1
            /\ raised[1].type = "MEDIA_RECORDING_STARTED"
            /\ \A m \in 1 .. Len(raised) - 1 : IsRecording(raised[m])
        BY <3>2, <3>6
      <4>3. events'[c] = events[c] \o raised
        BY <3>4
      <4> HIDE DEF event, raised
      <4> QED
        BY <3>5, <4>1, <4>2, <4>3, ProtocolExtends
    <3>8. ASSUME NEW type, LastIs(events[c], type) PROVE LastIs(events'[c], type)
      <4> HIDE DEF event
      <4> QED
        BY <3>2, <3>4, <3>5, <3>8, RecordingsKeepLast DEF IsRecording
    <3>9. events'[c] # <<>>
      BY <3>4, <3>5
    <3>10. HasDialogue(c) /\ HasDialogue(c)'
      BY <2>1, <2>2, <3>3, NoDialogueAssumption DEF HasDialogue
    <3>11. ASSUME NEW i \in 1 .. Len(events'[c])
           PROVE  IsRecording(events'[c][i]) \/ events'[c][i].channelId = d.channelId
      <4> HIDE DEF event
      <4>1. d.channelId = callIdToDialogueMap[c].channelId
        BY <3>1 DEF Dialogue
      <4>2. CASE i <= Len(events[c])
        <5>1. i \in 1 .. Len(events[c]) /\ events'[c][i] = events[c][i]
          BY <3>2, <3>4, <3>5, <4>2
        <5> QED
          BY <1>0, <4>1, <5>1 DEF CallInProtocol
      <4>3. CASE i > Len(events[c])
        BY <3>2, <3>4, <3>5, <4>3 DEF IsRecording
      <4> QED
        BY <3>5, <4>2, <4>3
    <3> HIDE DEF d
    <3> QED
      BY <1>0, <3>3, <3>7, <3>8, <3>9, <3>10, <3>11 DEF CallInProtocol, StateIs
  <2>3. CASE c # channelToDialogueMap[ch]
    BY <1>0, <1>6, <2>1, <2>3, OtherCall DEF StartRecordingCall, Raise, CallTypeOK
  <2> QED
    BY <2>2, <2>3
<1>7. CASE UNCHANGED <<callIdToDialogueMap, events>>
  BY <1>0, <1>7, OtherCall
<1> QED
  BY <1>2, <1>3, <1>4, <1>5, <1>6, <1>7
  DEF CallStep, ProcessMessage, ReceiveSubscribe, ReceiveIgnored, AnswerCall, callVars, dialogueVars

LEMMA ProtocolInit == Init => ProtocolInv
BY TypeInit DEF Init, ProtocolInv, CallInProtocol, InProtocol, HasDialogue, StateIs

LEMMA ProtocolInvStep == ProtocolInv /\ [CallStep]_callVars => ProtocolInv'
BY ProtocolStep, TypeInvStep DEF ProtocolInv

LEMMA ProtocolInvariance == Spec => []ProtocolInv
BY ProtocolInit, ProtocolInvStep, StepOfCalls, PTL DEF Spec

\* Recordings aside, events follow the order announced, answered, cleared, in
\* every interleaving of requests and API calls (EventsFollowProtocol).
THEOREM EventOrder == Spec => []EventsFollowProtocol
<1>1. ProtocolInv => EventsFollowProtocol
  BY DEF ProtocolInv, CallInProtocol, EventsFollowProtocol
<1> QED
  BY <1>1, ProtocolInvariance, PTL

-----------------------------------------------------------------------------
(* Where answers go: to the first INVITE of a call, and over a channel id to *)
(* the call it was given to                                                  *)

\* What the responses of a call say of its dialogue.
CallAnswers(c) ==
  /\ HasDialogue(c) <=> responses[c] # <<>>
  /\ HasDialogue(c) =>
       /\ responses[c][1].status = "TRYING"
       /\ responses[c][1].cseq = callIdToDialogueMap[c].transaction.cseq
  /\ \A i \in 1 .. Len(responses[c]) :
       IsAnswer(responses[c][i]) =>
         responses[c][i].cseq = callIdToDialogueMap[c].transaction.cseq

AnswersInv == TypeInv /\ \A c \in CallIds : CallAnswers(c)

\* A step that sends nothing on a call and gives it no dialogue.
LEMMA SilentStep ==
  ASSUME TypeInv, [CallStep]_callVars, NEW c \in CallIds, CallAnswers(c),
         responses'[c] = responses[c],
         callIdToDialogueMap'[c] # NoDialogue => HasDialogue(c)
  PROVE  CallAnswers(c)'
<1>1. CASE HasDialogue(c)
  <2>1. /\ callIdToDialogueMap'[c] # NoDialogue
        /\ callIdToDialogueMap'[c].transaction = callIdToDialogueMap[c].transaction
    BY <1>1, DialoguesStay DEF TypeInv, HasDialogue
  <2> QED
    BY <1>1, <2>1 DEF CallAnswers, HasDialogue
<1>2. CASE ~HasDialogue(c)
  <2>1. responses'[c] = <<>> /\ callIdToDialogueMap'[c] = NoDialogue
    BY <1>2 DEF CallAnswers
  <2>2. Len(responses'[c]) = 0
    BY <2>1
  <2> QED
    BY <2>1, <2>2 DEF CallAnswers, HasDialogue
<1> QED
  BY <1>1, <1>2

\* A step that sends a response on a call; the first one is for the INVITE that
\* makes the dialogue.
LEMMA SendingStep ==
  ASSUME TypeInv, [CallStep]_callVars, NEW c \in CallIds, CallAnswers(c),
         NEW response \in Response, responses'[c] = Append(responses[c], response),
         callIdToDialogueMap'[c] # NoDialogue,
         ~HasDialogue(c) => /\ response.status = "TRYING"
                            /\ response.cseq = callIdToDialogueMap'[c].transaction.cseq,
         IsAnswer(response) => /\ HasDialogue(c)
                               /\ response.cseq = callIdToDialogueMap[c].transaction.cseq
  PROVE  CallAnswers(c)'
<1> DEFINE log == responses[c]
           n == Len(log)
           cseq == callIdToDialogueMap'[c].transaction.cseq
<1>1. log \in Seq(Response) /\ n \in Nat /\ (log = <<>> <=> n = 0)
  <2>1. log \in Seq(Response)
    BY DEF TypeInv, CallTypeOK
  <2> HIDE DEF log
  <2> QED
    BY <2>1
<1>2. /\ Len(responses'[c]) = n + 1
      /\ responses'[c][n + 1] = response
      /\ \A i \in 1 .. n : responses'[c][i] = log[i]
  <2>1. responses'[c] = Append(log, response)
    OBVIOUS
  <2> HIDE DEF log
  <2> QED
    BY <1>1, <2>1
<1>3. HasDialogue(c) => callIdToDialogueMap[c].transaction.cseq = cseq
  BY DialoguesStay DEF TypeInv
<1>4. /\ HasDialogue(c) <=> n # 0
      /\ HasDialogue(c) => /\ log[1].status = "TRYING"
                           /\ log[1].cseq = callIdToDialogueMap[c].transaction.cseq
      /\ \A i \in 1 .. n :
           IsAnswer(log[i]) => log[i].cseq = callIdToDialogueMap[c].transaction.cseq
  BY <1>1 DEF CallAnswers
<1>7. responses'[c] # <<>>
  BY <1>1, <1>2
<1> HIDE DEF log, n, cseq
<1>5. responses'[c][1].status = "TRYING" /\ responses'[c][1].cseq = cseq
  <2>1. CASE HasDialogue(c)
    BY <1>1, <1>2, <1>3, <1>4, <2>1
  <2>2. CASE ~HasDialogue(c)
    BY <1>1, <1>2, <1>4, <2>2 DEF cseq
  <2> QED
    BY <2>1, <2>2
<1>6. ASSUME NEW i \in 1 .. n + 1, IsAnswer(responses'[c][i])
      PROVE  responses'[c][i].cseq = cseq
  <2>1. CASE i = n + 1
    BY <1>2, <1>3, <1>6, <2>1
  <2>2. CASE i # n + 1
    <3>1. i \in 1 .. n /\ responses'[c][i] = log[i]
      BY <1>1, <1>2, <2>2
    <3>2. HasDialogue(c)
      BY <1>1, <1>4, <3>1
    <3> QED
      BY <1>3, <1>4, <1>6, <3>1, <3>2
  <2> QED
    BY <2>1, <2>2
<1> QED
  BY <1>2, <1>5, <1>6, <1>7 DEF CallAnswers, HasDialogue, IsAnswer, cseq

LEMMA AnswersStep ==
  ASSUME AnswersInv, [CallStep]_callVars, NEW c \in CallIds
  PROVE  CallAnswers(c)'
<1>0. TypeInv /\ CallTypeOK /\ ChannelsHaveDialogues /\ CallAnswers(c)
  BY DEF AnswersInv, TypeInv
<1>1. ASSUME ~ \E r \in Request : ReceiveFirstInvite(r), callIdToDialogueMap'[c] # NoDialogue
      PROVE  HasDialogue(c)
  BY <1>0, <1>1, OnlyFirstInvitesAddDialogues DEF Dialogues, HasDialogue
<1>2. ASSUME NEW r \in Request, r.callId # c, ReceiveFirstInvite(r)
      PROVE  callIdToDialogueMap'[c] # NoDialogue => HasDialogue(c)
  BY <1>0, <1>2 DEF ReceiveFirstInvite, ProcessInvite, HasDialogue, CallTypeOK
<1>3. ASSUME NEW k \in CallIds, k # c, NEW response, Send(k, response)
      PROVE  responses'[c] = responses[c]
  BY <1>0, <1>3 DEF Send, CallTypeOK
<1>4. ASSUME NEW response, Send(c, response)
      PROVE  responses'[c] = Append(responses[c], response)
  BY <1>0, <1>4 DEF Send, CallTypeOK
<1>5. ASSUME NEW r \in Request, ReceiveFirstInvite(r) PROVE CallAnswers(c)'
  <2>1. r \in Invite
    BY <1>5, InviteType DEF ReceiveFirstInvite
  <2> DEFINE trying == [status |-> "TRYING", method |-> "INVITE", cseq |-> r.cseq]
             d == [NewDialogue(r) EXCEPT !.state = "INCOMING"]
  <2>2. CASE r.callId = c
    <3>1. trying \in Response
      BY <2>1 DEF Invite, Response
    <3>2. d \in Dialogue /\ d.transaction.cseq = r.cseq
      BY <1>0, <2>1, NextChannelIdType
      DEF Invite, NewDialogue, Dialogue, DialogueState, Transaction, CallTypeOK
    <3>3. callIdToDialogueMap'[c] = d
      BY <1>0, <1>5, <2>2 DEF ReceiveFirstInvite, ProcessInvite, CallTypeOK
    <3>4. callIdToDialogueMap'[c] # NoDialogue
      BY <3>2, <3>3, NoDialogueAssumption
    <3>5. responses'[c] = Append(responses[c], trying)
      BY <1>4, <1>5, <2>2 DEF ReceiveFirstInvite, ProcessInvite
    <3>6. ~IsAnswer(trying) /\ trying.status = "TRYING" /\ trying.cseq = r.cseq
      BY DEF IsAnswer
    <3> HIDE DEF trying, d
    <3> QED
      BY <1>0, <3>1, <3>2, <3>3, <3>4, <3>5, <3>6, SendingStep
  <2>3. CASE r.callId # c
    <3>1. responses'[c] = responses[c]
      BY <1>3, <1>5, <2>1, <2>3 DEF ReceiveFirstInvite, ProcessInvite, Invite
    <3> QED
      BY <1>0, <1>2, <1>5, <2>3, <3>1, SilentStep
  <2> QED
    BY <2>2, <2>3
<1>6. ASSUME NEW k \in CallIds, NEW response \in Response, Send(k, response),
             ~ \E r \in Request : ReceiveFirstInvite(r), HasDialogue(k),
             IsAnswer(response) => response.cseq = callIdToDialogueMap[k].transaction.cseq
      PROVE  CallAnswers(c)'
  <2>1. CASE k = c
    <3>1. callIdToDialogueMap'[c] # NoDialogue
      BY <1>0, <1>6, <2>1, DialoguesStay DEF HasDialogue
    <3> QED
      BY <1>0, <1>4, <1>6, <2>1, <3>1, SendingStep
  <2>2. CASE k # c
    BY <1>0, <1>1, <1>3, <1>6, <2>2, SilentStep
  <2> QED
    BY <2>1, <2>2
<1>7. CASE ~ \E r \in Request : ReceiveFirstInvite(r)
  <2>1. ASSUME NEW r \in Request, ReceiveFurtherInvite(r) PROVE CallAnswers(c)'
    <3>1. r \in Invite
      BY <2>1, InviteType DEF ReceiveFurtherInvite
    <3> DEFINE trying == [status |-> "TRYING", method |-> "INVITE", cseq |-> r.cseq]
    <3>2. trying \in Response /\ ~IsAnswer(trying)
      BY <3>1 DEF Invite, Response, IsAnswer
    <3>3. Send(r.callId, trying)
      BY <2>1 DEF ReceiveFurtherInvite, ProcessInvite
    <3> HIDE DEF trying
    <3> QED
      BY <1>6, <1>7, <2>1, <3>1, <3>2, <3>3 DEF ReceiveFurtherInvite, Invite
  <2>2. ASSUME NEW r \in Request, ReceiveBye(r) \/ ReceiveSubscribe(r) PROVE CallAnswers(c)'
    <3>1. r.callId \in CallIds /\ Ok(r) \in Response /\ ~IsAnswer(Ok(r))
      BY <2>2 DEF ReceiveBye, ReceiveSubscribe, Request, Response, Ok, IsAnswer
    <3> QED
      BY <1>6, <1>7, <2>2, <3>1 DEF ReceiveBye, ReceiveSubscribe, StateIs
  <2>3. ASSUME NEW ch \in Channels, NEW answer \in Answers, AnswerCall(ch, answer)
        PROVE  CallAnswers(c)'
    <3> DEFINE k == channelToDialogueMap[ch]
               ok == [status |-> "OK", method |-> "INVITE", sdp |-> answer,
                      cseq |-> callIdToDialogueMap[k].transaction.cseq]
    <3>1. k \in CallIds /\ HasDialogue(k) /\ callIdToDialogueMap[k] \in Dialogue
      BY <1>0, <2>3 DEF AnswerCall, ChannelsHaveDialogues, HasDialogue, CallTypeOK
    <3>2. ok \in Response /\ ok.cseq = callIdToDialogueMap[k].transaction.cseq
      BY <3>1 DEF Response, Dialogue, Transaction
    <3>3. Send(k, ok)
      BY <2>3 DEF AnswerCall
    <3> HIDE DEF k, ok
    <3> QED
      BY <1>6, <1>7, <3>1, <3>2, <3>3
  <2>4. CASE UNCHANGED responses
    BY <1>0, <1>1, <1>7, <2>4, SilentStep
  <2> QED
    BY <1>7, <2>1, <2>2, <2>3, <2>4
    DEF CallStep, ProcessMessage, ReceiveAck, ReceiveIgnored, StartRecordingCall, callVars
<1> QED
  BY <1>5, <1>7

\* Every answer on a call is for its first INVITE, whichever INVITE the
\* application meant to answer (AnswersNameFirstInvite).
THEOREM AnswersToFirstInvite == Spec => []AnswersNameFirstInvite
<1>1. Init /\ TypeInv => AnswersInv
  BY DEF Init, AnswersInv, CallAnswers, HasDialogue
<1>2. AnswersInv /\ [CallStep]_callVars /\ TypeInv' => AnswersInv'
  BY AnswersStep DEF AnswersInv
<1>3. AnswersInv => AnswersNameFirstInvite
  <2> SUFFICES ASSUME AnswersInv, NEW c \in CallIds, NEW i \in 1 .. Len(responses[c]),
                      IsAnswer(responses[c][i])
               PROVE  /\ responses[c][1].status = "TRYING"
                      /\ responses[c][i].cseq = responses[c][1].cseq
    BY DEF AnswersNameFirstInvite
  <2>1. responses[c] # <<>>
    BY DEF AnswersInv, TypeInv, CallTypeOK
  <2> QED
    BY <2>1 DEF AnswersInv, CallAnswers
<1> QED
  BY <1>1, <1>2, <1>3, TypeInvariance, StepOfCalls, PTL DEF Spec

-----------------------------------------------------------------------------
(* Channels *)

\* The channel id of the k-th dialogue, until the ids have all been given.
ChannelOf(k) == IF k = ChannelModulus THEN 0 ELSE k

\* The first ChannelModulus dialogues get ids of their own.
ChannelsAreFresh ==
  LET n == Cardinality(Dialogues) IN
  n <= ChannelModulus =>
    /\ lastChannelId = ChannelOf(n)
    /\ \A ch \in Channels :
         channelToDialogueMap[ch] # NoDialogue => \E k \in 1 .. n : ch = ChannelOf(k)
    /\ \A c \in Dialogues : channelToDialogueMap[callIdToDialogueMap[c].channelId] = c

RouteInv == TypeInv /\ IsFiniteSet(Dialogues) /\ ChannelsAreFresh

LEMMA NextChannelIsFresh ==
  ASSUME NEW n \in Nat, n + 1 <= ChannelModulus, lastChannelId = ChannelOf(n)
  PROVE  /\ NextChannelId = ChannelOf(n + 1)
         /\ \A k \in 1 .. n : NextChannelId # ChannelOf(k)
<1>1. ChannelModulus \in Nat /\ ChannelModulus > 1
  BY ChannelModulusAssumption
<1>2. lastChannelId = n
  BY <1>1 DEF ChannelOf
<1>3. CASE n + 1 = ChannelModulus
  <2>1. NextChannelId = 0
    BY <1>1, <1>2, <1>3 DEF NextChannelId
  <2> QED
    BY <1>1, <1>3, <2>1 DEF ChannelOf
<1>4. CASE n + 1 < ChannelModulus
  <2>1. NextChannelId = n + 1
    BY <1>1, <1>2, <1>4 DEF NextChannelId
  <2> QED
    BY <1>1, <1>4, <2>1 DEF ChannelOf
<1> QED
  BY <1>1, <1>3, <1>4

LEMMA RouteStep ==
  ASSUME RouteInv, [CallStep]_callVars
  PROVE  IsFiniteSet(Dialogues') /\ ChannelsAreFresh'
<1>0. TypeInv /\ CallTypeOK /\ ChannelsHaveDialogues /\ IsFiniteSet(Dialogues) /\ ChannelsAreFresh
  BY DEF RouteInv, TypeInv
<1>1. CASE ~ \E r \in Request : ReceiveFirstInvite(r)
  <2>1. UNCHANGED <<channelToDialogueMap, lastChannelId>> /\ Dialogues' = Dialogues
    BY <1>0, <1>1, OnlyFirstInvitesAddDialogues
  <2>2. \A c \in Dialogues : callIdToDialogueMap'[c].channelId = callIdToDialogueMap[c].channelId
    BY <1>0, DialoguesStay DEF Dialogues
  <2> QED
    BY <1>0, <2>1, <2>2 DEF ChannelsAreFresh
<1>2. ASSUME NEW r \in Request, ReceiveFirstInvite(r)
      PROVE  IsFiniteSet(Dialogues') /\ ChannelsAreFresh'
  <2> DEFINE d == [NewDialogue(r) EXCEPT !.state = "INCOMING"]
             n == Cardinality(Dialogues)
  <2>1. r \in Invite /\ r.callId \in CallIds /\ r.callId \notin Dialogues
    BY <1>2, InviteType DEF ReceiveFirstInvite, Invite, Dialogues
  <2>2. d \in Dialogue /\ d.channelId = NextChannelId
    BY <1>0, <2>1, NextChannelIdType
    DEF Invite, NewDialogue, Dialogue, DialogueState, Transaction, CallTypeOK
  <2>3. callIdToDialogueMap' = [callIdToDialogueMap EXCEPT ![r.callId] = d]
    BY <1>2 DEF ReceiveFirstInvite, ProcessInvite
  <2> HIDE DEF d
  <2>4. Dialogues' = Dialogues \cup {r.callId}
    BY <1>0, <2>1, <2>2, <2>3, NoDialogueAssumption DEF Dialogues, HasDialogue, CallTypeOK
  <2>5. IsFiniteSet(Dialogues') /\ Cardinality(Dialogues') = n + 1 /\ n \in Nat
    BY <1>0, <2>1, <2>4, FS_AddElement, FS_CardinalityType
  <2>6. ASSUME n + 1 <= ChannelModulus PROVE
          /\ lastChannelId' = ChannelOf(n + 1)
          /\ \A ch \in Channels :
               channelToDialogueMap'[ch] # NoDialogue => \E k \in 1 .. n + 1 : ch = ChannelOf(k)
          /\ \A c \in Dialogues' : channelToDialogueMap'[callIdToDialogueMap'[c].channelId] = c
    <3>1. /\ lastChannelId = ChannelOf(n)
          /\ \A ch \in Channels :
               channelToDialogueMap[ch] # NoDialogue => \E k \in 1 .. n : ch = ChannelOf(k)
          /\ \A c \in Dialogues : channelToDialogueMap[callIdToDialogueMap[c].channelId] = c
      BY <1>0, <2>5, <2>6, ChannelModulusAssumption DEF ChannelsAreFresh
    <3>2. /\ NextChannelId = ChannelOf(n + 1) /\ NextChannelId \in Channels
          /\ \A k \in 1 .. n : NextChannelId # ChannelOf(k)
      BY <1>0, <2>5, <2>6, <3>1, NextChannelIsFresh, NextChannelIdType DEF CallTypeOK
    <3>3. channelToDialogueMap[NextChannelId] = NoDialogue
      BY <3>1, <3>2
    <3>4. /\ lastChannelId' = NextChannelId
          /\ channelToDialogueMap' = [channelToDialogueMap EXCEPT ![NextChannelId] = r.callId]
      BY <1>2, <3>3 DEF ReceiveFirstInvite
    <3> HIDE DEF n
    <3>5. ASSUME NEW ch \in Channels, channelToDialogueMap'[ch] # NoDialogue
          PROVE  \E k \in 1 .. n + 1 : ch = ChannelOf(k)
      <4>1. CASE ch = NextChannelId
        BY <2>5, <3>2, <4>1
      <4>2. CASE ch # NextChannelId
        <5>1. channelToDialogueMap[ch] # NoDialogue
          BY <1>0, <3>4, <3>5, <4>2 DEF CallTypeOK
        <5> QED
          BY <2>5, <3>1, <5>1
      <4> QED
        BY <4>1, <4>2
    <3>6. ASSUME NEW c \in Dialogues'
          PROVE  channelToDialogueMap'[callIdToDialogueMap'[c].channelId] = c
      <4>1. CASE c = r.callId
        BY <1>0, <2>1, <2>2, <2>3, <3>2, <3>4, <4>1 DEF CallTypeOK
      <4>2. CASE c # r.callId
        <5> DEFINE ch == callIdToDialogueMap[c].channelId
        <5>1. c \in Dialogues /\ callIdToDialogueMap'[c] = callIdToDialogueMap[c] /\ c \in CallIds
          BY <1>0, <2>3, <2>4, <4>2 DEF Dialogues, CallTypeOK
        <5>2. ch \in Channels
          BY <1>0, <5>1 DEF Dialogues, HasDialogue, Dialogue, CallTypeOK
        <5>3. channelToDialogueMap[ch] = c /\ c # NoDialogue
          BY <3>1, <5>1, NoDialogueAssumption
        <5> QED
          BY <1>0, <3>3, <3>4, <5>1, <5>2, <5>3 DEF CallTypeOK
      <4> QED
        BY <4>1, <4>2
    <3> QED
      BY <3>2, <3>4, <3>5, <3>6
  <2>7. ChannelsAreFresh'
    BY <2>5, <2>6 DEF ChannelsAreFresh
  <2> QED
    BY <2>5, <2>7
<1> QED
  BY <1>1, <1>2

LEMMA RouteInit == Init => RouteInv
<1> SUFFICES ASSUME Init PROVE IsFiniteSet(Dialogues) /\ ChannelsAreFresh
  BY TypeInit DEF RouteInv
<1>1. Dialogues = {}
  BY DEF Init, Dialogues, HasDialogue
<1>2. IsFiniteSet(Dialogues) /\ Cardinality(Dialogues) = 0
  BY <1>1, FS_EmptySet
<1> QED
  BY <1>1, <1>2, ChannelModulusAssumption DEF Init, ChannelsAreFresh, ChannelOf

LEMMA RouteInvStep == RouteInv /\ [CallStep]_callVars => RouteInv'
BY RouteStep, TypeInvStep DEF RouteInv

\* While channel ids last, the channel id of every call event leads back to the
\* call it was raised for (ChannelsRouteToCalls): an answer the application gives
\* on it reaches no other call.
THEOREM ChannelRouting == Spec => []ChannelsRouteToCalls
<1>1. RouteInv /\ ProtocolInv => ChannelsRouteToCalls
  <2> SUFFICES ASSUME RouteInv, ProtocolInv, Cardinality(Dialogues) <= ChannelModulus,
                      NEW c \in CallIds, NEW i \in 1 .. Len(events[c]),
                      ~IsRecording(events[c][i])
               PROVE  channelToDialogueMap[events[c][i].channelId] = c
    BY DEF ChannelsRouteToCalls, IsRecording
  <2>1. events[c] # <<>>
    <3>1. Len(events[c]) # 0
      BY DEF ProtocolInv, TypeInv, CallTypeOK
    <3> QED
      BY <3>1
  <2>2. c \in Dialogues /\ events[c][i].channelId = callIdToDialogueMap[c].channelId
    BY <2>1 DEF ProtocolInv, CallInProtocol, Dialogues
  <2> QED
    BY <2>2 DEF RouteInv, ChannelsAreFresh
<1> QED
  BY <1>1, RouteInit, RouteInvStep, ProtocolInvariance, StepOfCalls, PTL DEF Spec

-----------------------------------------------------------------------------
(* What a request does to a call *)

\* What is raised and sent on call c when request r is received.
Announced(r, c) ==
  \E event \in Event, response \in Response :
    /\ c = r.callId /\ r.method = "INVITE" /\ HasDialogue(c)'
    /\ event.type = "NEWCALL" /\ event.channelId = callIdToDialogueMap'[c].channelId
    /\ response.status = "TRYING" /\ response.method = "INVITE"
    /\ events'[c] = Append(events[c], event)
    /\ responses'[c] = Append(responses[c], response)

Acknowledged(r, c) ==
  \E event \in Event :
    /\ c = r.callId /\ r.method = "ACK" /\ HasDialogue(c)
    /\ event.type = "CALLANSWERED" /\ event.channelId = callIdToDialogueMap[c].channelId
    /\ events'[c] = Append(events[c], event)
    /\ responses'[c] = responses[c]

Ended(r, c) ==
  \E event \in Event, response \in Response, garbage \in Channels :
    /\ c = r.callId /\ r.method = "BYE" /\ HasDialogue(c)
    /\ event.type = "CALLCLEARED" /\ event.channelId = callIdToDialogueMap[c].channelId
    /\ response.status = "OK" /\ response.method = "BYE"
    /\ events'[c] = events[c] \o Append(RecordingEvents(c, garbage), event)
    /\ responses'[c] = Append(responses[c], response)

Subscribed(r, c) ==
  \E response \in Response :
    /\ c = r.callId /\ r.method = "SUBSCRIBE"
    /\ response.status = "OK" /\ response.method = "SUBSCRIBE"
    /\ events'[c] = events[c]
    /\ responses'[c] = Append(responses[c], response)

Unheard(c) == events'[c] = events[c] /\ responses'[c] = responses[c]

LEMMA RaisedOn ==
  ASSUME TypeInv, NEW k \in CallIds, NEW raised, Raise(k, raised), NEW c \in CallIds
  PROVE  events'[c] = IF c = k THEN events[c] \o raised ELSE events[c]
BY DEF Raise, TypeInv, CallTypeOK

LEMMA SentOn ==
  ASSUME TypeInv, NEW k \in CallIds, NEW response, Send(k, response), NEW c \in CallIds
  PROVE  responses'[c] = IF c = k THEN Append(responses[c], response) ELSE responses[c]
BY DEF Send, TypeInv, CallTypeOK

LEMMA ReceiveEffects ==
  ASSUME TypeInv, NEW r \in Request, ProcessMessage(r), NEW c \in CallIds
  PROVE  Announced(r, c) \/ Acknowledged(r, c) \/ Ended(r, c) \/ Subscribed(r, c) \/ Unheard(c)
<1>0. CallTypeOK /\ r.callId \in CallIds /\ events[c] \in Seq(Event) /\ CallStep
  BY DEF TypeInv, CallTypeOK, Request, CallStep
<1>1. ASSUME NEW d \in Dialogue, r.method = "INVITE", ProcessInvite(r, d)
      PROVE  Announced(r, c) \/ Unheard(c)
  <2> DEFINE event == [type |-> "NEWCALL", channelId |-> d.channelId]
             trying == [status |-> "TRYING", method |-> "INVITE", cseq |-> r.cseq]
             e == [d EXCEPT !.state = "INCOMING"]
  <2>1. Raise(r.callId, <<event>>) /\ Send(r.callId, trying)
    BY <1>1 DEF ProcessInvite
  <2>2. CASE c = r.callId
    <3>1. callIdToDialogueMap'[c] = e /\ e \in Dialogue /\ e.channelId = d.channelId
      BY <1>0, <1>1, <2>2 DEF ProcessInvite, CallTypeOK, Dialogue, DialogueState
    <3>2. HasDialogue(c)'
      BY <3>1, NoDialogueAssumption DEF HasDialogue
    <3>3. /\ event \in Event /\ event.type = "NEWCALL"
          /\ event.channelId = callIdToDialogueMap'[c].channelId
      BY <3>1 DEF Event, Dialogue
    <3>4. trying \in Response /\ trying.status = "TRYING" /\ trying.method = "INVITE"
      BY <1>1 DEF Request, Response
    <3> HIDE DEF event, trying
    <3>5. events'[c] = events[c] \o <<event>> /\ responses'[c] = Append(responses[c], trying)
      BY <1>0, <2>1, <2>2, RaisedOn, SentOn
    <3>6. events'[c] = Append(events[c], event)
      BY <1>0, <3>3, <3>5
    <3> QED
      BY <1>1, <2>2, <3>2, <3>3, <3>4, <3>5, <3>6 DEF Announced
  <2>3. CASE c # r.callId
    <3> HIDE DEF event, trying
    <3> QED
      BY <1>0, <2>1, <2>3, RaisedOn, SentOn DEF Unheard
  <2> QED
    BY <2>2, <2>3
<1>2. ASSUME ReceiveFirstInvite(r) PROVE Announced(r, c) \/ Unheard(c)
  <2>1. NewDialogue(r) \in Dialogue
    BY <1>0, <1>2, InviteType, NextChannelIdType
    DEF ReceiveFirstInvite, Invite, NewDialogue, Dialogue, DialogueState, Transaction, CallTypeOK
  <2> QED
    BY <1>1, <1>2, <2>1 DEF ReceiveFirstInvite
<1>3. ASSUME ReceiveFurtherInvite(r) PROVE Announced(r, c) \/ Unheard(c)
  <2>1. callIdToDialogueMap[r.callId] \in Dialogue
    BY <1>0, <1>3 DEF ReceiveFurtherInvite, HasDialogue, CallTypeOK
  <2> QED
    BY <1>1, <1>3, <2>1 DEF ReceiveFurtherInvite
<1>4. ASSUME NEW type \in {"CALLANSWERED", "CALLCLEARED"}, HasDialogue(r.callId)
      PROVE  LET event == EventOf(r.callId, type) IN
             event \in Event /\ event.type = type
             /\ event.channelId = callIdToDialogueMap[r.callId].channelId
  <2>1. callIdToDialogueMap[r.callId] \in Dialogue
    BY <1>0, <1>4 DEF HasDialogue, CallTypeOK
  <2> QED
    BY <2>1 DEF EventOf, Event, Dialogue
<1>5. ASSUME ReceiveAck(r) PROVE Acknowledged(r, c) \/ Unheard(c)
  <2> DEFINE event == EventOf(r.callId, "CALLANSWERED")
  <2>1. r.method = "ACK" /\ HasDialogue(r.callId) /\ Raise(r.callId, <<event>>) /\ UNCHANGED responses
    BY <1>5 DEF ReceiveAck, StateIs
  <2>2. /\ event \in Event /\ event.type = "CALLANSWERED"
        /\ event.channelId = callIdToDialogueMap[r.callId].channelId
    BY <1>4, <2>1
  <2> HIDE DEF event
  <2>3. events'[c] = IF c = r.callId THEN events[c] \o <<event>> ELSE events[c]
    BY <1>0, <2>1, RaisedOn
  <2>4. events[c] \o <<event>> = Append(events[c], event)
    BY <1>0, <2>2
  <2> QED
    BY <2>1, <2>2, <2>3, <2>4 DEF Acknowledged, Unheard
<1>6. ASSUME ReceiveBye(r) PROVE Ended(r, c) \/ Unheard(c)
  <2> DEFINE event == EventOf(r.callId, "CALLCLEARED")
             ok == Ok(r)
  <2>1. r.method = "BYE" /\ HasDialogue(r.callId) /\ Send(r.callId, ok)
    BY <1>6 DEF ReceiveBye, StateIs
  <2>2. PICK garbage \in Channels :
          Raise(r.callId, Append(RecordingEvents(r.callId, garbage), event))
    BY <1>6 DEF ReceiveBye
  <2>3. /\ event \in Event /\ event.type = "CALLCLEARED"
        /\ event.channelId = callIdToDialogueMap[r.callId].channelId
    BY <1>4, <2>1
  <2>4. ok \in Response /\ ok.status = "OK" /\ ok.method = "BYE"
    BY <2>1 DEF Ok, Request, Response
  <2> HIDE DEF event, ok
  <2>5. events'[c] = IF c = r.callId THEN events[c] \o Append(RecordingEvents(c, garbage), event)
                                     ELSE events[c]
    BY <1>0, <2>2, RaisedOn
  <2>6. responses'[c] = IF c = r.callId THEN Append(responses[c], ok) ELSE responses[c]
    BY <1>0, <2>1, SentOn
  <2> QED
    BY <2>1, <2>3, <2>4, <2>5, <2>6 DEF Ended, Unheard
<1>7. ASSUME ReceiveSubscribe(r) PROVE Subscribed(r, c) \/ Unheard(c)
  <2> DEFINE ok == Ok(r)
  <2>1. r.method = "SUBSCRIBE" /\ Send(r.callId, ok) /\ UNCHANGED events
    BY <1>7 DEF ReceiveSubscribe
  <2>2. ok \in Response /\ ok.status = "OK" /\ ok.method = "SUBSCRIBE"
    BY <2>1 DEF Ok, Request, Response
  <2> HIDE DEF ok
  <2>3. responses'[c] = IF c = r.callId THEN Append(responses[c], ok) ELSE responses[c]
    BY <1>0, <2>1, SentOn
  <2> QED
    BY <2>1, <2>2, <2>3 DEF Subscribed, Unheard
<1>8. ASSUME ReceiveIgnored(r) PROVE Unheard(c)
  BY <1>8 DEF ReceiveIgnored, callVars, Unheard
<1> QED
  BY <1>2, <1>3, <1>5, <1>6, <1>7, <1>8 DEF ProcessMessage

-----------------------------------------------------------------------------
(* Upcalls and responses *)

EventsIn(log, type) == Cardinality({i \in DOMAIN log : log[i].type = type})

ResponsesIn(log, status, method) ==
  Cardinality({i \in DOMAIN log : log[i].status = status /\ log[i].method = method})

LEMMA EventAppended ==
  ASSUME NEW log \in Seq(Event), NEW event \in Event, NEW type
  PROVE  /\ EventsIn(log, type) \in Nat
         /\ EventsIn(Append(log, event), type)
              = EventsIn(log, type) + (IF event.type = type THEN 1 ELSE 0)
<1> DEFINE X == {e \in Event : e.type = type}
<1>1. ASSUME NEW l \in Seq(Event) PROVE EventsIn(l, type) = Cardinality(Places(l, X))
  <2>1. \A i \in DOMAIN l : l[i] \in Event
    OBVIOUS
  <2>2. {i \in DOMAIN l : l[i].type = type} = Places(l, X)
    BY <2>1 DEF Places
  <2> QED
    BY <2>2 DEF EventsIn
<1>2. Append(log, event) \in Seq(Event) /\ (event \in X <=> event.type = type)
  OBVIOUS
<1> HIDE DEF X
<1>3. /\ EventsIn(log, type) = Cardinality(Places(log, X))
      /\ EventsIn(Append(log, event), type) = Cardinality(Places(Append(log, event), X))
  BY <1>1, <1>2
<1>4. Cardinality(Places(log, X)) \in Nat
  BY PlacesFinite
<1>5. Cardinality(Places(Append(log, event), X))
        = Cardinality(Places(log, X)) + (IF event \in X THEN 1 ELSE 0)
  BY PlacesAppend
<1> QED
  BY <1>2, <1>3, <1>4, <1>5

LEMMA ResponseAppended ==
  ASSUME NEW log \in Seq(Response), NEW response \in Response, NEW status, NEW method
  PROVE  /\ ResponsesIn(log, status, method) \in Nat
         /\ ResponsesIn(Append(log, response), status, method)
              = ResponsesIn(log, status, method)
                  + (IF response.status = status /\ response.method = method THEN 1 ELSE 0)
<1> DEFINE X == {e \in Response : e.status = status /\ e.method = method}
<1>1. ASSUME NEW l \in Seq(Response)
      PROVE  ResponsesIn(l, status, method) = Cardinality(Places(l, X))
  <2>1. \A i \in DOMAIN l : l[i] \in Response
    OBVIOUS
  <2>2. {i \in DOMAIN l : l[i].status = status /\ l[i].method = method} = Places(l, X)
    BY <2>1 DEF Places
  <2> QED
    BY <2>2 DEF ResponsesIn
<1>2. /\ Append(log, response) \in Seq(Response)
      /\ response \in X <=> response.status = status /\ response.method = method
  OBVIOUS
<1> HIDE DEF X
<1>3. /\ ResponsesIn(log, status, method) = Cardinality(Places(log, X))
      /\ ResponsesIn(Append(log, response), status, method)
           = Cardinality(Places(Append(log, response), X))
  BY <1>1, <1>2
<1>4. Cardinality(Places(log, X)) \in Nat
  BY PlacesFinite
<1>5. Cardinality(Places(Append(log, response), X))
        = Cardinality(Places(log, X)) + (IF response \in X THEN 1 ELSE 0)
  BY PlacesAppend
<1> QED
  BY <1>2, <1>3, <1>4, <1>5

\* A call's upcalls and responses agree.
CallMatches(eventLog, responseLog) ==
  /\ EventsIn(eventLog, "NEWCALL") = ResponsesIn(responseLog, "TRYING", "INVITE")
  /\ EventsIn(eventLog, "CALLCLEARED") = ResponsesIn(responseLog, "OK", "BYE")

MatchInv == TypeInv /\ \A c \in CallIds : CallMatches(events[c], responses[c])

LEMMA MatchStep ==
  ASSUME MatchInv, [CallStep]_callVars, NEW c \in CallIds
  PROVE  CallMatches(events'[c], responses'[c])
<1>0. /\ TypeInv /\ CallMatches(events[c], responses[c]) /\ ChannelsHaveDialogues
      /\ events \in [CallIds -> Seq(Event)] /\ events[c] \in Seq(Event)
      /\ responses \in [CallIds -> Seq(Response)] /\ responses[c] \in Seq(Response)
      /\ channelToDialogueMap \in [Channels -> CallIds \cup {NoDialogue}]
      /\ callIdToDialogueMap \in [CallIds -> Dialogue \cup {NoDialogue}]
  BY DEF MatchInv, TypeInv, CallTypeOK
<1>e. ASSUME NEW event \in Event
      PROVE  /\ EventsIn(Append(events[c], event), "NEWCALL")
                  = EventsIn(events[c], "NEWCALL") + (IF event.type = "NEWCALL" THEN 1 ELSE 0)
             /\ EventsIn(Append(events[c], event), "CALLCLEARED")
                  = EventsIn(events[c], "CALLCLEARED")
                      + (IF event.type = "CALLCLEARED" THEN 1 ELSE 0)
             /\ EventsIn(events[c], "NEWCALL") \in Nat
             /\ EventsIn(events[c], "CALLCLEARED") \in Nat
  BY <1>0, EventAppended
<1>r. ASSUME NEW response \in Response
      PROVE  /\ ResponsesIn(Append(responses[c], response), "TRYING", "INVITE")
                  = ResponsesIn(responses[c], "TRYING", "INVITE")
                      + (IF response.status = "TRYING" /\ response.method = "INVITE" THEN 1 ELSE 0)
             /\ ResponsesIn(Append(responses[c], response), "OK", "BYE")
                  = ResponsesIn(responses[c], "OK", "BYE")
                      + (IF response.status = "OK" /\ response.method = "BYE" THEN 1 ELSE 0)
             /\ ResponsesIn(responses[c], "TRYING", "INVITE") \in Nat
             /\ ResponsesIn(responses[c], "OK", "BYE") \in Nat
  BY <1>0, ResponseAppended
<1>1. ASSUME NEW r \in Request, ProcessMessage(r) PROVE CallMatches(events'[c], responses'[c])
  <2>1. CASE Announced(r, c)
    BY <1>0, <2>1, <1>e, <1>r DEF Announced, CallMatches
  <2>2. CASE Acknowledged(r, c)
    <3>1. PICK event \in Event : /\ event.type = "CALLANSWERED"
                                 /\ events'[c] = Append(events[c], event)
                                 /\ responses'[c] = responses[c]
      BY <2>2 DEF Acknowledged
    <3>2. /\ EventsIn(events'[c], "NEWCALL") = EventsIn(events[c], "NEWCALL")
          /\ EventsIn(events'[c], "CALLCLEARED") = EventsIn(events[c], "CALLCLEARED")
      BY <1>e, <3>1
    <3> QED
      BY <1>0, <3>1, <3>2 DEF CallMatches
  <2>3. CASE Ended(r, c)
    <3>1. PICK event \in Event, response \in Response, garbage \in Channels :
            /\ event.type = "CALLCLEARED" /\ response.status = "OK" /\ response.method = "BYE"
            /\ events'[c] = events[c] \o Append(RecordingEvents(c, garbage), event)
            /\ responses'[c] = Append(responses[c], response)
      BY <2>3 DEF Ended
    <3> DEFINE recording == [type |-> "MEDIA_RECORDING_STARTED", channelId |-> garbage]
    <3>2. recording \in Event /\ recording.type = "MEDIA_RECORDING_STARTED"
      BY DEF Event
    <3>3. events'[c] = Append(events[c], event)
          \/ events'[c] = Append(Append(events[c], recording), event)
      <4>1. CASE RecordingEvents(c, garbage) = <<>>
        BY <1>0, <3>1, <4>1
      <4>2. CASE RecordingEvents(c, garbage) = <<recording>>
        <5> HIDE DEF recording
        <5> QED
          BY <1>0, <3>1, <3>2, <4>2
      <4> QED
        BY <4>1, <4>2 DEF RecordingEvents
    <3> HIDE DEF recording
    <3>4. Append(events[c], recording) \in Seq(Event)
      BY <1>0, <3>2
    <3>5. /\ EventsIn(Append(events[c], recording), "NEWCALL") = EventsIn(events[c], "NEWCALL")
          /\ EventsIn(Append(events[c], recording), "CALLCLEARED")
               = EventsIn(events[c], "CALLCLEARED")
      BY <1>e, <3>2
    <3>6. ASSUME NEW log \in {events[c], Append(events[c], recording)}
          PROVE  /\ EventsIn(Append(log, event), "NEWCALL") = EventsIn(log, "NEWCALL")
                 /\ EventsIn(Append(log, event), "CALLCLEARED") = EventsIn(log, "CALLCLEARED") + 1
                 /\ EventsIn(log, "NEWCALL") \in Nat
      <4>1. log \in Seq(Event)
        BY <1>0, <3>4
      <4> QED
        BY <3>1, <4>1, EventAppended
    <3>7. /\ EventsIn(events'[c], "NEWCALL") = EventsIn(events[c], "NEWCALL")
          /\ EventsIn(events'[c], "CALLCLEARED") = EventsIn(events[c], "CALLCLEARED") + 1
      BY <3>3, <3>5, <3>6
    <3>8. /\ ResponsesIn(responses'[c], "OK", "BYE") = ResponsesIn(responses[c], "OK", "BYE") + 1
          /\ ResponsesIn(responses'[c], "TRYING", "INVITE")
               = ResponsesIn(responses[c], "TRYING", "INVITE")
      BY <1>r, <3>1
    <3> QED
      BY <1>0, <3>7, <3>8 DEF CallMatches
  <2>4. CASE Subscribed(r, c)
    <3>1. PICK response \in Response :
            /\ response.status = "OK" /\ response.method = "SUBSCRIBE"
            /\ events'[c] = events[c]
            /\ responses'[c] = Append(responses[c], response)
      BY <2>4 DEF Subscribed
    <3>2. /\ ResponsesIn(responses'[c], "OK", "BYE") = ResponsesIn(responses[c], "OK", "BYE")
          /\ ResponsesIn(responses'[c], "TRYING", "INVITE")
               = ResponsesIn(responses[c], "TRYING", "INVITE")
      BY <1>r, <3>1
    <3> QED
      BY <1>0, <3>1, <3>2 DEF CallMatches
  <2>5. CASE Unheard(c)
    BY <1>0, <2>5 DEF Unheard
  <2> QED
    BY <1>0, <1>1, <2>1, <2>2, <2>3, <2>4, <2>5, ReceiveEffects
<1>2. ASSUME NEW ch \in Channels, NEW answer \in Answers, AnswerCall(ch, answer)
      PROVE  CallMatches(events'[c], responses'[c])
  <2> DEFINE k == channelToDialogueMap[ch]
             ok == [status |-> "OK", method |-> "INVITE", sdp |-> answer,
                    cseq |-> callIdToDialogueMap[k].transaction.cseq]
  <2>1. k \in CallIds /\ callIdToDialogueMap[k] \in Dialogue
    BY <1>0, <1>2 DEF AnswerCall, ChannelsHaveDialogues, HasDialogue
  <2>2. ok \in Response /\ ok.method = "INVITE" /\ ok.status = "OK"
    BY <2>1 DEF Response, Dialogue, Transaction
  <2>3. Send(k, ok) /\ UNCHANGED events
    BY <1>2 DEF AnswerCall
  <2> HIDE DEF k, ok
  <2>4. responses'[c] = Append(responses[c], ok) \/ responses'[c] = responses[c]
    BY <1>0, <2>1, <2>3, SentOn
  <2>5. /\ ResponsesIn(responses'[c], "OK", "BYE") = ResponsesIn(responses[c], "OK", "BYE")
        /\ ResponsesIn(responses'[c], "TRYING", "INVITE")
             = ResponsesIn(responses[c], "TRYING", "INVITE")
    <3>1. CASE responses'[c] = responses[c]
      BY <3>1
    <3>2. CASE responses'[c] = Append(responses[c], ok)
      BY <1>r, <2>2, <3>2
    <3> QED
      BY <2>4, <3>1, <3>2
  <2> QED
    BY <1>0, <2>3, <2>5 DEF CallMatches
<1>3. ASSUME NEW ch \in Channels, StartRecordingCall(ch)
      PROVE  CallMatches(events'[c], responses'[c])
  <2> DEFINE k == channelToDialogueMap[ch]
             event == EventOf(k, "MEDIA_RECORDING_STARTED")
  <2>1. k \in CallIds /\ callIdToDialogueMap[k] \in Dialogue
    BY <1>0, <1>3 DEF StartRecordingCall, ChannelsHaveDialogues, HasDialogue
  <2>2. event \in Event /\ event.type = "MEDIA_RECORDING_STARTED"
    BY <2>1 DEF EventOf, Event, Dialogue
  <2>3. Raise(k, <<event>>) /\ UNCHANGED responses
    BY <1>3 DEF StartRecordingCall
  <2> HIDE DEF k, event
  <2>4. events'[c] = events[c] \o <<event>> \/ events'[c] = events[c]
    BY <1>0, <2>1, <2>3, RaisedOn
  <2>5. events[c] \o <<event>> = Append(events[c], event)
    BY <1>0, <2>2
  <2>6. /\ EventsIn(events'[c], "NEWCALL") = EventsIn(events[c], "NEWCALL")
        /\ EventsIn(events'[c], "CALLCLEARED") = EventsIn(events[c], "CALLCLEARED")
    <3>1. CASE events'[c] = events[c]
      BY <3>1
    <3>2. CASE events'[c] = Append(events[c], event)
      BY <1>e, <2>2, <3>2
    <3> QED
      BY <2>4, <2>5, <3>1, <3>2
  <2> QED
    BY <1>0, <2>3, <2>6 DEF CallMatches
<1>4. CASE UNCHANGED callVars
  BY <1>0, <1>4 DEF callVars
<1> QED
  BY <1>1, <1>2, <1>3, <1>4 DEF CallStep

\* The application is told of as many calls as INVITEs were acknowledged, and of
\* as many ends as BYEs were accepted (UpcallsMatchResponses).
THEOREM UpcallsAndResponses == Spec => []UpcallsMatchResponses
<1>1. Init => MatchInv
  <2> SUFFICES ASSUME Init, NEW c \in CallIds PROVE CallMatches(events[c], responses[c])
    BY TypeInit DEF MatchInv
  <2>1. events[c] = <<>> /\ responses[c] = <<>>
    BY DEF Init
  <2>2. \A type : EventsIn(<<>>, type) = 0
    BY FS_EmptySet DEF EventsIn
  <2>3. \A status, method : ResponsesIn(<<>>, status, method) = 0
    BY FS_EmptySet DEF ResponsesIn
  <2> QED
    BY <2>1, <2>2, <2>3 DEF CallMatches
<1>2. MatchInv /\ [CallStep]_callVars => MatchInv'
  <2>1. ASSUME MatchInv, [CallStep]_callVars PROVE MatchInv'
    BY <2>1, MatchStep, TypeInvStep DEF MatchInv
  <2> QED
    BY <2>1
<1>3. MatchInv => UpcallsMatchResponses
  BY DEF MatchInv, CallMatches, UpcallsMatchResponses, EventCount, ResponseCount,
         EventsIn, ResponsesIn
<1> QED
  BY <1>1, <1>2, <1>3, StepOfCalls, PTL DEF Spec

-----------------------------------------------------------------------------
(* Lemmas for whoever composes the SIP interface with an application *)

\* A channel that leads to a call never leads to another.
LEMMA ChannelsStay ==
  ASSUME TypeInv, [CallStep]_callVars, NEW ch \in Channels, channelToDialogueMap[ch] # NoDialogue
  PROVE  channelToDialogueMap'[ch] = channelToDialogueMap[ch]
<1>1. ASSUME NEW r \in Request, ReceiveFirstInvite(r)
      PROVE  channelToDialogueMap'[ch] = channelToDialogueMap[ch]
  BY <1>1, NextChannelIdType DEF ReceiveFirstInvite, TypeInv, CallTypeOK
<1> QED
  BY <1>1, OnlyFirstInvitesAddDialogues DEF TypeInv

\* A channel is given to a call that had no dialogue.
LEMMA ChannelsAreNew ==
  ASSUME TypeInv, [CallStep]_callVars, NEW ch \in Channels,
         channelToDialogueMap[ch] = NoDialogue, channelToDialogueMap'[ch] # NoDialogue
  PROVE  /\ channelToDialogueMap'[ch] \in CallIds /\ ~HasDialogue(channelToDialogueMap'[ch])
         /\ callIdToDialogueMap'[channelToDialogueMap'[ch]].channelId = ch
<1>1. PICK r \in Request : ReceiveFirstInvite(r)
  BY OnlyFirstInvitesAddDialogues DEF TypeInv
<1> DEFINE d == [NewDialogue(r) EXCEPT !.state = "INCOMING"]
<1>2. r.callId \in CallIds /\ ~HasDialogue(r.callId)
  BY <1>1 DEF Request, ReceiveFirstInvite
<1>3. ch = NextChannelId /\ channelToDialogueMap'[ch] = r.callId
  BY <1>1, NextChannelIdType DEF ReceiveFirstInvite, TypeInv, CallTypeOK
<1>4. callIdToDialogueMap'[r.callId] = d /\ d.channelId = NextChannelId
  BY <1>1, <1>2 DEF ReceiveFirstInvite, ProcessInvite, NewDialogue, TypeInv, CallTypeOK
<1> QED
  BY <1>2, <1>3, <1>4

\* Of the dialogue a channel leads to, the channel is that channel.
MapsAgree ==
  \A ch \in Channels :
    channelToDialogueMap[ch] # NoDialogue =>
      callIdToDialogueMap[channelToDialogueMap[ch]].channelId = ch

LEMMA MapsAgreeInit == Init => MapsAgree
BY DEF Init, MapsAgree

LEMMA MapsAgreeStep == TypeInv /\ MapsAgree /\ [CallStep]_callVars => MapsAgree'
<1> SUFFICES ASSUME TypeInv, MapsAgree, [CallStep]_callVars,
                    NEW ch \in Channels, channelToDialogueMap'[ch] # NoDialogue
             PROVE  callIdToDialogueMap'[channelToDialogueMap'[ch]].channelId = ch
  BY DEF MapsAgree
<1>1. CASE channelToDialogueMap[ch] = NoDialogue
  BY <1>1, ChannelsAreNew
<1>2. CASE channelToDialogueMap[ch] # NoDialogue
  <2> DEFINE c == channelToDialogueMap[ch]
  <2>1. c \in CallIds /\ HasDialogue(c) /\ callIdToDialogueMap[c].channelId = ch
    BY <1>2 DEF MapsAgree, TypeInv, CallTypeOK, ChannelsHaveDialogues
  <2>2. callIdToDialogueMap'[c].channelId = ch
    BY <2>1, DialoguesStay DEF TypeInv
  <2> QED
    BY <1>2, <2>2, ChannelsStay
<1> QED
  BY <1>1, <1>2

\* Only an ACK connects a call, and no request sets its recording flag.
LEMMA ReceiveWrites ==
  ASSUME TypeInv, NEW r \in Request, ProcessMessage(r),
         NEW c \in CallIds, callIdToDialogueMap'[c] # NoDialogue
  PROVE  /\ callIdToDialogueMap'[c].state = "CONNECTED" =>
              StateIs(c, "CONNECTED") \/ (c = r.callId /\ r.method = "ACK")
         /\ callIdToDialogueMap'[c].recording =>
              HasDialogue(c) /\ callIdToDialogueMap[c].recording
<1> DEFINE Goal == /\ callIdToDialogueMap'[c].state = "CONNECTED" =>
                        StateIs(c, "CONNECTED") \/ (c = r.callId /\ r.method = "ACK")
                   /\ callIdToDialogueMap'[c].recording =>
                        HasDialogue(c) /\ callIdToDialogueMap[c].recording
<1>0. callIdToDialogueMap \in [CallIds -> Dialogue \cup {NoDialogue}] /\ CallTypeOK
  BY DEF TypeInv, CallTypeOK
<1>1. ASSUME callIdToDialogueMap'[c] = callIdToDialogueMap[c] PROVE Goal
  BY <1>1 DEF StateIs, HasDialogue
<1>2. ASSUME NEW d \in Dialogue, r.method = "INVITE", ProcessInvite(r, d),
             d.recording => HasDialogue(r.callId) /\ callIdToDialogueMap[r.callId].recording
      PROVE  Goal
  <2>1. CASE c = r.callId
    <3>1. callIdToDialogueMap'[c] = [d EXCEPT !.state = "INCOMING"]
      BY <1>0, <1>2, <2>1 DEF ProcessInvite
    <3> QED
      BY <1>2, <2>1, <3>1 DEF Dialogue
  <2>2. CASE c # r.callId
    BY <1>0, <1>1, <1>2, <2>2 DEF ProcessInvite
  <2> QED
    BY <2>1, <2>2
<1>3. ASSUME ReceiveFirstInvite(r) PROVE Goal
  <2>1. NewDialogue(r) \in Dialogue /\ NewDialogue(r).recording = FALSE
    BY <1>0, <1>3, InviteType, NextChannelIdType
    DEF ReceiveFirstInvite, Invite, NewDialogue, Dialogue, DialogueState, Transaction, CallTypeOK
  <2> QED
    BY <1>2, <1>3, <2>1 DEF ReceiveFirstInvite
<1>4. ASSUME ReceiveFurtherInvite(r) PROVE Goal
  <2>1. callIdToDialogueMap[r.callId] \in Dialogue
    BY <1>0, <1>4 DEF ReceiveFurtherInvite, HasDialogue, Request
  <2> QED
    BY <1>2, <1>4, <2>1 DEF ReceiveFurtherInvite
<1>5. ASSUME NEW s, SetState(r.callId, s), HasDialogue(r.callId),
             s = "CONNECTED" => r.method = "ACK"
      PROVE  Goal
  <2>1. CASE c = r.callId
    <3>1. callIdToDialogueMap[c] \in Dialogue
      BY <1>0, <1>5, <2>1 DEF HasDialogue
    <3>2. /\ callIdToDialogueMap'[c].state = s
          /\ callIdToDialogueMap'[c].recording = callIdToDialogueMap[c].recording
      BY <1>0, <1>5, <2>1, <3>1 DEF SetState, Dialogue
    <3> QED
      BY <1>5, <2>1, <3>2
  <2>2. CASE c # r.callId
    BY <1>0, <1>1, <1>5, <2>2 DEF SetState
  <2> QED
    BY <2>1, <2>2
<1> QED
  BY <1>1, <1>3, <1>4, <1>5
  DEF ProcessMessage, ReceiveAck, ReceiveBye, ReceiveSubscribe, ReceiveIgnored, StateIs, callVars, dialogueVars
=============================================================================
