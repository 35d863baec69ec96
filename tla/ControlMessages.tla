--------------------------- MODULE ControlMessages ---------------------------
(***************************************************************************)
(* The messages between controllers and the core process: what controllers *)
(* write (any JSON), Request::build_request with the constructors it calls *)
(* and on_read of the control interface; Notification::toJson.             *)
(***************************************************************************)
EXTENDS Json

\* 200, which instances with small integers have no int for.
DefaultClearingCode == MaxInt

\* The members of data that the constructor of each class reads, with their
\* defaults: those it reads as an int and those it reads as a text.
Members(numbers, texts) == [numbers |-> numbers, texts |-> texts]

AnswerFields ==
  Members([channelId |-> 0], [tag |-> Word("tag-not-set"), contact |-> <<>>])
ClearFields == Members([channelId |-> 0, clearingCode |-> DefaultClearingCode], <<>>)
RecordFields == Members([channelId |-> 0], [filename |-> <<>>, action |-> Word("start")])
ProgressFields == Members([channelId |-> 0], <<>>)
RingFields == Members(<<>>, <<>>)
CountFields == Members(<<>>, <<>>)
LoginFields == Members(<<>>, <<>>)

Fields ==
  [callCount |-> CountFields, answerCall |-> AnswerFields, recordCall |-> RecordFields,
   clearCall |-> ClearFields, login |-> LoginFields, sendRingback |-> RingFields,
   sendProgress |-> ProgressFields]

Methods == DOMAIN Fields

NotBuilt == [type |-> "null"]

\* The members that every request has.
HeadOf(root) ==
  <<AsCString(Get(root, Word("type"), String(Word("UNKNOWN")))),
    AsCString(Get(root, Word("method"), String(Word("UNKNOWN")))),
    AsInt(Get(root, Word("dialogueId"), Integer(0)))>>

\* The class that a method names, made of what its constructor reads.
RequestOf(name, dialogueId, data) ==
  LET numbers == [f \in DOMAIN Fields[name].numbers |->
                    AsInt(Get(data, Word(f), Integer(Fields[name].numbers[f])))]
      texts == [f \in DOMAIN Fields[name].texts |->
                  AsCString(Get(data, Word(f), String(Fields[name].texts[f])))]
  IN IF ~Convertible(numbers) \/ ~Convertible(texts) THEN Throws
     ELSE [type |-> "request", method |-> name, dialogueId |-> dialogueId,
           numbers |-> [f \in DOMAIN numbers |-> numbers[f].n],
           texts |-> [f \in DOMAIN texts |-> texts[f].s]]

BuiltOf(root, head) ==
  IF ~Convertible(head) THEN Throws
  ELSE IF head[1].s # Word("request") \/ head[2].s \notin {Word(m) : m \in Methods} THEN NotBuilt
  ELSE RequestOf(head[2].s[1].c, head[3].n, Get(root, Word("data"), Null))

\* build_request: a request, null, or an exception that nobody catches.
Build(document) ==
  LET parsed == Parse(document)
  IN IF parsed.ok THEN BuiltOf(parsed.value, HeadOf(parsed.value)) ELSE NotBuilt

\* ControlInterface::on_read asks the request for its name before anything looks
\* whether there is one: a null pointer, and the process ends.
OnRead(document) ==
  IF Build(document) \in {NotBuilt, Throws} THEN "ends" ELSE "handled"

-----------------------------------------------------------------------------
\* Mutant: a channel that does not fit is set to the greatest that does.
ChannelSaturating(channelId) == IF channelId > MaxInt THEN MaxInt ELSE channelId

\* A notification keeps the channel, an unsigned int, in an int.
ChannelOf(channelId) == IF channelId > MaxInt THEN channelId - MaxUInt - 1 ELSE channelId

\* Notification::toJson, with the data of the derived class or null.
ToJson(method, channelId, data) ==
  Write(Object(
    (Word("type") :> String(Word("notification"))) @@ (Word("method") :> String(Word(method)))
    @@ (Word("channelId") :> Integer(ChannelOf(channelId)))
    @@ (Word("errorCode") :> Integer(0)) @@ (Word("errorMessage") :> String(Word("OK")))
    @@ (Word("dialogueId") :> Integer(0)) @@ (Word("data") :> data)))

\* External: a controller that names the channel it was told of.
Reply(document, method) ==
  LET channelId == Parse(document).value.members[Word("channelId")]
  IN Write(Object((Word("type") :> String(Word("request"))) @@ (Word("method") :> String(Word(method)))
                  @@ (Word("data") :> Object(Word("channelId") :> channelId))))

\* The handlers in core.cpp pass the channel on as an unsigned int.
ChannelNamed(request) ==
  IF request.numbers["channelId"] < 0
  THEN request.numbers["channelId"] + MaxUInt + 1 ELSE request.numbers["channelId"]

-----------------------------------------------------------------------------
(* Properties of one channel and one request. *)

\* Whatever channel a controller is told of, up to the last of an unsigned int,
\* the request that it sends back names that very channel.
ChannelSurvives(channelId, method) ==
  ChannelNamed(Build(Reply(ToJson("callIncoming", channelId, Null), method))) = channelId
=============================================================================
