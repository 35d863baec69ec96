---------------------------- MODULE MediaMessages ----------------------------
(***************************************************************************)
(* The messages between core and media process: MediaMessage::toJson, the  *)
(* getData of every class, build_message and the constructors it calls.    *)
(***************************************************************************)
EXTENDS Json

VARIABLE logEnds   \* of the build: does a call through a null logger end the process?

Methods == {"register", "allocate", "release", "recordStart", "recordStop"}

\* Members of data that the constructor of each class reads.
AllocateRequestFields == {"callId", "sdp"}
AllocateResponseFields == {"resourceId", "offerAnswer"}
ReleaseRequestFields == {"resourceId"}
ReleaseResponseFields == {"resourceId"}
RecordStartRequestFields == {"resourceId", "filename"}
RecordStartResponseFields == {"resourceId", "filename", "systemReference"}
RecordStopRequestFields == {"resourceId"}
RecordStopResponseFields == {"resourceId", "filename", "systemReference"}

RequestFields ==
  [register |-> {}, allocate |-> AllocateRequestFields, release |-> ReleaseRequestFields,
   recordStart |-> RecordStartRequestFields, recordStop |-> RecordStopRequestFields]

ResponseFields ==
  [register |-> {}, allocate |-> AllocateResponseFields, release |-> ReleaseResponseFields,
   recordStart |-> RecordStartResponseFields, recordStop |-> RecordStopResponseFields]

Fields(type, method) ==
  IF type = "request" THEN RequestFields[method] ELSE ResponseFields[method]

\* Each with the accessor it is read with.
Field(data, name) ==
  CASE name = "resourceId" -> AsUInt(Get(data, Word(name), Integer(0)))
    [] name = "offerAnswer" -> AsString(Get(data, Word(name), String(Word("EMPTY SDP"))))
    [] name \in {"callId", "sdp"} -> AsString(Get(data, Word(name), String(<<>>)))
    [] OTHER -> AsCString(Get(data, Word(name), String(<<>>)))

\* A message: what its getters return.
Message(type, method, dialogueId, callbackId, fields, status) ==
  [type |-> type, method |-> method, dialogueId |-> dialogueId, callbackId |-> callbackId,
   fields |-> fields, status |-> status]

NoStatus == [errorCode |-> 0, errorMessage |-> <<>>]

\* What a REGISTER and a RELEASE write of their sender and nobody reads.
UnreadFields(m) ==
  CASE m.type = "request" /\ m.method = "register" -> {"identifier"}
    [] m.type = "request" /\ m.method = "release" -> {"ownerReference"}
    [] OTHER -> {}

\* getData of every class.
DataOf(m) ==
  LET extra == UnreadFields(m)
      names == Fields(m.type, m.method) \cup extra
  IN Object([name \in {Word(n) : n \in names} |->
       IF name[1].c \in extra THEN String(Word("own"))
       ELSE IF name[1].c = "resourceId" THEN Unsigned(m.fields[name[1].c].n)
       ELSE m.fields[name[1].c]])

\* toJson.  The response to a REGISTER has no data.
ToJson(m) ==
  LET root == (Word("type") :> String(Word(m.type))) @@ (Word("domain") :> String(Word("media")))
              @@ (Word("method") :> String(Word(m.method)))
              @@ (Word("dialogueId") :> Integer(m.dialogueId))
              @@ (Word("callbackId") :> Unsigned(m.callbackId))
      data == IF m.type = "response" /\ m.method = "register" THEN <<>>
              ELSE Word("data") :> DataOf(m)
      status == IF m.type = "request" THEN <<>> ELSE
                Word("status") :> Object((Word("errorCode") :> Integer(m.status.errorCode))
                                         @@ (Word("errorMessage") :> String(m.status.errorMessage)))
  IN Write(Object(root @@ data @@ status))

\* Conversions between int and unsigned int.
ToInt(n) == IF n > MaxInt THEN n - MaxUInt - 1 ELSE n
ToUInt(n) == IF n < 0 THEN n + MaxUInt + 1 ELSE n

\* What ends the process without an exception.
Ends == [type |-> "ends"]

\* The constructors take data first or last, and two of them take the ids in the
\* other order; the call for a RELEASE does not.  All of them log through a logger
\* that only the constructor without parameters sets, which none of them uses.
Constructed(type, method, dialogueId, callbackId, fields, status) ==
  IF logEnds THEN Ends
  ELSE IF type = "request" /\ method = "release"
  THEN Message(type, method, ToInt(callbackId), ToUInt(dialogueId), fields, status)
  ELSE Message(type, method, dialogueId, callbackId, fields, status)

\* Mutant: the callback id is taken for an int.
CallbackIdSigned(root) == AsInt(Get(root, Word("callbackId"), Integer(0)))

CallbackIdOf(root) == AsUInt(Get(root, Word("callbackId"), Integer(0)))

NotBuilt == [type |-> "null"]

\* The members that every message has, as they are read first.
HeadOf(root) ==
  <<AsCString(Get(root, Word("domain"), String(Word("UNKNOWN")))),
    AsCString(Get(root, Word("type"), String(Word("UNKNOWN")))),
    AsCString(Get(root, Word("method"), String(Word("UNKNOWN")))),
    AsInt(Get(root, Word("dialogueId"), Integer(0))),
    CallbackIdOf(root)>>

\* The status of a response.
ErrorsOf(status) ==
  <<AsInt(Get(status, Word("errorCode"), Integer(0))),
    AsCString(Get(status, Word("errorMessage"), String(<<>>)))>>

\* The class that type and method name, made of what its constructor reads.
MessageOf(type, method, head, fields, errors) ==
  IF type = "response" /\ ~Convertible(errors) THEN Throws
  ELSE IF head[3].s \notin {Word(m) : m \in Methods} THEN NotBuilt
  ELSE IF \E name \in DOMAIN fields : fields[name] = Throws THEN Throws
  ELSE Constructed(type, method, head[4].n, head[5].n, fields,
                   IF type = "request" THEN NoStatus
                   ELSE [errorCode |-> errors[1].n, errorMessage |-> errors[2].s])

BuiltOf(root, head) ==
  LET type == head[2].s[1].c
      method == head[3].s[1].c
      data == Get(root, Word("data"), Null)
  IN IF ~Convertible(head) THEN Throws
     ELSE IF head[2].s \notin {Word("request"), Word("response")} THEN NotBuilt
     ELSE MessageOf(type, method, head, [name \in Fields(type, method) |-> Field(data, name)],
                    ErrorsOf(Get(root, Word("status"), Null)))

\* build_message: a message, null, or an end: that of the logger, or an exception
\* that nobody catches.
Build(document) ==
  LET parsed == Parse(document)
  IN IF parsed.ok THEN BuiltOf(parsed.value, HeadOf(parsed.value)) ELSE NotBuilt

-----------------------------------------------------------------------------
(* Properties of one message and what follows it. *)

\* What arrives of a message.  Nothing is changed but the ids of a RELEASE.
Arriving(m) ==
  IF m.type = "request" /\ m.method = "release"
  THEN [m EXCEPT !.dialogueId = ToInt(m.callbackId), !.callbackId = ToUInt(m.dialogueId)] ELSE m

\* A message is built as it was, with any text in its strings and any ids, and
\* from a read that more follows in, unless building one ends the process.
Survives(m, more) == Build(ToJson(m) \o more) = IF logEnds THEN Ends ELSE Arriving(m)

\* What a read takes of a message that it does not begin and end with is no
\* message: a beginning is null, a rest is null or ends the process.
PartsAreNoMessages(m) ==
  LET document == ToJson(m)
  IN \A cut \in 1 .. Len(document) - 2 :
       /\ Build(SubSeq(document, 1, cut)) = NotBuilt
       /\ Build(SubSeq(document, cut + 1, Len(document))) \in {NotBuilt, Throws}
=============================================================================
