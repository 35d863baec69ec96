----------------------------- MODULE MCCoreLive -----------------------------
(* Instance of Core for its liveness: the bounds are on what peers and       *)
(* controllers send, never on a step the fairness condition asks for.        *)
EXTENDS Core

CONSTANT MaxEvents   \* bound: SIP events raised on each call

\* A controller makes each of its requests once.
OneRequestEach ==
  \A i, j \in DOMAIN controlLog : controlLog[i] = controlLog[j] => i = j

\* A controller names only channels that have a call.
ChannelsExist ==
  \A i \in DOMAIN controlLog :
    controlLog[i].request.method = "CALL_ANSWER" =>
      channelToDialogueMap[controlLog[i].request.channelId] # NoDialogue

BoundedNext ==
  /\ Next
  /\ \A c \in CallIds : Len(events'[c]) <= MaxEvents
  /\ OneRequestEach'
  /\ ChannelsExist'

MCFairSpec == Init /\ [][BoundedNext]_vars /\ Fairness
=============================================================================
