---------------------------- MODULE MediaServer ----------------------------
(***************************************************************************)
(* The media process: mediaRequestHandler over MediaSessionManager, which  *)
(* hands out RTP ports and session ids for the streams of an offer.        *)
(*                                                                         *)
(* Every request is handled to completion on the process's one loop (the   *)
(* manager's mutex is never contended), so an action is one request.       *)
(* Nothing is ever released: release() and releasePort() change nothing a  *)
(* request can reach.                                                      *)
(***************************************************************************)
EXTENDS Naturals, Sequences

CONSTANTS
  CallIds,         \* call ids a MediaAllocateRequest can carry
  StreamCounts,    \* numbers of media streams an offer can have
  PortMin,         \* CONFIG_RTP_PORT_MIN: 4000 in the code
  PortMax,         \* CONFIG_RTP_PORT_MAX: 6998
  FirstBoundPort,  \* first port initialise() listens on: 3999
  BoundPorts,      \* number of ports initialise() listens on: 100
  FirstSessionId,  \* initial nextSessionId: 1001
  IdModulus,       \* session ids are unsigned and wrap: 2^32
  NoSession        \* the null session pointer

PortTotalCount == (PortMax - PortMin) \div 2

ASSUME PortAssumption ==
  /\ PortMin \in Nat /\ PortMax \in Nat /\ PortMax >= PortMin + 2
  /\ FirstBoundPort \in Nat /\ BoundPorts \in Nat /\ FirstBoundPort <= PortMin
ASSUME IdAssumption ==
  /\ IdModulus \in Nat \ {0}
  /\ FirstSessionId \in 0 .. IdModulus - 1
  /\ NoSession \notin 0 .. IdModulus - 1
ASSUME StreamAssumption == StreamCounts \subseteq Nat

SessionIds == 0 .. IdModulus - 1

VARIABLES
  nextReadyPortIndex,
  nextSessionId,
  callIdToSessionIdLookup,  \* call id -> session id; nothing ever inserts
  sessionLog,               \* history: the sessions returned, in order
  portLog                   \* history: the port of every stream answered

vars == <<nextReadyPortIndex, nextSessionId, callIdToSessionIdLookup,
          sessionLog, portLog>>

\* Mutant: every port, not every other.
PortPoolDense == [index \in 0 .. PortTotalCount - 1 |-> PortMin + index]

\* The constructor's portPool: even ports from PortMin, PortMax left out.
PortPool == [index \in 0 .. PortTotalCount - 1 |-> PortMin + 2 * index]

Init ==
  /\ nextReadyPortIndex = 0
  /\ nextSessionId = FirstSessionId
  /\ callIdToSessionIdLookup = [callId \in CallIds |-> NoSession]
  /\ sessionLog = <<>>
  /\ portLog = <<>>

\* Mutant: one port for all streams of an offer.
AllocateOnePort(n) == [i \in 1 .. n |-> PortPool[nextReadyPortIndex]]

\* allocatePort, called once for each of n streams: the pool is a circle and
\* nothing looks at whether a port is still in use.
AllocatePorts(n) ==
  [i \in 1 .. n |-> PortPool[(nextReadyPortIndex + i - 1) % PortTotalCount]]

\* Mutant: the index wraps one too late.
AdvancePortIndexLate(n) ==
  nextReadyPortIndex' = (nextReadyPortIndex + n) % (PortTotalCount + 1)

AdvancePortIndex(n) ==
  nextReadyPortIndex' = (nextReadyPortIndex + n) % PortTotalCount

\* What allocate(callId, offer) returns for an offer of n streams.
SessionFor(callId) ==
  IF callIdToSessionIdLookup[callId] # NoSession
  THEN callIdToSessionIdLookup[callId]
  ELSE nextSessionId

\* Mutant: an offer without streams leaves before the id is taken.
AllocateLeavingEarly(callId, n) ==
  /\ sessionLog' = Append(sessionLog, [callId |-> callId, sessionId |-> nextSessionId])
  /\ portLog' = portLog \o AllocatePorts(n)
  /\ AdvancePortIndex(n)
  /\ nextSessionId' = IF n = 0 THEN nextSessionId ELSE (nextSessionId + 1) % IdModulus
  /\ UNCHANGED callIdToSessionIdLookup

\* A known call id gets its session back with no stream in the answer; any
\* other gets a port per stream and the next id.
Allocate(callId, n) ==
  /\ sessionLog' = Append(sessionLog, [callId |-> callId, sessionId |-> SessionFor(callId)])
  /\ IF callIdToSessionIdLookup[callId] # NoSession
     THEN UNCHANGED <<nextReadyPortIndex, nextSessionId, portLog>>
     ELSE /\ portLog' = portLog \o AllocatePorts(n)
          /\ AdvancePortIndex(n)
          /\ nextSessionId' = (nextSessionId + 1) % IdModulus
  /\ UNCHANGED callIdToSessionIdLookup

\* REGISTER, RELEASE, RECORD_START and RECORD_STOP only send a response.
Acknowledge == UNCHANGED vars

Next ==
  \/ \E callId \in CallIds, n \in StreamCounts : Allocate(callId, n)
  \/ Acknowledge

Spec == Init /\ [][Next]_vars

-----------------------------------------------------------------------------
(* Properties *)

\* Every variable stays within its type; ports come from the pool.
TypeOK ==
  /\ nextReadyPortIndex \in 0 .. PortTotalCount - 1
  /\ nextSessionId \in SessionIds
  /\ callIdToSessionIdLookup \in [CallIds -> SessionIds \cup {NoSession}]
  /\ sessionLog \in Seq([callId : CallIds, sessionId : SessionIds])
  /\ portLog \in Seq({PortPool[i] : i \in DOMAIN PortPool})

\* allocatePort keeps no record of ports in use, so only the size of the pool
\* keeps calls apart: streams share a port exactly when a multiple of
\* PortTotalCount streams lies between them.
PortsRepeatOnlyAfterPool ==
  \A i, j \in 1 .. Len(portLog) :
    i < j => (portLog[i] = portLog[j] <=> (j - i) % PortTotalCount = 0)

\* The ports initialise() listens on.
Bound(port) == FirstBoundPort <= port /\ port < FirstBoundPort + BoundPorts

\* A port in an answer is one the process listens on for as long as the streams
\* fit into the bound range; from the next stream on, until the pool wraps, the
\* peer is told to send its media to a port nobody listens on.
FirstPortsAreBound ==
  \A i \in 1 .. Len(portLog) :
    i <= PortTotalCount =>
      (Bound(portLog[i]) <=> PortMin + 2 * (i - 1) < FirstBoundPort + BoundPorts)

\* Two calls never get one session id before the counter has gone round, with
\* whatever offers, and however often, either of them is allocated again.  (A call
\* that is allocated again gets a second id: the session that allocate looks for, a
\* "Re-Invite" says its comment, is stored nowhere.)
SessionIdsDistinct ==
  \A i, j \in 1 .. Len(sessionLog) :
    (i < j /\ j - i < IdModulus /\ sessionLog[i].callId # sessionLog[j].callId) =>
      sessionLog[i].sessionId # sessionLog[j].sessionId
=============================================================================
