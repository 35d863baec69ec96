-------------------------- MODULE MediaServerProofs --------------------------
(* Theorems about MediaServer, for every pool of ports, every range of bound *)
(* ports and every modulus of session ids.                                   *)
EXTENDS MediaServer, DataLemmas

(* The invariant *)

Ports == {PortPool[i] : i \in DOMAIN PortPool}

LEMMA PoolSize == PortTotalCount \in Nat \ {0}
BY PortAssumption DEF PortTotalCount

\* Both counters are functions of the logs' lengths, every entry of a log is
\* what the counter stood at, and no call id is ever found.
CountersInv ==
  /\ TypeOK
  /\ \A callId \in CallIds : callIdToSessionIdLookup[callId] = NoSession
  /\ nextReadyPortIndex = Len(portLog) % PortTotalCount
  /\ \A i \in 1 .. Len(portLog) : portLog[i] = PortPool[(i - 1) % PortTotalCount]
  /\ nextSessionId = (FirstSessionId + Len(sessionLog)) % IdModulus
  /\ \A i \in 1 .. Len(sessionLog) :
       sessionLog[i].sessionId = (FirstSessionId + (i - 1)) % IdModulus

\* The ports of n streams continue the log where it ends.
LEMMA PortsStep ==
  ASSUME CountersInv, NEW n \in Nat
  PROVE  /\ AllocatePorts(n) \in Seq(Ports)
         /\ Len(AllocatePorts(n)) = n
         /\ \A i \in 1 .. n :
              AllocatePorts(n)[i] = PortPool[(Len(portLog) + i - 1) % PortTotalCount]
<1> DEFINE N == PortTotalCount
           k == Len(portLog)
<1>1. N \in Nat \ {0} /\ k \in Nat
  BY PoolSize DEF CountersInv, TypeOK
<1> HIDE DEF N, k
<1>2. ASSUME NEW i \in 1 .. n
      PROVE  /\ (nextReadyPortIndex + i - 1) % N = (k + i - 1) % N
             /\ (nextReadyPortIndex + i - 1) % N \in 0 .. N - 1
  <2>1. nextReadyPortIndex = k % N
    BY DEF CountersInv, N, k
  <2>2. i - 1 \in Nat /\ k % N \in Nat
    BY <1>1, ModType
  <2>3. ((k % N) + (i - 1)) % N = (k + (i - 1)) % N
    BY <1>1, <2>2, ModPlus
  <2>4. (k % N) + i - 1 = (k % N) + (i - 1) /\ k + i - 1 = k + (i - 1)
    BY <1>1, <2>2
  <2>5. k + i - 1 \in Nat
    BY <1>1
  <2>6. (k + i - 1) % N \in 0 .. N - 1
    BY <1>1, <2>5, ModType
  <2> QED
    BY <2>1, <2>3, <2>4, <2>6
<1>3. ASSUME NEW i \in 1 .. n PROVE PortPool[(nextReadyPortIndex + i - 1) % N] \in Ports
  BY <1>2 DEF PortPool, Ports, N
<1>4. AllocatePorts(n) = [i \in 1 .. n |-> PortPool[(nextReadyPortIndex + i - 1) % N]]
  BY DEF AllocatePorts, N
<1>5. AllocatePorts(n) \in Seq(Ports) /\ Len(AllocatePorts(n)) = n
  BY <1>3, <1>4
<1> QED
  BY <1>2, <1>4, <1>5 DEF N, k

LEMMA CountersStep ==
  ASSUME CountersInv, [Next]_vars
  PROVE  CountersInv'
<1> DEFINE N == PortTotalCount
           M == IdModulus
<1>1. N \in Nat \ {0} /\ M \in Nat \ {0} /\ FirstSessionId \in 0 .. M - 1
  BY PoolSize, IdAssumption
<1>2. ASSUME NEW callId \in CallIds, NEW n \in StreamCounts, Allocate(callId, n)
      PROVE  CountersInv'
  <2> DEFINE k == Len(portLog)
             m == Len(sessionLog)
             ports == AllocatePorts(n)
             session == [callId |-> callId, sessionId |-> nextSessionId]
  <2>1. n \in Nat
    BY StreamAssumption
  <2>2. k \in Nat /\ m \in Nat /\ portLog \in Seq(Ports)
        /\ sessionLog \in Seq([callId : CallIds, sessionId : SessionIds])
    BY DEF CountersInv, TypeOK, Ports
  <2>3. /\ portLog' = portLog \o ports
        /\ nextReadyPortIndex' = (nextReadyPortIndex + n) % N
        /\ nextSessionId' = (nextSessionId + 1) % M
        /\ sessionLog' = Append(sessionLog, session)
        /\ callIdToSessionIdLookup' = callIdToSessionIdLookup
    BY <1>2 DEF CountersInv, Allocate, SessionFor, AdvancePortIndex
  <2>4. /\ ports \in Seq(Ports) /\ Len(ports) = n
        /\ \A i \in 1 .. n : ports[i] = PortPool[(k + i - 1) % N]
    BY <2>1, PortsStep
  <2>5. session \in [callId : CallIds, sessionId : SessionIds]
    BY DEF CountersInv, TypeOK
  <2> HIDE DEF N, M, ports, session
  <2>6. nextReadyPortIndex' = Len(portLog') % N
    <3>1. Len(portLog \o ports) = Len(portLog) + Len(ports)
      BY <2>2, <2>4, ConcatProperties
    <3>2. Len(portLog') = k + n
      BY <2>3, <2>4, <3>1
    <3>3. nextReadyPortIndex = k % N
      BY DEF CountersInv, N
    <3> HIDE DEF k
    <3>4. ((k % N) + n) % N = (k + n) % N
      BY <1>1, <2>1, <2>2, ModPlus
    <3> QED
      BY <2>3, <3>2, <3>3, <3>4
  <2>7. ASSUME NEW i \in 1 .. Len(portLog') PROVE portLog'[i] = PortPool[(i - 1) % N]
    <3>1. CASE i <= k
      BY <2>2, <2>3, <2>4, <3>1 DEF CountersInv, N
    <3>2. CASE i > k
      <4>1. i - k \in 1 .. n /\ portLog'[i] = ports[i - k]
        BY <2>1, <2>2, <2>3, <2>4, <3>2
      <4>2. k + (i - k) - 1 = i - 1
        BY <2>2
      <4> QED
        BY <2>4, <4>1, <4>2
    <3> QED
      BY <2>2, <3>1, <3>2
  <2>8. nextSessionId' = (FirstSessionId + Len(sessionLog')) % M
    <3>1. Len(sessionLog') = m + 1
      BY <2>2, <2>3
    <3>2. nextSessionId = (FirstSessionId + m) % M
      BY DEF CountersInv, M
    <3> HIDE DEF m
    <3>3. FirstSessionId + m \in Nat /\ (FirstSessionId + m) + 1 = FirstSessionId + (m + 1)
      BY <1>1, <2>2
    <3>4. (((FirstSessionId + m) % M) + 1) % M = ((FirstSessionId + m) + 1) % M
      BY <1>1, <3>3, ModPlus
    <3> QED
      BY <2>3, <3>1, <3>2, <3>3, <3>4
  <2>9. ASSUME NEW i \in 1 .. Len(sessionLog')
        PROVE  sessionLog'[i].sessionId = (FirstSessionId + (i - 1)) % M
    <3>1. CASE i <= m
      BY <2>2, <2>3, <3>1 DEF CountersInv, M
    <3>2. CASE i = m + 1
      BY <2>2, <2>3, <3>2 DEF CountersInv, M, session
    <3> QED
      BY <2>2, <2>3, <3>1, <3>2
  <2>10. TypeOK'
    <3>1. nextReadyPortIndex' \in 0 .. N - 1
      <4>1. Len(portLog') \in Nat
        BY <2>2, <2>3, <2>4
      <4> QED
        BY <1>1, <2>6, <4>1, ModType
    <3>2. nextSessionId' \in 0 .. M - 1
      <4>1. nextSessionId + 1 \in Nat
        BY IdAssumption DEF CountersInv, TypeOK, SessionIds
      <4> QED
        BY <1>1, <2>3, <4>1, ModType
    <3>3. portLog' \in Seq(Ports)
      BY <2>2, <2>3, <2>4
    <3>4. sessionLog' \in Seq([callId : CallIds, sessionId : SessionIds])
      BY <2>2, <2>3, <2>5
    <3> QED
      BY <2>3, <3>1, <3>2, <3>3, <3>4 DEF CountersInv, TypeOK, SessionIds, Ports, N, M
  <2> QED
    BY <2>3, <2>6, <2>7, <2>8, <2>9, <2>10 DEF CountersInv, N, M
<1>3. CASE UNCHANGED vars
  BY <1>3 DEF CountersInv, TypeOK, vars
<1> QED
  BY <1>2, <1>3 DEF Next, Acknowledge

LEMMA CountersInit == Init => CountersInv
<1>1. 0 % PortTotalCount = 0 /\ 0 \in 0 .. PortTotalCount - 1
  BY PoolSize, ModOfSmall
<1>2. (FirstSessionId + 0) % IdModulus = FirstSessionId
  BY IdAssumption, ModOfSmall
<1> QED
  BY <1>1, <1>2, IdAssumption DEF Init, CountersInv, TypeOK, SessionIds

LEMMA CountersInvariance == Spec => []CountersInv
BY CountersInit, CountersStep, PTL DEF Spec

-----------------------------------------------------------------------------
(* Theorems *)

\* Every variable keeps its type, and every port answered is one of the pool's
\* (TypeOK).
THEOREM MediaTypeCorrect == Spec => []TypeOK
<1>1. CountersInv => TypeOK
  BY DEF CountersInv
<1> QED
  BY <1>1, CountersInvariance, PTL

\* allocatePort: two streams share a port exactly when a multiple of the pool's
\* size lies between them (PortsRepeatOnlyAfterPool).
THEOREM PortReuse == Spec => []PortsRepeatOnlyAfterPool
<1>1. CountersInv => PortsRepeatOnlyAfterPool
  <2> SUFFICES ASSUME CountersInv, NEW i \in 1 .. Len(portLog), NEW j \in 1 .. Len(portLog), i < j
               PROVE  portLog[i] = portLog[j] <=> (j - i) % PortTotalCount = 0
    BY DEF PortsRepeatOnlyAfterPool
  <2> DEFINE N == PortTotalCount
             a == (i - 1) % N
             b == (j - 1) % N
  <2>1. N \in Nat \ {0} /\ Len(portLog) \in Nat
    BY PoolSize DEF CountersInv, TypeOK
  <2> HIDE DEF N
  <2>2. i - 1 \in Nat /\ j - 1 \in Nat /\ j - i \in Nat /\ (i - 1) + (j - i) = j - 1
    BY <2>1
  <2>3. a \in 0 .. N - 1 /\ b \in 0 .. N - 1
    BY <2>1, <2>2, ModType
  <2>4. portLog[i] = PortMin + 2 * a /\ portLog[j] = PortMin + 2 * b
    BY <2>3 DEF CountersInv, PortPool, N
  <2>5. ((i - 1) + (j - i)) % N = (i - 1) % N <=> (j - i) % N = 0
    BY <2>1, <2>2, ModEqual
  <2>6. b = a <=> (j - i) % N = 0
    BY <2>2, <2>5
  <2> QED
    BY <2>3, <2>4, <2>6, PortAssumption DEF N
<1> QED
  BY <1>1, CountersInvariance, PTL

\* Until the pool has gone round, a stream's port is listened on exactly when
\* it lies in the bound range, counted from the first stream (FirstPortsAreBound).
THEOREM PortsBound == Spec => []FirstPortsAreBound
<1>1. CountersInv => FirstPortsAreBound
  <2> SUFFICES ASSUME CountersInv, NEW i \in 1 .. Len(portLog), i <= PortTotalCount
               PROVE  Bound(portLog[i]) <=> PortMin + 2 * (i - 1) < FirstBoundPort + BoundPorts
    BY DEF FirstPortsAreBound
  <2>1. PortTotalCount \in Nat \ {0} /\ i - 1 \in 0 .. PortTotalCount - 1
    BY PoolSize DEF CountersInv, TypeOK
  <2>2. (i - 1) % PortTotalCount = i - 1
    BY <2>1, ModOfSmall
  <2>3. portLog[i] = PortMin + 2 * (i - 1)
    BY <2>1, <2>2 DEF CountersInv, PortPool
  <2> QED
    BY <2>1, <2>3, PortAssumption DEF Bound
<1> QED
  BY <1>1, CountersInvariance, PTL

\* Sessions of two calls that are fewer than IdModulus apart have different ids
\* (SessionIdsDistinct).
THEOREM DistinctSessions == Spec => []SessionIdsDistinct
<1>1. CountersInv => SessionIdsDistinct
  <2> SUFFICES ASSUME CountersInv, NEW i \in 1 .. Len(sessionLog), NEW j \in 1 .. Len(sessionLog),
                      i < j, j - i < IdModulus, sessionLog[i].sessionId = sessionLog[j].sessionId
               PROVE  FALSE
    BY DEF SessionIdsDistinct
  <2> DEFINE M == IdModulus
             a == FirstSessionId + (i - 1)
  <2>1. M \in Nat \ {0} /\ FirstSessionId \in Nat /\ Len(sessionLog) \in Nat
    BY IdAssumption DEF CountersInv, TypeOK
  <2>2. a \in Nat /\ j - i \in 1 .. M - 1 /\ a + (j - i) = FirstSessionId + (j - 1)
    BY <2>1
  <2>3. (a + (j - i)) % M = a % M
    <3>1. sessionLog[i].sessionId = (FirstSessionId + (i - 1)) % IdModulus
      BY DEF CountersInv
    <3>2. sessionLog[j].sessionId = (FirstSessionId + (j - 1)) % IdModulus
      BY DEF CountersInv
    <3>3. (FirstSessionId + (j - 1)) % M = (FirstSessionId + (i - 1)) % M
      BY <3>1, <3>2
    <3> HIDE DEF M
    <3> QED
      BY <2>2, <3>3
  <2> HIDE DEF M, a
  <2>4. (j - i) % M = 0
    <3>1. j - i \in Nat
      BY <2>1, <2>2
    <3> QED
      BY <2>1, <2>2, <2>3, <3>1, ModEqual
  <2>5. (j - i) % M = j - i
    <3>1. j - i \in 0 .. M - 1
      BY <2>1, <2>2
    <3> QED
      BY <2>1, <3>1, ModOfSmall
  <2> QED
    BY <2>1, <2>2, <2>4, <2>5
<1> QED
  BY <1>1, CountersInvariance, PTL
=============================================================================
