---------------------------- MODULE SipTcpProofs ----------------------------
(* Theorems about SipTcp, for any number of connections, all messages, every *)
(* size of the ring, of the read buffer and of a read, however the streams   *)
(* are cut, and all that memory may hold.                                    *)
EXTENDS SipTcp, DataLemmas

(* The parser is the one of SipUdp; what is proved of it there holds here *)

Udp == INSTANCE SipUdpProofs WITH
  Datagrams <- {}, BufferSize <- BufSize, parser <- connection, arrived <- sent

Pieces(n) == [unit : Unit, number : 0 .. n]

Parsers(n) == {p \in [processingMessage : BOOLEAN, sipMessage : Message(0 .. n) \cup {Null},
                      expecting : ContentTypes \cup PartTypes, receivedContentLength : Nat,
                      bodies : Bodies(0 .. n)] : p.processingMessage => p.sipMessage # Null}

\* What a call of loadMessageData is given and changes; SipUdp's state has a rest too.
LoadStates(n) == [parser : Parsers(n), running : BOOLEAN, delivered : Seq(Message(0 .. n))]

WithRest(s) ==
  [parser |-> s.parser, running |-> s.running, delivered |-> s.delivered, rest |-> <<>>]

LEMMA SameData ==
  /\ Udp!Unit = Unit /\ Udp!Request = Request /\ Udp!BuiltMethods = BuiltMethods
  /\ \A S : Udp!Chunk(S) = Chunk(S) /\ Udp!Bodies(S) = Bodies(S) /\ Udp!Message(S) = Message(S)
  /\ \A n : Udp!Pieces(n) = Pieces(n) /\ Udp!Parsers(n) = Parsers(n)
<1>1. /\ Udp!Unit = Unit /\ Udp!Request = Request /\ Udp!BuiltMethods = BuiltMethods
      /\ Udp!PartTypes = PartTypes /\ Udp!ContentTypes = ContentTypes
  BY DEF Udp!Unit, Unit, Udp!Request, Request, Udp!BuiltMethods, BuiltMethods,
         Udp!ContentTypes, ContentTypes, Udp!PartTypes, PartTypes
<1>2. \A S : Udp!Chunk(S) = Chunk(S) /\ Udp!Bodies(S) = Bodies(S) /\ Udp!Message(S) = Message(S)
  BY <1>1 DEF Udp!Chunk, Chunk, Udp!Bodies, Bodies, Udp!Message, Message
<1>3. \A n : Udp!Pieces(n) = Pieces(n) /\ Udp!Parsers(n) = Parsers(n)
  BY <1>1, <1>2 DEF Udp!Pieces, Pieces, Udp!Parsers, Parsers
<1> QED
  BY <1>1, <1>2, <1>3

LEMMA SameCalls ==
  ASSUME NEW s, NEW chunk, NEW text
  PROVE  /\ Udp!BuildMessage(s.parser, chunk) = BuildMessage(s.parser, chunk)
         /\ Udp!LoadHeader(s, chunk) = LoadHeader(s, chunk)
         /\ Udp!LoadBody(s, chunk, text) = LoadBody(s, chunk, text)
         /\ Udp!StartsWith(chunk, "header") = StartsWith(chunk, "header")
         /\ Udp!AnnouncedType(chunk) = AnnouncedType(chunk)
BY DEF Udp!LoadHeader, LoadHeader, Udp!BuildMessage, BuildMessage, Udp!StartsWith, StartsWith,
       Udp!BuiltMethods, BuiltMethods, Udp!NoBodies, NoBodies, Udp!PartTypes, PartTypes,
       Udp!Deliver, Deliver, Udp!LoadBody, LoadBody, Udp!Counted, Counted,
       Udp!ParseBodyData, ParseBodyData, Udp!AddBody, AddBody, Udp!AnnouncedType, AnnouncedType,
       Udp!Lines, Lines, Udp!Min, Min, Udp!Max, Max

LEMMA UdpAssumptions ==
  /\ Null \notin Udp!Chunk(Nat) \cup Udp!Message(Nat)
  /\ Leftovers \subseteq Udp!Chunk({0})
  /\ BufSize \in Nat
BY SameData, NullAssumption, LeftoversAssumption, SizesAssumption

LEMMA StatesWithRest ==
  ASSUME NEW n \in Nat, NEW s \in LoadStates(n)
  PROVE  /\ WithRest(s) \in Udp!LoopStates(n)
         /\ WithRest(s).parser = s.parser /\ WithRest(s).running = s.running
         /\ WithRest(s).delivered = s.delivered
<1>1. <<>> \in Seq(Udp!Pieces(n))
  OBVIOUS
<1> QED
  BY <1>1, SameData DEF LoadStates, WithRest, Udp!LoopStates

\* Whether it has a rest makes no difference.
LEMMA HeaderWithoutRest ==
  ASSUME NEW n \in Nat, NEW s \in LoadStates(n), NEW chunk
  PROVE  LET t == LoadHeader(s, chunk)
             u == LoadHeader(WithRest(s), chunk)
         IN t.parser = u.parser /\ t.running = u.running /\ t.delivered = u.delivered
BY DEF LoadStates, WithRest, LoadHeader, Deliver

LEMMA BodyWithoutRest ==
  ASSUME NEW n \in Nat, NEW s \in LoadStates(n), NEW chunk, NEW text
  PROVE  LET t == LoadBody(s, chunk, text)
             u == LoadBody(WithRest(s), chunk, text)
         IN t.parser = u.parser /\ t.running = u.running /\ t.delivered = u.delivered
BY DEF LoadStates, WithRest, LoadBody, Deliver

LEMMA LoadStateTypes ==
  ASSUME NEW n \in Nat, NEW s \in LoadStates(n)
  PROVE  /\ s.parser \in Parsers(n) /\ s.running \in BOOLEAN /\ s.delivered \in Seq(Message(0 .. n))
         /\ s.parser.processingMessage \in BOOLEAN /\ s.parser.receivedContentLength \in Nat
         /\ s.parser.processingMessage => s.parser.sipMessage \in Message(0 .. n)
BY DEF LoadStates, Parsers

LEMMA MessageTypes ==
  ASSUME NEW n \in Nat, NEW m \in Message(0 .. n)
  PROVE  /\ m.request \in Request /\ m.request.contentLength \in Nat
         /\ m.request.contentType \in ContentTypes /\ m.number \in 0 .. n /\ m # Null
<1>1. Null \notin Message(0 .. n)
  BY Udp!NullIsNoData, UdpAssumptions, SameData
<1> QED
  BY <1>1 DEF Message, Request

LEMMA BuiltMessages ==
  ASSUME NEW n \in Nat, NEW p \in Parsers(n), NEW chunk \in Seq(Pieces(n))
  PROVE  LET m == BuildMessage(p, chunk)
         IN /\ m # Null <=> /\ StartsWith(chunk, "header")
                            /\ chunk[1].unit.request.method \in BuiltMethods
            /\ m # Null => /\ m \in Message(0 .. n) /\ chunk # <<>>
                           /\ chunk[1] \in Pieces(n)
                           /\ m.request = chunk[1].unit.request
                           /\ m.number = chunk[1].number
                           /\ m.bodies = IF m.request.method = "INVITE" THEN p.bodies ELSE NoBodies
<1> DEFINE s == [parser |-> p]
<1>1. Udp!BuildMessage(s.parser, chunk) = BuildMessage(s.parser, chunk)
  BY SameCalls
<1>2. Udp!BuildMessage(p, chunk) = BuildMessage(p, chunk)
  BY <1>1
<1>3. Udp!StartsWith(chunk, "header") = StartsWith(chunk, "header") /\ Udp!NoBodies = NoBodies
  BY DEF Udp!StartsWith, StartsWith, Udp!NoBodies, NoBodies, Udp!PartTypes, PartTypes
<1>4. p \in Udp!Parsers(n) /\ chunk \in Seq(Udp!Pieces(n))
  BY SameData
<1> QED
  BY <1>2, <1>3, <1>4, SameData, UdpAssumptions, Udp!BuiltMessages

\* A call of loadMessageData between messages.
LEMMA HeaderLoaded ==
  ASSUME NEW n \in Nat, NEW s \in LoadStates(n), NEW chunk \in Seq(Pieces(n)),
         ~ s.parser.processingMessage
  PROVE  LET t == LoadHeader(s, chunk)
             m == BuildMessage(s.parser, chunk)
         IN /\ t.parser \in Parsers(n) /\ t.running = s.running
            /\ t.delivered \in Seq(Message(0 .. n))
            /\ t.parser.bodies = s.parser.bodies
            /\ m = Null =>
                 /\ ~ t.parser.processingMessage
                 /\ t.parser.receivedContentLength = s.parser.receivedContentLength
                 /\ t.delivered = s.delivered
            /\ (m # Null /\ m.request.contentLength = 0) =>
                 /\ ~ t.parser.processingMessage
                 /\ t.parser.receivedContentLength = 0
                 /\ t.delivered = Append(s.delivered, m)
            /\ (m # Null /\ m.request.contentLength # 0) =>
                 /\ t.parser.processingMessage
                 /\ t.parser.receivedContentLength = s.parser.receivedContentLength
                 /\ t.parser.sipMessage = m /\ t.parser.expecting = m.request.contentType
                 /\ t.delivered = s.delivered
<1> DEFINE r == WithRest(s)
           u == LoadHeader(r, chunk)
           m == BuildMessage(r.parser, chunk)
<1>1. /\ r \in Udp!LoopStates(n) /\ r.parser = s.parser /\ r.running = s.running
      /\ r.delivered = s.delivered
  BY StatesWithRest
<1>2. Udp!LoadHeader(r, chunk) = u /\ Udp!BuildMessage(r.parser, chunk) = m
  BY SameCalls
<1> HIDE DEF r
<1>3. chunk \in Seq(Udp!Pieces(n)) /\ ~ r.parser.processingMessage
  BY <1>1, SameData
<1>4. LET t == Udp!LoadHeader(r, chunk)
          b == Udp!BuildMessage(r.parser, chunk)
      IN /\ t \in Udp!LoopStates(n) /\ t.running = r.running /\ t.rest = r.rest
         /\ t.parser.bodies = r.parser.bodies
         /\ b = Null =>
              /\ ~ t.parser.processingMessage
              /\ t.parser.receivedContentLength = r.parser.receivedContentLength
              /\ t.delivered = r.delivered
         /\ (b # Null /\ b.request.contentLength = 0) =>
              /\ ~ t.parser.processingMessage
              /\ t.parser.receivedContentLength = 0
              /\ t.delivered = Append(r.delivered, b)
         /\ (b # Null /\ b.request.contentLength # 0) =>
              /\ t.parser.processingMessage
              /\ t.parser.receivedContentLength = r.parser.receivedContentLength
              /\ t.parser.sipMessage = b /\ t.parser.expecting = b.request.contentType
              /\ t.delivered = r.delivered
  BY <1>1, <1>3, UdpAssumptions, Udp!HeaderLoaded
<1>5. LET t == LoadHeader(s, chunk)
      IN t.parser = u.parser /\ t.running = u.running /\ t.delivered = u.delivered
  BY HeaderWithoutRest DEF r
<1> HIDE DEF u, m
<1>6. u \in Udp!LoopStates(n)
  BY <1>2, <1>4
<1>7. u.parser \in Parsers(n) /\ u.delivered \in Seq(Message(0 .. n))
  BY <1>6, SameData DEF Udp!LoopStates
<1>8. m = BuildMessage(s.parser, chunk)
  BY <1>1 DEF m
<1> QED
  BY <1>1, <1>2, <1>4, <1>5, <1>7, <1>8

\* A call of it while a body is awaited.
LEMMA BodyLoaded ==
  ASSUME NEW n \in Nat, NEW s \in LoadStates(n), NEW chunk \in Seq(Pieces(n)),
         NEW text \in Seq(Pieces(n)), s.parser.processingMessage
  PROVE  LET t == LoadBody(s, chunk, text)
             p == s.parser
             m == p.sipMessage
             received == p.receivedContentLength + Len(chunk)
         IN /\ t.parser \in Parsers(n) /\ t.running = s.running
            /\ t.delivered \in Seq(Message(0 .. n))
            /\ t.parser.sipMessage \in Message(0 .. n)
            /\ t.parser.sipMessage.request = m.request
            /\ t.parser.sipMessage.number = m.number
            /\ t.parser.expecting = IF p.expecting = "BOUNDARY" THEN AnnouncedType(chunk) ELSE "NONE"
            /\ t.parser.bodies["SDP"] =
                 IF p.expecting = "SDP" /\ p.bodies["SDP"] = Null THEN chunk ELSE p.bodies["SDP"]
            /\ SdpOf(t.parser.sipMessage) =
                 IF p.expecting = "SDP" /\ SdpOf(m) = Null THEN text ELSE SdpOf(m)
            /\ received >= m.request.contentLength =>
                 /\ ~ t.parser.processingMessage /\ t.parser.receivedContentLength = 0
                 /\ t.delivered = Append(s.delivered, t.parser.sipMessage)
            /\ ~ (received >= m.request.contentLength) =>
                 /\ t.parser.processingMessage /\ t.parser.receivedContentLength = received
                 /\ t.delivered = s.delivered
<1> DEFINE r == WithRest(s)
           u == LoadBody(r, chunk, text)
<1>1. /\ r \in Udp!LoopStates(n) /\ r.parser = s.parser /\ r.running = s.running
      /\ r.delivered = s.delivered
  BY StatesWithRest
<1>2. /\ Udp!LoadBody(r, chunk, text) = u /\ Udp!AnnouncedType(chunk) = AnnouncedType(chunk)
      /\ \A m : Udp!SdpOf(m) = SdpOf(m)
  BY SameCalls DEF Udp!SdpOf, SdpOf
<1> HIDE DEF r
<1>3. chunk \in Seq(Udp!Pieces(n)) /\ text \in Seq(Udp!Pieces(n)) /\ r.parser.processingMessage
  BY <1>1, SameData
<1>4. LET t == Udp!LoadBody(r, chunk, text)
          p == r.parser
          m == p.sipMessage
          received == p.receivedContentLength + Len(chunk)
      IN /\ t \in Udp!LoopStates(n) /\ t.running = r.running /\ t.rest = r.rest
         /\ t.parser.sipMessage \in Udp!Message(0 .. n)
         /\ t.parser.sipMessage.request = m.request
         /\ t.parser.sipMessage.number = m.number
         /\ t.parser.expecting =
              IF p.expecting = "BOUNDARY" THEN Udp!AnnouncedType(chunk) ELSE "NONE"
         /\ t.parser.bodies["SDP"] =
              IF p.expecting = "SDP" /\ p.bodies["SDP"] = Null THEN chunk ELSE p.bodies["SDP"]
         /\ Udp!SdpOf(t.parser.sipMessage) =
              IF p.expecting = "SDP" /\ Udp!SdpOf(m) = Null THEN text ELSE Udp!SdpOf(m)
         /\ received >= m.request.contentLength =>
              /\ ~ t.parser.processingMessage /\ t.parser.receivedContentLength = 0
              /\ t.delivered = Append(r.delivered, t.parser.sipMessage)
         /\ ~ (received >= m.request.contentLength) =>
              /\ t.parser.processingMessage /\ t.parser.receivedContentLength = received
              /\ t.delivered = r.delivered
  BY <1>1, <1>3, UdpAssumptions, Udp!BodyLoaded
<1>5. LET t == LoadBody(s, chunk, text)
      IN t.parser = u.parser /\ t.running = u.running /\ t.delivered = u.delivered
  BY BodyWithoutRest DEF r
<1> HIDE DEF u
<1>6. u \in Udp!LoopStates(n) /\ u.parser.sipMessage \in Message(0 .. n)
  BY <1>2, <1>4, SameData
<1>7. u.parser \in Parsers(n) /\ u.delivered \in Seq(Message(0 .. n))
  BY <1>6, SameData DEF Udp!LoopStates
<1> QED
  BY <1>1, <1>2, <1>4, <1>5, <1>6, <1>7

LEMMA TextBegins ==
  ASSUME NEW n \in Nat, NEW chunk \in Seq(Pieces(n)), NEW remains \in Leftovers
  PROVE  /\ TextOf(chunk, BufSize, remains) \in Seq(Pieces(n))
         /\ IsPrefix(chunk, TextOf(chunk, BufSize, remains))
<1>1. chunk \in Seq(Udp!Pieces(n))
  BY SameData
<1>2. /\ Udp!TextOf(chunk, BufSize, remains) \in Seq(Udp!Pieces(n))
      /\ Udp!IsPrefix(chunk, Udp!TextOf(chunk, BufSize, remains))
  BY <1>1, UdpAssumptions, Udp!TextBegins
<1> QED
  BY <1>2, SameData DEF Udp!TextOf, TextOf, Udp!IsPrefix, IsPrefix

-----------------------------------------------------------------------------
(* A connection's ring *)

Links(n) == [status : {"open", "closed"}, memory : [0 .. Capacity -> Pieces(n)],
             start : 0 .. Capacity + 1, end : 0 .. Capacity + 1,
             pendingMessageBytes : Nat, parser : Parsers(n)]

\* What is stored, and how much that is.
Held(link) == Ring(link.memory, link.start, link.end)!Stored
Count(link) == Ring(link.memory, link.start, link.end)!StoredByteCount

\* Where the i-th unit of it is, counted from 0.
Place(link, i) == Ring(link.memory, link.start, link.end)!SlotAt(i)

\* The links whose ring holds no more than its capacity.
FitLinks(n) == {link \in Links(n) : Count(link) <= Capacity}

LEMMA LinkTypes ==
  ASSUME NEW n \in Nat, NEW link \in FitLinks(n)
  PROVE  /\ Capacity \in Nat \ {0} /\ link.memory \in [0 .. Capacity -> Pieces(n)]
         /\ link.start \in 0 .. Capacity + 1 /\ link.end \in 0 .. Capacity + 1
         /\ link.parser \in Parsers(n) /\ link.pendingMessageBytes \in Nat
         /\ Count(link) \in 0 .. Capacity
         /\ Count(link) = IF link.end >= link.start THEN link.end - link.start
                          ELSE ((Capacity + 1) - link.start) + link.end
BY SizesAssumption DEF FitLinks, Links, Count, Ring!StoredByteCount, Ring!size

LEMMA HeldPlaces ==
  ASSUME NEW n \in Nat, NEW link \in FitLinks(n), NEW i \in 0 .. Capacity
  PROVE  Place(link, i) \in 0 .. Capacity
BY LinkTypes DEF Place, Ring!SlotAt, Ring!size

LEMMA HeldElements ==
  ASSUME NEW n \in Nat, NEW link \in FitLinks(n)
  PROVE  /\ Held(link) \in Seq(Pieces(n)) /\ Len(Held(link)) = Count(link)
         /\ \A i \in 1 .. Count(link) : Held(link)[i] = link.memory[Place(link, i - 1)]
<1>1. Count(link) \in 0 .. Capacity /\ Capacity \in Nat
  BY LinkTypes
<1>2. Held(link) = [i \in 1 .. Count(link) |-> link.memory[Place(link, i - 1)]]
  BY DEF Held, Ring!Stored, Ring!FirstBytes, Count, Place
<1>3. \A i \in 1 .. Count(link) : link.memory[Place(link, i - 1)] \in Pieces(n)
  <2> SUFFICES ASSUME NEW i \in 1 .. Count(link)
               PROVE  link.memory[Place(link, i - 1)] \in Pieces(n)
    OBVIOUS
  <2>1. i - 1 \in 0 .. Capacity
    BY <1>1
  <2>2. Place(link, i - 1) \in 0 .. Capacity
    BY <2>1, HeldPlaces
  <2> QED
    BY <2>2, LinkTypes
<1>4. Held(link) \in [1 .. Count(link) -> Pieces(n)]
  BY <1>2, <1>3
<1> QED
  BY <1>1, <1>2, <1>4, FunctionIsSeq

LEMMA ConcatElements ==
  ASSUME NEW S, NEW u \in Seq(S), NEW v \in Seq(S)
  PROVE  /\ u \o v \in Seq(S) /\ Len(u \o v) = Len(u) + Len(v) /\ Len(u) \in Nat /\ Len(v) \in Nat
         /\ DOMAIN (u \o v) = 1 .. Len(u) + Len(v)
         /\ \A i \in 1 .. Len(u) : (u \o v)[i] = u[i]
         /\ \A i \in 1 .. Len(v) : (u \o v)[Len(u) + i] = v[i]
OBVIOUS

\* What a push makes of the positions, and of the memory.
LEMMA PushPlaces ==
  ASSUME NEW n \in Nat, NEW link \in FitLinks(n), NEW bytes \in Seq(Pieces(n)),
         Len(bytes) <= Capacity - Count(link)
  PROVE  LET more == Push(link, bytes)
         IN /\ more = [link EXCEPT !.memory = more.memory, !.end = more.end]
            /\ more.end \in 0 .. Capacity + 1
            /\ Count(more) = Count(link) + Len(bytes)
            /\ \A i \in 0 .. Capacity : Place(more, i) = Place(link, i)
            /\ more.memory \in [0 .. Capacity -> Pieces(n)]
            /\ \A i \in 0 .. Count(link) - 1 : more.memory[Place(link, i)] = link.memory[Place(link, i)]
            /\ \A i \in 1 .. Len(bytes) : more.memory[Place(link, Count(link) + i - 1)] = bytes[i]
<1> DEFINE more == Push(link, bytes)
           Offset(slot) == IF slot >= link.end THEN slot - link.end
                           ELSE slot + (Capacity + 1) - link.end
           slots == [slot \in 0 .. Capacity |->
                        IF Offset(slot) < Len(bytes) THEN bytes[Offset(slot) + 1]
                        ELSE link.memory[slot]]
           last == IF (Capacity + 1) - link.end < Len(bytes)
                  THEN Len(bytes) - ((Capacity + 1) - link.end) ELSE link.end + Len(bytes)
<1>1. /\ Capacity \in Nat \ {0} /\ link.memory \in [0 .. Capacity -> Pieces(n)]
      /\ link.start \in 0 .. Capacity + 1 /\ link.end \in 0 .. Capacity + 1
      /\ Count(link) \in 0 .. Capacity
      /\ Count(link) = IF link.end >= link.start THEN link.end - link.start
                       ELSE ((Capacity + 1) - link.start) + link.end
  BY LinkTypes
<1>2. Len(bytes) \in Nat /\ \A i \in 1 .. Len(bytes) : bytes[i] \in Pieces(n)
  BY ElementType
<1>3. Ring(link.memory, link.start, link.end)!Fits(Len(bytes))
  BY DEF Ring!Fits, Count
<1>4. more = [link EXCEPT !.memory = slots, !.end = last]
  <2>1. (Capacity + 1) - 1 = Capacity
    BY <1>1
  <2>2. Ring(link.memory, link.start, link.end)!DataWith(bytes) = slots
    BY <2>1 DEF Ring!DataWith, Ring!OffsetFromEnd, Ring!Slots, Ring!size
  <2>3. Ring(link.memory, link.start, link.end)!EndAfter(Len(bytes)) = last
    BY DEF Ring!EndAfter, Ring!size
  <2> HIDE DEF slots, last
  <2> QED
    BY <1>3, <2>2, <2>3 DEF Push
<1>5. DOMAIN link = {"status", "memory", "start", "end", "pendingMessageBytes", "parser"}
  BY DEF FitLinks, Links
<1> HIDE DEF slots, last, more
<1>6. more.memory = slots /\ more.end = last /\ more.start = link.start
  BY <1>4, <1>5
<1>7. more = [link EXCEPT !.memory = more.memory, !.end = more.end]
  BY <1>4, <1>6
<1>8. last \in 0 .. Capacity + 1
  BY <1>1, <1>2 DEF last
<1>9. Count(more) = Count(link) + Len(bytes)
  <2> DEFINE a == link.start
             b == link.end
             k == Count(link)
             n2 == Len(bytes)
             after == more.end
  <2>1. Count(more) = IF after >= a THEN after - a ELSE ((Capacity + 1) - a) + after
    BY <1>1, <1>6, <1>8 DEF Count, Ring!StoredByteCount, Ring!size
  <2>2. /\ a \in 0 .. Capacity + 1 /\ b \in 0 .. Capacity + 1 /\ k \in 0 .. Capacity
        /\ k = IF b >= a THEN b - a ELSE ((Capacity + 1) - a) + b
        /\ n2 \in Nat /\ n2 <= Capacity - k
    BY <1>1, <1>2
  <2>3. after = IF (Capacity + 1) - b < n2 THEN n2 - ((Capacity + 1) - b) ELSE b + n2
    BY <1>6 DEF last
  <2> HIDE DEF a, b, k, n2, after
  <2>4. Count(more) = k + n2
    BY <1>1, <2>1, <2>2, <2>3
  <2> QED
    BY <2>4 DEF k, n2
<1>10. \A i \in 0 .. Capacity : Place(more, i) = Place(link, i)
  BY <1>6 DEF Place, Ring!SlotAt, Ring!size
<1>11. \A slot \in 0 .. Capacity : Offset(slot) \in Nat
  BY <1>1
<1>12. slots \in [0 .. Capacity -> Pieces(n)]
  <2>1. \A slot \in 0 .. Capacity :
          (IF Offset(slot) < Len(bytes) THEN bytes[Offset(slot) + 1] ELSE link.memory[slot])
            \in Pieces(n)
    <3> SUFFICES ASSUME NEW slot \in 0 .. Capacity, Offset(slot) < Len(bytes)
                 PROVE  bytes[Offset(slot) + 1] \in Pieces(n)
      BY <1>1
    <3>1. Offset(slot) \in Nat
      BY <1>11
    <3> HIDE DEF Offset
    <3>2. Offset(slot) + 1 \in 1 .. Len(bytes)
      BY <1>2, <3>1
    <3> QED
      BY <1>2, <3>2
  <2> HIDE DEF Offset
  <2> QED
    BY <2>1 DEF slots
<1>13. \A i \in 0 .. Capacity :
         Offset(Place(link, i)) = IF i < Count(link) THEN ((Capacity + 1) - Count(link)) + i
                                  ELSE i - Count(link)
  <2> SUFFICES ASSUME NEW i \in 0 .. Capacity
               PROVE  Offset(Place(link, i)) = IF i < Count(link) THEN ((Capacity + 1) - Count(link)) + i
                                               ELSE i - Count(link)
    OBVIOUS
  <2> DEFINE a == link.start
             b == link.end
             k == Count(link)
             slot == Place(link, i)
  <2>1. slot = IF a + i >= Capacity + 1 THEN a + i - (Capacity + 1) ELSE a + i
    BY DEF Place, Ring!SlotAt, Ring!size
  <2>2. /\ a \in 0 .. Capacity + 1 /\ b \in 0 .. Capacity + 1 /\ k \in 0 .. Capacity
        /\ k = IF b >= a THEN b - a ELSE ((Capacity + 1) - a) + b
    BY <1>1
  <2>3. Offset(slot) = IF slot >= b THEN slot - b ELSE slot + (Capacity + 1) - b
    OBVIOUS
  <2> DEFINE all == Capacity + 1
             offset == Offset(slot)
  <2>4. all \in Nat \ {0} /\ i \in 0 .. all - 1
    BY <1>1
  <2> HIDE DEF a, b, k, slot, offset
  <2>5. /\ slot = IF a + i >= all THEN (a + i) - all ELSE a + i
        /\ a \in 0 .. all /\ b \in 0 .. all /\ k \in 0 .. all - 1
        /\ k = IF b >= a THEN b - a ELSE (all - a) + b
        /\ offset = IF slot >= b THEN slot - b ELSE (slot + all) - b
    <3>1. k \in 0 .. all - 1
      BY <1>1, <2>2
    <3>2. slot = IF a + i >= all THEN (a + i) - all ELSE a + i
      BY <1>1, <2>1, <2>2
    <3>3. slot \in Nat
      BY <2>2, <2>4, <3>2
    <3>4. offset = IF slot >= b THEN slot - b ELSE slot + (Capacity + 1) - b
      BY <2>3 DEF offset
    <3>5. offset = IF slot >= b THEN slot - b ELSE (slot + all) - b
      BY <1>1, <2>2, <3>3, <3>4
    <3> QED
      BY <2>2, <3>1, <3>2, <3>5
  <2> HIDE DEF all
  <2>6. offset = IF i < k THEN (all - k) + i ELSE i - k
    BY <2>4, <2>5
  <2> QED
    BY <2>6 DEF k, slot, all, offset
<1>14. ASSUME NEW i \in 0 .. Count(link) - 1
       PROVE  slots[Place(link, i)] = link.memory[Place(link, i)]
  <2>1. i \in 0 .. Capacity
    BY <1>1
  <2>2. Place(link, i) \in 0 .. Capacity
    BY <2>1, HeldPlaces
  <2>3. Offset(Place(link, i)) = ((Capacity + 1) - Count(link)) + i
    <3>1. i < Count(link)
      BY <1>1
    <3> QED
      BY <1>1, <1>13, <2>1, <3>1
  <2>4. ~ (Offset(Place(link, i)) < Len(bytes))
    <3> HIDE DEF Offset
    <3> QED
      BY <1>1, <1>2, <2>3
  <2> HIDE DEF Offset
  <2> QED
    BY <2>2, <2>4 DEF slots
<1>15. ASSUME NEW i \in 1 .. Len(bytes)
       PROVE  slots[Place(link, Count(link) + i - 1)] = bytes[i]
  <2>1. Count(link) + i - 1 \in Count(link) .. Capacity /\ Count(link) + i - 1 \in 0 .. Capacity
    <3> DEFINE k == Count(link)
               l == Len(bytes)
    <3>1. k \in Nat /\ l \in Nat /\ Capacity \in Nat /\ l <= Capacity - k /\ i \in 1 .. l
      BY <1>1, <1>2
    <3> HIDE DEF k, l
    <3>2. k + i - 1 \in k .. Capacity /\ k + i - 1 \in 0 .. Capacity
      BY <3>1
    <3> QED
      BY <3>2 DEF k
  <2>2. Place(link, Count(link) + i - 1) \in 0 .. Capacity
    BY <2>1, HeldPlaces
  <2>3. Offset(Place(link, Count(link) + i - 1)) = i - 1
    <3> DEFINE k == Count(link) + i - 1
    <3>1. k \in 0 .. Capacity /\ ~ (k < Count(link)) /\ k - Count(link) = i - 1
      BY <1>1, <1>2, <2>1
    <3> HIDE DEF k
    <3>2. Offset(Place(link, k)) = i - 1
      BY <1>1, <1>13, <3>1
    <3> QED
      BY <3>2 DEF k
  <2>4. i - 1 < Len(bytes) /\ (i - 1) + 1 = i
    BY <1>2
  <2> HIDE DEF Offset
  <2> QED
    BY <2>2, <2>3, <2>4 DEF slots
<1> QED
  BY <1>6, <1>7, <1>8, <1>9, <1>10, <1>12, <1>14, <1>15 DEF more

\* A segment goes behind what is stored, or is not there at all.
LEMMA PushKeeps ==
  ASSUME NEW n \in Nat, NEW link \in FitLinks(n), NEW bytes \in Seq(Pieces(n))
  PROVE  LET more == Push(link, bytes)
         IN /\ more \in FitLinks(n) /\ more.parser = link.parser /\ more.status = link.status
            /\ more.pendingMessageBytes = link.pendingMessageBytes
            /\ Held(more) = IF Len(bytes) <= Capacity - Count(link)
                            THEN Held(link) \o bytes ELSE Held(link)
<1> DEFINE more == Push(link, bytes)
<1>1. Count(link) \in 0 .. Capacity /\ Capacity \in Nat /\ Len(bytes) \in Nat
  BY LinkTypes
<1>2. CASE ~ (Len(bytes) <= Capacity - Count(link))
  <2>1. ~ Ring(link.memory, link.start, link.end)!Fits(Len(bytes))
    BY <1>1, <1>2 DEF Ring!Fits, Count
  <2>2. more = link
    BY <2>1 DEF Push
  <2> QED
    BY <1>2, <2>2
<1>3. CASE Len(bytes) <= Capacity - Count(link)
  <2>1. /\ more = [link EXCEPT !.memory = more.memory, !.end = more.end]
        /\ more.end \in 0 .. Capacity + 1
        /\ Count(more) = Count(link) + Len(bytes)
        /\ \A i \in 0 .. Capacity : Place(more, i) = Place(link, i)
        /\ more.memory \in [0 .. Capacity -> Pieces(n)]
        /\ \A i \in 0 .. Count(link) - 1 : more.memory[Place(link, i)] = link.memory[Place(link, i)]
        /\ \A i \in 1 .. Len(bytes) : more.memory[Place(link, Count(link) + i - 1)] = bytes[i]
    BY <1>3, PushPlaces
  <2> HIDE DEF more
  <2>2. link \in Links(n)
    BY DEF FitLinks
  <2>3. /\ more \in Links(n) /\ more.parser = link.parser /\ more.status = link.status
        /\ more.pendingMessageBytes = link.pendingMessageBytes
    BY <2>1, <2>2 DEF Links
  <2>4. more \in FitLinks(n)
    BY <1>1, <1>3, <2>1, <2>3 DEF FitLinks
  <2>5. Held(more) = Held(link) \o bytes
    <3>1. /\ Held(link) \in Seq(Pieces(n)) /\ Len(Held(link)) = Count(link)
          /\ \A i \in 1 .. Count(link) : Held(link)[i] = link.memory[Place(link, i - 1)]
      BY HeldElements
    <3>2. /\ Held(more) \in Seq(Pieces(n)) /\ Len(Held(more)) = Count(link) + Len(bytes)
          /\ \A i \in 1 .. Count(link) + Len(bytes) : Held(more)[i] = more.memory[Place(more, i - 1)]
      BY <2>1, <2>4, HeldElements
    <3>3. /\ Held(link) \o bytes \in Seq(Pieces(n))
          /\ Len(Held(link) \o bytes) = Count(link) + Len(bytes)
          /\ \A i \in 1 .. Count(link) : (Held(link) \o bytes)[i] = Held(link)[i]
          /\ \A i \in 1 .. Len(bytes) : (Held(link) \o bytes)[Count(link) + i] = bytes[i]
      <4> DEFINE u == Held(link)
      <4>1. u \in Seq(Pieces(n)) /\ Len(u) = Count(link)
        BY <3>1
      <4> HIDE DEF u
      <4>2. /\ u \o bytes \in Seq(Pieces(n)) /\ Len(u \o bytes) = Len(u) + Len(bytes)
            /\ \A i \in 1 .. Len(u) : (u \o bytes)[i] = u[i]
            /\ \A i \in 1 .. Len(bytes) : (u \o bytes)[Len(u) + i] = bytes[i]
        BY <4>1
      <4> QED
        BY <4>1, <4>2 DEF u
    <3>4. ASSUME NEW i \in 1 .. Count(link) + Len(bytes)
          PROVE  Held(more)[i] = (Held(link) \o bytes)[i]
      <4>1. i - 1 \in 0 .. Capacity
        BY <1>1, <1>3
      <4>2. Held(more)[i] = more.memory[Place(link, i - 1)]
        BY <2>1, <3>2, <4>1
      <4>3. CASE i <= Count(link)
        <5>1. i - 1 \in 0 .. Count(link) - 1 /\ i \in 1 .. Count(link)
          BY <1>1, <4>3
        <5> QED
          BY <2>1, <3>1, <3>3, <4>2, <5>1
      <4>4. CASE ~ (i <= Count(link))
        <5>1. /\ i - Count(link) \in 1 .. Len(bytes)
              /\ Count(link) + (i - Count(link)) - 1 = i - 1
              /\ Count(link) + (i - Count(link)) = i
          BY <1>1, <4>4
        <5>2. more.memory[Place(link, i - 1)] = bytes[i - Count(link)]
          BY <2>1, <5>1
        <5> QED
          BY <3>3, <4>2, <5>1, <5>2
      <4> QED
        BY <4>3, <4>4
    <3> QED
      BY <3>2, <3>3, <3>4, SeqEqual
  <2> QED
    BY <1>3, <2>3, <2>4, <2>5 DEF more
<1> QED
  BY <1>2, <1>3

\* Where a pull leaves the start, and where what is left of the data is from there.
LEMMA PullPlaces ==
  ASSUME NEW n \in Nat, NEW link \in FitLinks(n), NEW count \in 0 .. Count(link),
         NEW less, less.memory = link.memory, less.end = link.end,
         less.start = Ring(link.memory, link.start, link.end)!StartAfter(count)
  PROVE  /\ less.start \in 0 .. Capacity + 1 /\ Count(less) = Count(link) - count
         /\ \A i \in 0 .. Capacity :
              i + count <= Capacity => Place(less, i) = Place(link, i + count)
<1> DEFINE a == link.start
           b == link.end
           k == Count(link)
           all == Capacity + 1
           start == less.start
<1>1. /\ Capacity \in Nat \ {0} /\ a \in 0 .. Capacity + 1 /\ b \in 0 .. Capacity + 1
      /\ k \in 0 .. Capacity
      /\ k = IF b >= a THEN b - a ELSE ((Capacity + 1) - a) + b
  BY LinkTypes
<1>2. start = IF count > (Capacity + 1) - a THEN count - ((Capacity + 1) - a) ELSE a + count
  BY DEF Ring!StartAfter, Ring!size
<1>3. Count(less) = IF b >= start THEN b - start ELSE ((Capacity + 1) - start) + b
  BY DEF Count, Ring!StoredByteCount, Ring!size
<1>4. /\ all \in Nat \ {0} /\ all = Capacity + 1
      /\ a \in 0 .. all /\ b \in 0 .. all /\ k \in 0 .. all - 1
      /\ k = IF b >= a THEN b - a ELSE (all - a) + b
      /\ start = IF count > all - a THEN count - (all - a) ELSE a + count
      /\ Count(less) = IF b >= start THEN b - start ELSE (all - start) + b
      /\ count \in 0 .. k
  <2> HIDE DEF a, b, k, start
  <2>1. k \in 0 .. (Capacity + 1) - 1
    BY <1>1
  <2>2. count \in 0 .. k
    BY DEF k
  <2> QED
    BY <1>1, <1>2, <1>3, <2>1, <2>2
<1>5. ASSUME NEW i \in 0 .. Capacity, i + count <= Capacity
      PROVE  Place(less, i) = Place(link, i + count)
  <2> DEFINE one == Place(less, i)
             two == Place(link, i + count)
  <2>1. one = IF start + i >= Capacity + 1 THEN start + i - (Capacity + 1) ELSE start + i
    BY DEF Place, Ring!SlotAt, Ring!size
  <2>2. two = IF a + (i + count) >= Capacity + 1 THEN a + (i + count) - (Capacity + 1)
              ELSE a + (i + count)
    BY DEF Place, Ring!SlotAt, Ring!size
  <2> HIDE DEF a, b, k, start, one, two
  <2>3. start \in Nat
    BY <1>4 DEF all
  <2>4. one = IF start + i >= all THEN (start + i) - all ELSE start + i
    BY <1>1, <2>1, <2>3 DEF all
  <2>5. two = IF a + (i + count) >= all THEN (a + (i + count)) - all ELSE a + (i + count)
    BY <1>1, <1>4, <2>2 DEF all
  <2>6. i \in 0 .. all - 1 /\ i + count <= all - 1
    BY <1>1, <1>4, <1>5 DEF all
  <2> HIDE DEF all
  <2>7. one = two
    BY <1>4, <2>4, <2>5, <2>6
  <2> QED
    BY <2>7 DEF one, two
<1> HIDE DEF a, b, k, start, all
<1>6. start \in 0 .. Capacity + 1 /\ Count(less) = k - count
  BY <1>4
<1> QED
  BY <1>5, <1>6 DEF start, k

\* What is pulled is the first of what is stored, and the rest stays.
LEMMA PullKeeps ==
  ASSUME NEW n \in Nat, NEW link \in FitLinks(n), NEW count \in 0 .. Count(link)
  PROVE  /\ Ring(link.memory, link.start, link.end)!FirstBytes(count) = SubSeq(Held(link), 1, count)
         /\ Ring(link.memory, link.start, link.end)!StartAfter(count) \in 0 .. Capacity + 1
         /\ \A less \in Links(n) :
              (/\ less.memory = link.memory /\ less.end = link.end
               /\ less.start = Ring(link.memory, link.start, link.end)!StartAfter(count))
              => /\ less \in FitLinks(n) /\ Count(less) = Count(link) - count
                 /\ Held(less) = SubSeq(Held(link), count + 1, Len(Held(link)))
<1>1. Count(link) \in 0 .. Capacity /\ Capacity \in Nat /\ count \in Nat /\ count <= Count(link)
  BY LinkTypes
<1>2. /\ Held(link) \in Seq(Pieces(n)) /\ Len(Held(link)) = Count(link)
      /\ \A i \in 1 .. Count(link) : Held(link)[i] = link.memory[Place(link, i - 1)]
  BY HeldElements
<1>3. Ring(link.memory, link.start, link.end)!FirstBytes(count) = SubSeq(Held(link), 1, count)
  <2> DEFINE first == Ring(link.memory, link.start, link.end)!FirstBytes(count)
             part == SubSeq(Held(link), 1, count)
  <2>1. first = [i \in 1 .. count |-> link.memory[Place(link, i - 1)]]
    BY DEF Ring!FirstBytes, Place
  <2>2. \A i \in 1 .. count : i \in 1 .. Count(link) /\ first[i] = Held(link)[i]
    BY <1>1, <1>2, <2>1
  <2> HIDE DEF first
  <2>3. \A i \in 1 .. count : Held(link)[i] \in Pieces(n)
    BY <1>2, <2>2, ElementType
  <2>4. first \in Seq(Pieces(n)) /\ Len(first) = count
    <3>1. first \in [1 .. count -> Pieces(n)]
      BY <2>1, <2>2, <2>3
    <3> QED
      BY <1>1, <3>1, FunctionIsSeq
  <2>5. /\ part \in Seq(Pieces(n)) /\ Len(part) = count
        /\ \A i \in 1 .. count : part[i] = Held(link)[i]
    <3> DEFINE u == Held(link)
    <3>1. u \in Seq(Pieces(n)) /\ count \in 0 .. Len(u)
      BY <1>1, <1>2
    <3> HIDE DEF u
    <3>2. /\ SubSeq(u, 1, count) \in Seq(Pieces(n)) /\ Len(SubSeq(u, 1, count)) = count
          /\ \A i \in 1 .. count : SubSeq(u, 1, count)[i] = u[i]
      BY <3>1
    <3> QED
      BY <3>2 DEF u
  <2> HIDE DEF part
  <2>6. first = part
    BY <2>2, <2>4, <2>5, SeqEqual
  <2> QED
    BY <2>6 DEF first, part
<1>4. Ring(link.memory, link.start, link.end)!StartAfter(count) \in 0 .. Capacity + 1
  <2> DEFINE less == [link EXCEPT !.start = Ring(link.memory, link.start, link.end)!StartAfter(count)]
  <2>1. /\ less.memory = link.memory /\ less.end = link.end
        /\ less.start = Ring(link.memory, link.start, link.end)!StartAfter(count)
    BY DEF FitLinks, Links
  <2> HIDE DEF less
  <2> QED
    BY <2>1, PullPlaces
<1>5. ASSUME NEW less \in Links(n), less.memory = link.memory, less.end = link.end,
             less.start = Ring(link.memory, link.start, link.end)!StartAfter(count)
      PROVE  /\ less \in FitLinks(n) /\ Count(less) = Count(link) - count
             /\ Held(less) = SubSeq(Held(link), count + 1, Len(Held(link)))
  <2>1. /\ Count(less) = Count(link) - count
        /\ \A i \in 0 .. Capacity :
             i + count <= Capacity => Place(less, i) = Place(link, i + count)
    BY <1>5, PullPlaces
  <2>2. less \in FitLinks(n)
    BY <1>1, <2>1 DEF FitLinks
  <2>3. /\ Held(less) \in Seq(Pieces(n)) /\ Len(Held(less)) = Count(link) - count
        /\ \A i \in 1 .. Count(link) - count : Held(less)[i] = less.memory[Place(less, i - 1)]
    BY <2>1, <2>2, HeldElements
  <2> DEFINE part == SubSeq(Held(link), count + 1, Len(Held(link)))
  <2>4. /\ part \in Seq(Pieces(n)) /\ Len(part) = Count(link) - count
        /\ \A i \in 1 .. Count(link) - count : part[i] = Held(link)[i + count]
    <3> DEFINE u == Held(link)
    <3>1. u \in Seq(Pieces(n)) /\ count \in 0 .. Len(u) /\ Len(u) = Count(link)
      BY <1>1, <1>2
    <3> HIDE DEF u
    <3>2. /\ SubSeq(u, count + 1, Len(u)) \in Seq(Pieces(n))
          /\ Len(SubSeq(u, count + 1, Len(u))) = Len(u) - count
          /\ \A i \in 1 .. Len(u) - count : SubSeq(u, count + 1, Len(u))[i] = u[i + count]
      BY <3>1
    <3> QED
      BY <3>1, <3>2 DEF u
  <2>5. ASSUME NEW i \in 1 .. Count(link) - count
        PROVE  Held(less)[i] = part[i]
    <3>1. /\ i - 1 \in 0 .. Capacity /\ (i - 1) + count <= Capacity
          /\ (i - 1) + count = (i + count) - 1 /\ i + count \in 1 .. Count(link)
      BY <1>1
    <3>2. Held(less)[i] = link.memory[Place(link, (i - 1) + count)]
      BY <1>5, <2>1, <2>3, <3>1
    <3>3. Held(link)[i + count] = link.memory[Place(link, (i + count) - 1)]
      BY <1>2, <3>1
    <3> HIDE DEF part
    <3> QED
      BY <2>4, <3>1, <3>2, <3>3
  <2> HIDE DEF part
  <2>6. Held(less) = part
    BY <2>3, <2>4, <2>5, SeqEqual
  <2> QED
    BY <2>1, <2>2, <2>6 DEF part
<1> QED
  BY <1>3, <1>4, <1>5

-----------------------------------------------------------------------------
(* What a pull finds *)

\* The k-th unit that the search looks at, stored or not, is a blank line.
BlankAt(link, k) ==
  link.memory[(link.start + (k - 1)) % (Capacity + 1)].unit = [kind |-> "end"]

LEMMA SlotIsRemainder ==
  ASSUME NEW n \in Nat, NEW link \in FitLinks(n), NEW i \in 0 .. Capacity
  PROVE  Place(link, i) = (link.start + i) % (Capacity + 1)
<1> DEFINE a == link.start
           all == Capacity + 1
           place == Place(link, i)
<1>1. place = IF a + i >= Capacity + 1 THEN a + i - (Capacity + 1) ELSE a + i
  BY DEF Place, Ring!SlotAt, Ring!size
<1>2. a \in 0 .. Capacity + 1 /\ Capacity \in Nat
  BY LinkTypes
<1> HIDE DEF a, place
<1>3. /\ all \in Nat \ {0} /\ a \in 0 .. all /\ i \in 0 .. all - 1
      /\ place = IF a + i >= all THEN (a + i) - all ELSE a + i
  BY <1>1, <1>2
<1> HIDE DEF all
<1>4. CASE a + i >= all
  <2>1. a + i \in all .. 2 * all - 1
    BY <1>3, <1>4
  <2> QED
    BY <1>3, <1>4, <2>1, ModRound DEF all, a, place
<1>5. CASE ~ (a + i >= all)
  <2>1. a + i \in 0 .. all - 1
    BY <1>3, <1>5
  <2> QED
    BY <1>3, <1>5, <2>1, ModOfSmall DEF all, a, place
<1> QED
  BY <1>4, <1>5

\* The search takes the units in turn; what it looks for is a single one.
LEMMA MatchedSteps ==
  ASSUME NEW n \in Nat, NEW link \in FitLinks(n)
  PROVE  LET matched == Ring(Unstamped(link.memory), link.start, link.end)!MatchedCount
         IN /\ matched[0] = 0
            /\ \A k \in 1 .. BufSize :
                 matched[k] = IF matched[k - 1] = 0 /\ BlankAt(link, k) THEN 1 ELSE 0
<1> DEFINE units == Unstamped(link.memory)
           After(count, k) == Ring(units, link.start, link.end)!MatchedAfter(count, k)
           V == {0, 1}
           F == [x \in V \X (Nat \ {0}) |-> After(x[1], x[2])]
           Equation(g) == g = [k \in 0 .. BufSize |-> IF k = 0 THEN 0 ELSE After(g[k - 1], k)]
           matched == Ring(units, link.start, link.end)!MatchedCount
<1>1. BufSize \in Nat /\ 0 \in V
  BY SizesAssumption
<1>2. ASSUME NEW count \in V, NEW k \in Nat \ {0}
      PROVE  After(count, k) = IF count = 0 /\ BlankAt(link, k) THEN 1 ELSE 0
  <2> DEFINE slot == (link.start + (k - 1)) % (Capacity + 1)
  <2>1. slot \in 0 .. Capacity /\ DOMAIN link.memory = 0 .. Capacity
    <3>1. Capacity + 1 \in Nat \ {0} /\ link.start + (k - 1) \in Nat /\ (Capacity + 1) - 1 = Capacity
      BY LinkTypes
    <3> DEFINE all == Capacity + 1
               sum == link.start + (k - 1)
    <3> HIDE DEF all, sum
    <3>2. sum % all \in 0 .. all - 1
      BY <3>1, ModType DEF all, sum
    <3> QED
      BY <3>1, <3>2, LinkTypes DEF all, sum
  <2>2. units[slot] = link.memory[slot].unit
    <3> HIDE DEF slot
    <3> QED
      BY <2>1 DEF Unstamped
  <2>3. After(count, k) =
          IF count < Len(<<[kind |-> "end"]>>) /\ units[slot] = <<[kind |-> "end"]>>[count + 1]
          THEN count + 1 ELSE 0
    BY DEF Ring!MatchedAfter, Ring!size
  <2> HIDE DEF slot, units, After
  <2>4. CASE count = 0
    BY <2>2, <2>3, <2>4 DEF BlankAt, slot
  <2>5. CASE count = 1
    BY <2>3, <2>5
  <2> QED
    BY <2>4, <2>5
<1>3. F \in [V \X (Nat \ {0}) -> V]
  <2> HIDE DEF After
  <2> QED
    BY <1>2
<1>4. PICK g \in [0 .. BufSize -> V] :
        g[0] = 0 /\ \A k \in 1 .. BufSize : g[k] = F[<<g[k - 1], k>>]
  <2> HIDE DEF F, V
  <2>1. \E g \in [0 .. BufSize -> V] : Computes(g, 0, F, BufSize)
    BY <1>1, <1>3, RecursionExists, Zenon
  <2> QED
    BY <2>1 DEF Computes
<1>5. ASSUME NEW k \in 1 .. BufSize
      PROVE  g[k - 1] \in V /\ g[k] = After(g[k - 1], k)
  <2>1. k \in 1 .. BufSize /\ k - 1 \in 0 .. BufSize /\ k \in Nat \ {0}
    BY <1>1
  <2>2. g[k - 1] \in V
    BY <1>4, <2>1
  <2> HIDE DEF After
  <2>3. F[<<g[k - 1], k>>] = After(g[k - 1], k)
    BY <2>1, <2>2
  <2> QED
    BY <1>4, <2>1, <2>2, <2>3
<1> HIDE DEF F, After, V
<1>6. Equation(g)
  <2>1. \A k \in 0 .. BufSize : g[k] = IF k = 0 THEN 0 ELSE After(g[k - 1], k)
    BY <1>1, <1>4, <1>5
  <2> QED
    BY <1>4, <2>1
<1>7. Equation(matched)
  <2>1. matched = CHOOSE f : Equation(f)
    BY DEF Ring!MatchedCount, After
  <2> HIDE DEF Equation, matched
  <2> QED
    BY <1>6, <2>1
<1> HIDE DEF matched
<1>8. matched[0] = 0 /\ \A k \in 1 .. BufSize : matched[k] = After(matched[k - 1], k)
  BY <1>1, <1>7
<1> DEFINE T == {k \in Nat : k <= BufSize => matched[k] \in {0, 1}}
<1>9. \A k \in Nat : k \in T
  <2>1. 0 \in T
    BY <1>8
  <2>2. ASSUME NEW k \in T PROVE k + 1 \in T
    <3> SUFFICES ASSUME k + 1 <= BufSize PROVE matched[k + 1] \in {0, 1}
      OBVIOUS
    <3>1. k + 1 \in 1 .. BufSize /\ (k + 1) - 1 = k /\ k \in Nat /\ k <= BufSize
      BY <1>1
    <3>2. matched[k] \in V /\ matched[k + 1] = After(matched[k], k + 1)
      BY <1>8, <3>1 DEF V
    <3> QED
      BY <1>2, <3>1, <3>2
  <2>3. T \subseteq Nat
    OBVIOUS
  <2> HIDE DEF T
  <2> QED
    BY <2>1, <2>2, <2>3, SetInduction
<1>10. ASSUME NEW k \in 1 .. BufSize
       PROVE  matched[k] = IF matched[k - 1] = 0 /\ BlankAt(link, k) THEN 1 ELSE 0
  <2>1. k - 1 \in Nat /\ k - 1 <= BufSize /\ k \in Nat \ {0}
    BY <1>1
  <2>2. matched[k - 1] \in V
    BY <1>9, <2>1 DEF V
  <2> QED
    BY <1>2, <1>8, <2>1, <2>2
<1> QED
  BY <1>8, <1>10 DEF matched, units

\* It finds the first blank line, if that is not the last thing it would look at.
LEMMA DelimitedFound ==
  ASSUME NEW n \in Nat, NEW link \in FitLinks(n)
  PROVE  LET found == Ring(Unstamped(link.memory), link.start, link.end)!DelimitedCount
         IN \/ /\ found = 0
               /\ Count(link) = 0 \/ \A k \in 1 .. BufSize - 1 : ~ BlankAt(link, k)
            \/ /\ found \in 1 .. BufSize - 1 /\ Count(link) # 0 /\ BlankAt(link, found)
               /\ \A k \in 1 .. found - 1 : ~ BlankAt(link, k)
<1> DEFINE units == Unstamped(link.memory)
           matched == Ring(units, link.start, link.end)!MatchedCount
           found == Ring(units, link.start, link.end)!DelimitedCount
           ends == {k \in 1 .. BufSize - 1 : matched[k] = 1}
<1>1. BufSize \in Nat \ {0} /\ Count(link) \in Nat
  BY SizesAssumption, LinkTypes
<1>2. /\ matched[0] = 0
      /\ \A k \in 1 .. BufSize :
           matched[k] = IF matched[k - 1] = 0 /\ BlankAt(link, k) THEN 1 ELSE 0
  BY MatchedSteps
<1>3. found = IF Count(link) < 1 \/ ends = {} THEN 0 ELSE CHOOSE k \in ends : \A j \in ends : k <= j
  <2>1. Len(<<[kind |-> "end"]>>) = 1
    OBVIOUS
  <2>2. Ring(units, link.start, link.end)!StoredByteCount = Count(link)
    BY DEF Count, Ring!StoredByteCount, Ring!size
  <2> HIDE DEF units
  <2> QED
    BY <2>1, <2>2 DEF Ring!DelimitedCount
<1> HIDE DEF matched, found, units
<1>4. ASSUME NEW k \in 1 .. BufSize - 1, \A j \in 1 .. k - 1 : ~ BlankAt(link, j)
      PROVE  matched[k] = IF BlankAt(link, k) THEN 1 ELSE 0
  <2>1. k \in 1 .. BufSize
    BY <1>1
  <2>2. CASE k = 1
    BY <1>2, <2>1, <2>2
  <2>3. CASE k # 1
    <3>1. k - 1 \in 1 .. k - 1 /\ k - 1 \in 1 .. BufSize
      BY <1>1, <2>3
    <3>2. matched[k - 1] = 0
      BY <1>2, <1>4, <3>1
    <3> QED
      BY <1>2, <2>1, <3>2
  <2> QED
    BY <2>2, <2>3
<1>5. ASSUME NEW k \in ends PROVE BlankAt(link, k)
  <2>1. k \in 1 .. BufSize
    BY <1>1
  <2> QED
    BY <1>2, <2>1
<1>6. ASSUME NEW k \in 1 .. BufSize - 1, BlankAt(link, k)
      PROVE  \E j \in ends : j <= k
  <2> DEFINE blanks == {j \in 1 .. BufSize - 1 : BlankAt(link, j)}
  <2>1. blanks \subseteq Nat /\ k \in blanks
    BY <1>1, <1>6
  <2>2. PICK j \in blanks : \A i \in blanks : j <= i
    <3> HIDE DEF blanks
    <3> QED
      BY <2>1, LeastExists
  <2>3. j \in 1 .. BufSize - 1 /\ BlankAt(link, j) /\ j <= k
    BY <2>1, <2>2
  <2>4. \A i \in 1 .. j - 1 : ~ BlankAt(link, i)
    <3> SUFFICES ASSUME NEW i \in 1 .. j - 1, BlankAt(link, i) PROVE FALSE
      OBVIOUS
    <3>1. i \in blanks /\ ~ (j <= i)
      BY <1>1, <2>3
    <3> QED
      BY <2>2, <3>1
  <2>5. j \in ends
    BY <1>4, <2>3, <2>4
  <2> QED
    BY <2>3, <2>5
<1>7. CASE Count(link) = 0 \/ ends = {}
  <2>1. found = 0
    BY <1>1, <1>3, <1>7
  <2>2. ends = {} => \A k \in 1 .. BufSize - 1 : ~ BlankAt(link, k)
    BY <1>6
  <2> QED
    BY <1>7, <2>1, <2>2 DEF found, units
<1>8. CASE Count(link) # 0 /\ ends # {}
  <2>1. found = CHOOSE k \in ends : \A j \in ends : k <= j
    BY <1>1, <1>3, <1>8
  <2>2. ends \subseteq Nat
    BY <1>1
  <2>3. found \in ends /\ \A j \in ends : found <= j
    <3> HIDE DEF ends
    <3>1. \E k \in ends : \A j \in ends : k <= j
      BY <1>8, <2>2, LeastExists
    <3> QED
      BY <2>1, <3>1
  <2>4. \A k \in 1 .. found - 1 : ~ BlankAt(link, k)
    <3> SUFFICES ASSUME NEW k \in 1 .. found - 1, BlankAt(link, k) PROVE FALSE
      OBVIOUS
    <3>1. found \in 1 .. BufSize - 1
      BY <2>3
    <3>2. k \in 1 .. BufSize - 1 /\ k < found
      BY <1>1, <3>1
    <3>3. PICK j \in ends : j <= k
      BY <1>6, <3>2
    <3>4. found <= j /\ j \in Nat
      BY <1>1, <2>3
    <3> QED
      BY <1>1, <3>1, <3>2, <3>3, <3>4
  <2>5. found \in 1 .. BufSize - 1 /\ BlankAt(link, found)
    BY <1>5, <2>3
  <2> QED
    BY <1>8, <2>4, <2>5 DEF found, units
<1> QED
  BY <1>7, <1>8

\* The i-th unit stored is a blank line.
EndAt(held, i) == held[i].unit.kind = "end"

LEMMA StoredBlanks ==
  ASSUME NEW n \in Nat, NEW link \in FitLinks(n), NEW i \in 1 .. Count(link)
  PROVE  BlankAt(link, i) <=> EndAt(Held(link), i)
<1>1. Count(link) \in 0 .. Capacity /\ Capacity \in Nat
  BY LinkTypes
<1>2. i - 1 \in 0 .. Capacity
  BY <1>1
<1>3. Place(link, i - 1) = (link.start + (i - 1)) % (Capacity + 1)
  BY <1>2, SlotIsRemainder
<1>4. Held(link)[i] = link.memory[Place(link, i - 1)]
  BY HeldElements
<1>5. link.memory[Place(link, i - 1)] \in Pieces(n)
  BY <1>2, HeldPlaces, LinkTypes
<1> DEFINE unit == link.memory[Place(link, i - 1)].unit
<1>6. unit \in Unit
  BY <1>5 DEF Pieces
<1>7. unit = [kind |-> "end"] <=> unit.kind = "end"
  <2> HIDE DEF unit
  <2> QED
    BY <1>6 DEF Unit
<1> QED
  BY <1>3, <1>4, <1>7 DEF BlankAt, EndAt

\* How much is pulled: what is pending, or all up to the first blank line; and of what
\* is too long for the search, nothing.
LEMMA PullCounts ==
  ASSUME NEW n \in Nat, NEW link \in FitLinks(n)
  PROVE  /\ PullCount(link) \in 0 .. Count(link)
         /\ link.pendingMessageBytes > 0 =>
              PullCount(link) = IF link.pendingMessageBytes < Count(link)
                                THEN link.pendingMessageBytes ELSE Count(link)
         /\ link.pendingMessageBytes = 0 =>
              /\ \A i \in 1 .. Count(link) :
                   (/\ i < BufSize /\ EndAt(Held(link), i)
                    /\ \A j \in 1 .. i - 1 : ~ EndAt(Held(link), j)) => PullCount(link) = i
              /\ (/\ BufSize - 1 <= Count(link)
                  /\ \A k \in 1 .. BufSize - 1 : ~ EndAt(Held(link), k)) => PullCount(link) = 0
<1> DEFINE found == Ring(Unstamped(link.memory), link.start, link.end)!DelimitedCount
           pending == link.pendingMessageBytes
           AtMost(k) == IF k < Count(link) THEN k ELSE Count(link)
<1>1. BufSize \in Nat \ {0} /\ Count(link) \in Nat /\ pending \in Nat
  BY SizesAssumption, LinkTypes
<1>2. PullCount(link) = IF pending > 0 THEN AtMost(pending) ELSE AtMost(found)
  BY DEF PullCount, Ring!CountAtMost, Count
<1>3. \/ /\ found = 0
         /\ Count(link) = 0 \/ \A k \in 1 .. BufSize - 1 : ~ BlankAt(link, k)
      \/ /\ found \in 1 .. BufSize - 1 /\ Count(link) # 0 /\ BlankAt(link, found)
         /\ \A k \in 1 .. found - 1 : ~ BlankAt(link, k)
  BY DelimitedFound
<1>4. \A i \in 1 .. Count(link) : BlankAt(link, i) <=> EndAt(Held(link), i)
  BY StoredBlanks
<1> HIDE DEF found, pending
<1>5. found \in Nat
  BY <1>1, <1>3
<1>6. ASSUME pending = 0, NEW i \in 1 .. Count(link), i < BufSize, EndAt(Held(link), i),
             \A j \in 1 .. i - 1 : ~ EndAt(Held(link), j)
      PROVE  PullCount(link) = i
  <2>1. i \in 1 .. BufSize - 1 /\ BlankAt(link, i) /\ Count(link) # 0
    BY <1>1, <1>4, <1>6
  <2>2. found \in 1 .. BufSize - 1 /\ BlankAt(link, found)
        /\ \A k \in 1 .. found - 1 : ~ BlankAt(link, k)
    BY <1>1, <1>3, <2>1
  <2>3. ~ (i < found)
    <3>1. i < found => i \in 1 .. found - 1
      BY <1>1, <2>2
    <3> QED
      BY <2>1, <2>2, <3>1
  <2>4. ~ (found < i)
    <3>1. found < i => found \in 1 .. i - 1 /\ found \in 1 .. Count(link)
      BY <1>1, <2>2
    <3> QED
      BY <1>4, <1>6, <2>2, <3>1
  <2>5. found = i
    BY <1>1, <1>5, <2>3, <2>4
  <2> QED
    BY <1>1, <1>2, <1>6, <2>5
<1>7. ASSUME pending = 0, BufSize - 1 <= Count(link),
             \A k \in 1 .. BufSize - 1 : ~ EndAt(Held(link), k)
      PROVE  PullCount(link) = 0
  <2>1. \A k \in 1 .. BufSize - 1 : k \in 1 .. Count(link)
    BY <1>1, <1>7
  <2>2. \A k \in 1 .. BufSize - 1 : ~ BlankAt(link, k)
    BY <1>4, <1>7, <2>1
  <2>3. found = 0
    BY <1>3, <2>2
  <2> QED
    BY <1>1, <1>2, <1>7, <2>3
<1>8. PullCount(link) \in 0 .. Count(link)
  BY <1>1, <1>2, <1>5
<1>9. pending > 0 => PullCount(link) = IF pending < Count(link) THEN pending ELSE Count(link)
  BY <1>2
<1> QED
  BY <1>6, <1>7, <1>8, <1>9 DEF pending

-----------------------------------------------------------------------------
(* The rounds of the read loop *)

\* Of the message that is awaited something is still to come.
Counting(p) ==
  IF p.processingMessage THEN p.receivedContentLength < p.sipMessage.request.contentLength
  ELSE p.receivedContentLength = 0

SoundLinks(n) == {link \in FitLinks(n) : /\ Counting(link.parser)
                                         /\ link.pendingMessageBytes = PendingBytes(link.parser)}

\* The states of the loop between two rounds.
LoopStates(n) ==
  [link : SoundLinks(n), running : BOOLEAN, delivered : Seq(Message(0 .. n))]

LEMMA LoopStateTypes ==
  ASSUME NEW n \in Nat, NEW s \in LoopStates(n)
  PROVE  /\ s.link \in SoundLinks(n) /\ s.link \in FitLinks(n) /\ s.link \in Links(n)
         /\ s.running \in BOOLEAN /\ s.delivered \in Seq(Message(0 .. n))
         /\ s.link.parser \in Parsers(n) /\ Counting(s.link.parser)
         /\ s.link.pendingMessageBytes = PendingBytes(s.link.parser)
BY DEF LoopStates, SoundLinks, FitLinks, Links

\* What loadMessageData is given in a round, and what it makes of it.
Given(s) == [parser |-> s.link.parser, running |-> s.running, delivered |-> s.delivered]
Chunked(s) == SubSeq(Held(s.link), 1, PullCount(s.link))
Loaded(s, remains) ==
  LoadMessageData(Given(s), Chunked(s), TextOf(Chunked(s), BufSize, remains))

LEMMA GivenTypes ==
  ASSUME NEW n \in Nat, NEW s \in LoopStates(n), NEW remains \in Leftovers
  PROVE  /\ Given(s) \in LoadStates(n) /\ Given(s).parser = s.link.parser
         /\ Given(s).running = s.running /\ Given(s).delivered = s.delivered
         /\ Chunked(s) \in Seq(Pieces(n)) /\ Len(Chunked(s)) = PullCount(s.link)
         /\ \A i \in 1 .. PullCount(s.link) : Chunked(s)[i] = Held(s.link)[i]
         /\ TextOf(Chunked(s), BufSize, remains) \in Seq(Pieces(n))
<1>1. Given(s) \in LoadStates(n)
  BY LoopStateTypes DEF LoadStates, Given
<1> DEFINE held == Held(s.link)
           count == PullCount(s.link)
<1>2. held \in Seq(Pieces(n)) /\ count \in 0 .. Len(held)
  BY LoopStateTypes, HeldElements, PullCounts
<1> HIDE DEF held, count
<1>3. /\ SubSeq(held, 1, count) \in Seq(Pieces(n)) /\ Len(SubSeq(held, 1, count)) = count
      /\ \A i \in 1 .. count : SubSeq(held, 1, count)[i] = held[i]
  BY <1>2, FrontElements
<1>4. /\ Chunked(s) \in Seq(Pieces(n)) /\ Len(Chunked(s)) = PullCount(s.link)
      /\ \A i \in 1 .. PullCount(s.link) : Chunked(s)[i] = Held(s.link)[i]
  BY <1>3 DEF Chunked, held, count
<1> QED
  BY <1>1, <1>4, TextBegins DEF Given

LEMMA LoadedTypes ==
  ASSUME NEW n \in Nat, NEW s \in LoadStates(n), Counting(s.parser),
         NEW chunk \in Seq(Pieces(n)), NEW text \in Seq(Pieces(n))
  PROVE  LET t == LoadMessageData(s, chunk, text)
         IN /\ t.parser \in Parsers(n) /\ t.running \in BOOLEAN
            /\ t.delivered \in Seq(Message(0 .. n))
            /\ Counting(t.parser) /\ PendingBytes(t.parser) \in Nat
<1> DEFINE t == LoadMessageData(s, chunk, text)
<1>1. /\ s.parser \in Parsers(n) /\ s.running \in BOOLEAN /\ s.delivered \in Seq(Message(0 .. n))
      /\ s.parser.processingMessage \in BOOLEAN
  BY LoadStateTypes
<1>2. \/ /\ t.parser = s.parser /\ t.running \in BOOLEAN /\ t.delivered = s.delivered
      \/ s.running /\ ~ s.parser.processingMessage /\ t = LoadHeader(s, chunk)
      \/ s.running /\ s.parser.processingMessage /\ t = LoadBody(s, chunk, text)
  BY <1>1 DEF LoadMessageData, LoadStates
<1> HIDE DEF t
<1>3. /\ t.parser \in Parsers(n) /\ t.running \in BOOLEAN
      /\ t.delivered \in Seq(Message(0 .. n)) /\ Counting(t.parser)
  <2>1. CASE t.parser = s.parser /\ t.running \in BOOLEAN /\ t.delivered = s.delivered
    BY <1>1, <2>1
  <2>2. CASE ~ s.parser.processingMessage /\ t = LoadHeader(s, chunk)
    <3> DEFINE m == BuildMessage(s.parser, chunk)
    <3>1. /\ t.parser \in Parsers(n) /\ t.running = s.running
          /\ t.delivered \in Seq(Message(0 .. n))
          /\ m = Null =>
               /\ ~ t.parser.processingMessage
               /\ t.parser.receivedContentLength = s.parser.receivedContentLength
          /\ (m # Null /\ m.request.contentLength = 0) =>
               /\ ~ t.parser.processingMessage
               /\ t.parser.receivedContentLength = 0
          /\ (m # Null /\ m.request.contentLength # 0) =>
               /\ t.parser.processingMessage
               /\ t.parser.receivedContentLength = s.parser.receivedContentLength
               /\ t.parser.sipMessage = m
      BY <2>2, HeaderLoaded
    <3>2. m # Null => m.request.contentLength \in Nat
      BY <1>1, BuiltMessages, MessageTypes
    <3>3. s.parser.receivedContentLength = 0
      BY <2>2 DEF Counting
    <3> HIDE DEF m
    <3> QED
      BY <1>1, <3>1, <3>2, <3>3 DEF Counting
  <2>3. CASE s.parser.processingMessage /\ t = LoadBody(s, chunk, text)
    <3> DEFINE m == s.parser.sipMessage
               received == s.parser.receivedContentLength + Len(chunk)
    <3>1. /\ t.parser \in Parsers(n) /\ t.running = s.running
          /\ t.delivered \in Seq(Message(0 .. n)) /\ t.parser.sipMessage.request = m.request
          /\ received >= m.request.contentLength =>
               ~ t.parser.processingMessage /\ t.parser.receivedContentLength = 0
          /\ ~ (received >= m.request.contentLength) =>
               t.parser.processingMessage /\ t.parser.receivedContentLength = received
      BY <2>3, BodyLoaded
    <3>2. m.request.contentLength \in Nat /\ received \in Nat
      BY <1>1, <2>3, LoadStateTypes, MessageTypes
    <3> HIDE DEF m, received
    <3> QED
      BY <1>1, <3>1, <3>2 DEF Counting
  <2> QED
    BY <1>2, <2>1, <2>2, <2>3
<1>4. PendingBytes(t.parser) \in Nat
  <2> DEFINE p == t.parser
  <2>1. p \in Parsers(n) /\ Counting(p)
    BY <1>3
  <2> HIDE DEF p
  <2>2. /\ p.receivedContentLength \in Nat /\ p.processingMessage \in BOOLEAN
        /\ p.processingMessage => p.sipMessage.request.contentLength \in Nat
    <3>1. p.processingMessage => p.sipMessage \in Message(0 .. n)
      BY <2>1 DEF Parsers
    <3> QED
      BY <2>1, <3>1, MessageTypes DEF Parsers
  <2>3. PendingBytes(p) \in Nat
    BY <2>1, <2>2 DEF Counting, PendingBytes
  <2> QED
    BY <2>3 DEF p
<1> QED
  BY <1>3, <1>4 DEF t

LEMMA RoundForm ==
  ASSUME NEW n \in Nat, NEW s \in LoopStates(n), NEW remains \in Leftovers
  PROVE  LET t == PulledOnce(s, remains)
             count == PullCount(s.link)
         IN /\ t \in LoopStates(n) /\ count \in 0 .. Count(s.link) /\ Count(s.link) \in Nat
            /\ (~ s.running \/ count = 0) => t = s
            /\ (s.running /\ count # 0) =>
                 /\ t.running = Loaded(s, remains).running
                 /\ t.delivered = Loaded(s, remains).delivered
                 /\ t.link.parser = Loaded(s, remains).parser
                 /\ t.link.status = s.link.status
                 /\ Count(t.link) = Count(s.link) - count
                 /\ Held(t.link) = SubSeq(Held(s.link), count + 1, Len(Held(s.link)))
<1> DEFINE t == PulledOnce(s, remains)
           count == PullCount(s.link)
           loaded == Loaded(s, remains)
           start == Ring(s.link.memory, s.link.start, s.link.end)!StartAfter(count)
           link == [s.link EXCEPT !.start = start, !.parser = loaded.parser,
                                  !.pendingMessageBytes = PendingBytes(loaded.parser)]
<1>1. /\ s.link \in FitLinks(n) /\ s.link \in Links(n) /\ s.running \in BOOLEAN
      /\ s.link.parser \in Parsers(n) /\ Counting(s.link.parser)
  BY LoopStateTypes
<1>2. count \in 0 .. Count(s.link) /\ Count(s.link) \in Nat
  BY <1>1, PullCounts, LinkTypes
<1>3. CASE ~ s.running \/ count = 0
  <2>1. t = s
    BY <1>3 DEF PulledOnce
  <2> QED
    BY <1>2, <1>3, <2>1
<1>4. CASE s.running /\ count # 0
  <2>1. /\ loaded.parser \in Parsers(n) /\ loaded.running \in BOOLEAN
        /\ loaded.delivered \in Seq(Message(0 .. n))
        /\ Counting(loaded.parser) /\ PendingBytes(loaded.parser) \in Nat
    <3>1. /\ Given(s) \in LoadStates(n) /\ Counting(Given(s).parser)
          /\ Chunked(s) \in Seq(Pieces(n)) /\ TextOf(Chunked(s), BufSize, remains) \in Seq(Pieces(n))
      BY <1>1, GivenTypes
    <3> QED
      BY <3>1, LoadedTypes DEF Loaded
  <2>2. /\ Ring(s.link.memory, s.link.start, s.link.end)!FirstBytes(count) = Chunked(s)
        /\ start \in 0 .. Capacity + 1
        /\ \A less \in Links(n) :
             (less.memory = s.link.memory /\ less.end = s.link.end /\ less.start = start)
             => /\ less \in FitLinks(n) /\ Count(less) = Count(s.link) - count
                /\ Held(less) = SubSeq(Held(s.link), count + 1, Len(Held(s.link)))
    BY <1>1, <1>2, PullKeeps DEF Chunked
  <2>3. t = [link |-> link, running |-> loaded.running, delivered |-> loaded.delivered]
    BY <1>4, <2>2 DEF PulledOnce, Loaded, Given
  <2> HIDE DEF t, start, loaded, count
  <2>4. /\ link \in Links(n) /\ link.memory = s.link.memory /\ link.end = s.link.end
        /\ link.start = start /\ link.parser = loaded.parser /\ link.status = s.link.status
        /\ link.pendingMessageBytes = PendingBytes(loaded.parser)
    BY <1>1, <2>1, <2>2 DEF Links
  <2> HIDE DEF link
  <2>5. /\ link \in FitLinks(n) /\ Count(link) = Count(s.link) - count
        /\ Held(link) = SubSeq(Held(s.link), count + 1, Len(Held(s.link)))
    BY <2>2, <2>4
  <2>6. t \in LoopStates(n)
    BY <2>1, <2>3, <2>4, <2>5 DEF LoopStates, SoundLinks
  <2> QED
    BY <1>2, <1>4, <2>3, <2>4, <2>5, <2>6 DEF t, count, loaded
<1> QED
  BY <1>3, <1>4

\* The loop ends when a pull returns nothing, in a set of states that its rounds do not
\* leave.
LEMMA DrainedEnds ==
  ASSUME NEW n \in Nat, NEW V, V \subseteq LoopStates(n), NEW first \in V,
         NEW remains \in Leftovers, \A s \in V : PulledOnce(s, remains) \in V
  PROVE  LET t == Drained(first, remains)
         IN t \in V /\ (t.running => PullCount(t.link) = 0)
<1> DEFINE F == [x \in V \X (Nat \ {0}) |-> PulledOnce(x[1], remains)]
           Equation(g) == g = [k \in 0 .. Capacity |->
                                 IF k = 0 THEN first ELSE PulledOnce(g[k - 1], remains)]
           after == CHOOSE g : Equation(g)
<1>1. Capacity \in Nat
  BY SizesAssumption
<1>2. F \in [V \X (Nat \ {0}) -> V]
  OBVIOUS
<1>3. PICK g \in [0 .. Capacity -> V] : Computes(g, first, F, Capacity)
  <2> HIDE DEF F
  <2> QED
    BY <1>1, <1>2, RecursionExists
<1>4. g[0] = first /\ \A k \in 1 .. Capacity : g[k] = F[<<g[k - 1], k>>]
  BY <1>3 DEF Computes
<1>5. ASSUME NEW k \in 0 .. Capacity
      PROVE  g[k] = IF k = 0 THEN first ELSE PulledOnce(g[k - 1], remains)
  <2>1. CASE k = 0
    BY <1>4, <2>1
  <2>2. CASE k # 0
    <3>1. k \in 1 .. Capacity /\ k - 1 \in 0 .. Capacity /\ k \in Nat \ {0}
      BY <1>1, <2>2
    <3>2. g[k - 1] \in V
      BY <1>3, <3>1
    <3>3. F[<<g[k - 1], k>>] = PulledOnce(g[k - 1], remains)
      BY <3>1, <3>2
    <3> QED
      BY <1>4, <2>2, <3>1, <3>3
  <2> QED
    BY <2>1, <2>2
<1> HIDE DEF F
<1>6. Equation(g)
  BY <1>3, <1>5
<1>7. Equation(after)
  <2> HIDE DEF Equation
  <2> QED
    BY <1>6
<1>8. Drained(first, remains) = after[Capacity]
  BY DEF Drained
<1> HIDE DEF after
<1>9. \A k \in 0 .. Capacity :
        after[k] = IF k = 0 THEN first ELSE PulledOnce(after[k - 1], remains)
  BY <1>7
<1> HIDE DEF Equation
<1> DEFINE Ended(s) == ~ s.running \/ PullCount(s.link) = 0
           Far(k) == /\ after[k] \in V
                     /\ Ended(after[k]) \/ Count(after[k].link) + k <= Capacity
           T == {k \in Nat : k <= Capacity => Far(k)}
<1>10. Far(0)
  <2>1. after[0] = first /\ first \in LoopStates(n)
    BY <1>1, <1>9
  <2>2. Count(first.link) \in 0 .. Capacity
    BY <2>1, LoopStateTypes, LinkTypes
  <2> QED
    BY <1>1, <2>1, <2>2
<1>11. ASSUME NEW k \in Nat, k + 1 <= Capacity, Far(k) PROVE Far(k + 1)
  <2> DEFINE now == after[k]
             next == after[k + 1]
  <2>1. next = PulledOnce(now, remains)
    <3>1. k + 1 \in 0 .. Capacity /\ k + 1 # 0 /\ (k + 1) - 1 = k
      BY <1>1, <1>11
    <3> QED
      BY <1>9, <3>1
  <2>2. now \in V /\ now \in LoopStates(n) /\ (Ended(now) \/ Count(now.link) + k <= Capacity)
    BY <1>11
  <2> HIDE DEF now, next
  <2>3. next \in V
    BY <2>1, <2>2
  <2>4. CASE Ended(now)
    <3>1. next = now
      BY <2>1, <2>2, <2>4, RoundForm
    <3> QED
      BY <2>3, <2>4, <3>1 DEF next
  <2>5. CASE ~ Ended(now)
    <3>1. /\ PullCount(now.link) \in 0 .. Count(now.link) /\ Count(now.link) \in Nat
          /\ Count(next.link) = Count(now.link) - PullCount(now.link)
      BY <2>1, <2>2, <2>5, RoundForm
    <3>2. Count(next.link) + (k + 1) <= Capacity
      BY <1>1, <2>2, <2>5, <3>1
    <3> QED
      BY <2>3, <3>2 DEF next
  <2> QED
    BY <2>4, <2>5
<1>12. \A k \in Nat : k \in T
  <2>1. 0 \in T
    BY <1>10
  <2>2. ASSUME NEW k \in T PROVE k + 1 \in T
    <3>1. k \in Nat /\ (k + 1 <= Capacity => k <= Capacity)
      BY <1>1
    <3>2. k <= Capacity => Far(k)
      OBVIOUS
    <3>3. k + 1 <= Capacity => Far(k + 1)
      BY <1>11, <3>1, <3>2
    <3> HIDE DEF Far
    <3> QED
      BY <3>1, <3>3
  <2>3. T \subseteq Nat
    OBVIOUS
  <2> HIDE DEF T
  <2> QED
    BY <2>1, <2>2, <2>3, SetInduction
<1>13. Far(Capacity)
  <2>1. Capacity \in T
    BY <1>1, <1>12
  <2> HIDE DEF Far
  <2> QED
    BY <1>1, <2>1
<1> DEFINE last == after[Capacity]
<1>14. last \in V /\ (Ended(last) \/ Count(last.link) + Capacity <= Capacity)
  BY <1>13
<1> HIDE DEF last
<1>15. last.running => PullCount(last.link) = 0
  <2>1. PullCount(last.link) \in 0 .. Count(last.link) /\ Count(last.link) \in Nat
    BY <1>14, RoundForm
  <2> QED
    BY <1>1, <1>14, <2>1
<1> QED
  BY <1>8, <1>14, <1>15 DEF last

-----------------------------------------------------------------------------
(* What is still to be looked at: the data that is stored, and what follows it *)

LEMMA TailOfConcat ==
  ASSUME NEW S, NEW u \in Seq(S), NEW v \in Seq(S), NEW k \in 0 .. Len(u)
  PROVE  SubSeq(u, k + 1, Len(u)) \o v = SubSeq(u \o v, k + 1, Len(u \o v))
<1> DEFINE tail == SubSeq(u, k + 1, Len(u))
           all == u \o v
           left == SubSeq(all, k + 1, Len(all))
<1>1. /\ tail \in Seq(S) /\ Len(tail) = Len(u) - k /\ Len(u) \in Nat /\ Len(v) \in Nat
      /\ \A i \in 1 .. Len(u) - k : tail[i] = u[k + i]
  BY TailElements
<1>2. /\ all \in Seq(S) /\ Len(all) = Len(u) + Len(v)
      /\ \A i \in 1 .. Len(u) : all[i] = u[i]
      /\ \A i \in 1 .. Len(v) : all[Len(u) + i] = v[i]
  BY ConcatElements
<1> HIDE DEF tail, all
<1>3. k \in 0 .. Len(all)
  BY <1>1, <1>2
<1>4. /\ left \in Seq(S) /\ Len(left) = Len(all) - k
      /\ \A i \in 1 .. Len(all) - k : left[i] = all[k + i]
  BY <1>2, <1>3, TailElements
<1>5. /\ tail \o v \in Seq(S) /\ Len(tail \o v) = Len(tail) + Len(v)
      /\ \A i \in 1 .. Len(tail) : (tail \o v)[i] = tail[i]
      /\ \A i \in 1 .. Len(v) : (tail \o v)[Len(tail) + i] = v[i]
  <2>1. tail \in Seq(S)
    BY <1>1
  <2> QED
    BY <2>1
<1> DEFINE both == tail \o v
<1> HIDE DEF both, left
<1>6. ASSUME NEW i \in 1 .. Len(all) - k
      PROVE  both[i] = left[i]
  <2>1. CASE i <= Len(tail)
    <3>1. i \in 1 .. Len(tail) /\ i \in 1 .. Len(u) - k /\ k + i \in 1 .. Len(u)
      BY <1>1, <2>1
    <3> QED
      BY <1>1, <1>2, <1>4, <1>5, <3>1 DEF both
  <2>2. CASE ~ (i <= Len(tail))
    <3>1. /\ i - Len(tail) \in 1 .. Len(v) /\ Len(tail) + (i - Len(tail)) = i
          /\ Len(u) + (i - Len(tail)) = k + i
      BY <1>1, <1>2, <2>2
    <3>2. both[i] = v[i - Len(tail)] /\ all[k + i] = v[i - Len(tail)]
      BY <1>2, <1>5, <3>1 DEF both
    <3> QED
      BY <1>4, <3>2
  <2> QED
    BY <2>1, <2>2
<1>7. both = left
  <2>1. both \in Seq(S) /\ Len(both) = Len(all) - k
    BY <1>1, <1>2, <1>5 DEF both
  <2> QED
    BY <1>4, <1>6, <2>1, SeqEqual
<1> QED
  BY <1>7 DEF both, left, tail, all

LEMMA ConcatInParts ==
  ASSUME NEW S, NEW u \in Seq(S), NEW v \in Seq(S), NEW k \in 0 .. Len(v)
  PROVE  (u \o SubSeq(v, 1, k)) \o SubSeq(v, k + 1, Len(v)) = u \o v
<1> DEFINE a == SubSeq(v, 1, k)
           b == SubSeq(v, k + 1, Len(v))
           w == u \o a
           one == w \o b
           two == u \o v
<1>1. /\ a \in Seq(S) /\ Len(a) = k /\ \A i \in 1 .. k : a[i] = v[i]
      /\ b \in Seq(S) /\ Len(b) = Len(v) - k /\ \A i \in 1 .. Len(v) - k : b[i] = v[k + i]
      /\ Len(u) \in Nat /\ Len(v) \in Nat
  BY FrontElements, TailElements
<1> HIDE DEF a, b
<1>2. /\ w \in Seq(S) /\ Len(w) = Len(u) + k /\ \A i \in 1 .. Len(u) : w[i] = u[i]
      /\ \A i \in 1 .. k : w[Len(u) + i] = a[i]
  <2>1. a \in Seq(S)
    BY <1>1
  <2>2. /\ w \in Seq(S) /\ Len(w) = Len(u) + Len(a) /\ \A i \in 1 .. Len(u) : w[i] = u[i]
        /\ \A i \in 1 .. Len(a) : w[Len(u) + i] = a[i]
    BY <2>1
  <2> HIDE DEF w
  <2> QED
    BY <1>1, <2>2
<1> HIDE DEF w
<1>3. /\ one \in Seq(S) /\ Len(one) = Len(u) + Len(v) /\ \A i \in 1 .. Len(w) : one[i] = w[i]
      /\ \A i \in 1 .. Len(b) : one[Len(w) + i] = b[i]
  <2>1. /\ one \in Seq(S) /\ Len(one) = Len(w) + Len(b) /\ \A i \in 1 .. Len(w) : one[i] = w[i]
        /\ \A i \in 1 .. Len(b) : one[Len(w) + i] = b[i]
    <3>1. w \in Seq(S) /\ b \in Seq(S)
      BY <1>1, <1>2
    <3> QED
      BY <3>1
  <2> HIDE DEF one
  <2> QED
    BY <1>1, <1>2, <2>1
<1>4. /\ two \in Seq(S) /\ Len(two) = Len(u) + Len(v) /\ \A i \in 1 .. Len(u) : two[i] = u[i]
      /\ \A i \in 1 .. Len(v) : two[Len(u) + i] = v[i]
  BY ConcatElements
<1> HIDE DEF one, two
<1>5. ASSUME NEW i \in 1 .. Len(u) + Len(v) PROVE one[i] = two[i]
  <2>1. CASE i <= Len(u)
    <3>1. i \in 1 .. Len(u) /\ i \in 1 .. Len(w)
      BY <1>1, <1>2, <2>1
    <3> QED
      BY <1>2, <1>3, <1>4, <3>1
  <2>2. CASE ~ (i <= Len(u)) /\ i <= Len(u) + k
    <3>1. /\ i - Len(u) \in 1 .. k /\ i - Len(u) \in 1 .. Len(v) /\ i \in 1 .. Len(w)
          /\ Len(u) + (i - Len(u)) = i
      BY <1>1, <1>2, <2>2
    <3>2. one[i] = w[i] /\ w[i] = a[i - Len(u)] /\ two[i] = v[i - Len(u)]
      BY <1>2, <1>3, <1>4, <3>1
    <3> QED
      BY <1>1, <3>1, <3>2
  <2>3. CASE ~ (i <= Len(u) + k)
    <3>1. /\ i - (Len(u) + k) \in 1 .. Len(v) - k /\ i - Len(u) \in 1 .. Len(v)
          /\ Len(w) + (i - (Len(u) + k)) = i /\ Len(u) + (i - Len(u)) = i
          /\ k + (i - (Len(u) + k)) = i - Len(u)
      BY <1>1, <1>2, <2>3
    <3>2. one[i] = b[i - (Len(u) + k)] /\ two[i] = v[i - Len(u)]
      BY <1>1, <1>3, <1>4, <3>1, ZenonT(40)
    <3> QED
      BY <1>1, <3>1, <3>2
  <2> QED
    BY <2>1, <2>2, <2>3
<1>6. one = two
  <2>1. Len(u) + Len(v) \in Nat
    BY <1>1
  <2> QED
    BY <1>3, <1>4, <1>5, SeqEqual
<1> QED
  BY <1>6 DEF one, w, a, b, two

-----------------------------------------------------------------------------
(* Requests are handed on in the order in which they were sent *)

\* The message that is awaited was sent after all that were handed on.
Ordered(p, messages) ==
  /\ InOrder(messages)
  /\ p.processingMessage => \A i \in DOMAIN messages : messages[i].number < p.sipMessage.number

\* What was sent before the first line of a message comes before it.
HeadersLater(flow) ==
  \A i, j \in DOMAIN flow :
    (i < j /\ flow[j].unit.kind = "header") => flow[i].number < flow[j].number

\* Every first line there is of a message after the k-th.
Fresh(flow, k) == \A i \in DOMAIN flow : flow[i].unit.kind = "header" => k < flow[i].number

Flowing(p, messages, flow) ==
  /\ Ordered(p, messages)
  /\ HeadersLater(flow)
  /\ \A i \in DOMAIN messages : Fresh(flow, messages[i].number)
  /\ p.processingMessage => Fresh(flow, p.sipMessage.number)

\* Some of a flow, in the same order.
LEMMA PartFlows ==
  ASSUME NEW flow, NEW part, NEW at, HeadersLater(flow),
         \A i \in DOMAIN part : at[i] \in DOMAIN flow /\ part[i] = flow[at[i]],
         \A i, j \in DOMAIN part : i < j => at[i] < at[j]
  PROVE  HeadersLater(part) /\ \A k : Fresh(flow, k) => Fresh(part, k)
BY DEF HeadersLater, Fresh

LEMMA TailFlows ==
  ASSUME NEW n \in Nat, NEW flow \in Seq(Pieces(n)), NEW k \in 0 .. Len(flow), HeadersLater(flow)
  PROVE  LET left == SubSeq(flow, k + 1, Len(flow))
         IN HeadersLater(left) /\ \A number : Fresh(flow, number) => Fresh(left, number)
<1> DEFINE left == SubSeq(flow, k + 1, Len(flow))
           at == [i \in 1 .. Len(flow) - k |-> k + i]
<1>1. /\ left \in Seq(Pieces(n)) /\ Len(left) = Len(flow) - k /\ Len(flow) \in Nat
      /\ \A i \in 1 .. Len(flow) - k : left[i] = flow[k + i]
  BY TailElements
<1>2. DOMAIN left = 1 .. Len(flow) - k /\ DOMAIN flow = 1 .. Len(flow)
  BY <1>1
<1> HIDE DEF left
<1>3. /\ \A i \in DOMAIN left : at[i] \in DOMAIN flow /\ left[i] = flow[at[i]]
      /\ \A i, j \in DOMAIN left : i < j => at[i] < at[j]
  BY <1>1, <1>2
<1> HIDE DEF at
<1> QED
  BY <1>3, PartFlows DEF left

\* What follows what is stored, when something in between is lost.
LEMMA GapFlows ==
  ASSUME NEW n \in Nat, NEW held \in Seq(Pieces(n)), NEW flow \in Seq(Pieces(n)),
         NEW k \in 0 .. Len(flow), HeadersLater(held \o flow)
  PROVE  LET left == held \o SubSeq(flow, k + 1, Len(flow))
         IN HeadersLater(left) /\ \A number : Fresh(held \o flow, number) => Fresh(left, number)
<1> DEFINE tail == SubSeq(flow, k + 1, Len(flow))
           left == held \o tail
           all == held \o flow
           at == [i \in 1 .. Len(held) + (Len(flow) - k) |-> IF i <= Len(held) THEN i ELSE i + k]
<1>1. /\ tail \in Seq(Pieces(n)) /\ Len(tail) = Len(flow) - k
      /\ \A i \in 1 .. Len(flow) - k : tail[i] = flow[k + i]
      /\ Len(flow) \in Nat /\ Len(held) \in Nat
  BY TailElements
<1> HIDE DEF tail
<1>2. tail \in Seq(Pieces(n))
  BY <1>1
<1>3. /\ DOMAIN left = 1 .. Len(held) + Len(tail)
      /\ \A i \in 1 .. Len(held) : left[i] = held[i]
      /\ \A i \in 1 .. Len(tail) : left[Len(held) + i] = tail[i]
  BY <1>2
<1>4. /\ DOMAIN all = 1 .. Len(held) + Len(flow)
      /\ \A i \in 1 .. Len(held) : all[i] = held[i]
      /\ \A i \in 1 .. Len(flow) : all[Len(held) + i] = flow[i]
  OBVIOUS
<1> HIDE DEF left, all
<1>5. DOMAIN left = 1 .. Len(held) + (Len(flow) - k)
  BY <1>1, <1>3
<1>6. ASSUME NEW i \in DOMAIN left
      PROVE  at[i] \in DOMAIN all /\ left[i] = all[at[i]]
  <2>1. CASE i <= Len(held)
    BY <1>1, <1>3, <1>4, <1>5, <2>1
  <2>2. CASE ~ (i <= Len(held))
    <3>1. /\ i - Len(held) \in 1 .. Len(tail) /\ i - Len(held) \in 1 .. Len(flow) - k
          /\ k + (i - Len(held)) \in 1 .. Len(flow) /\ Len(held) + (i - Len(held)) = i
          /\ Len(held) + (k + (i - Len(held))) = i + k
      <4> DEFINE a == Len(held)
                 b == Len(flow)
                 c == Len(tail)
      <4>1. a \in Nat /\ b \in Nat /\ c = b - k /\ i \in 1 .. a + (b - k) /\ ~ (i <= a) /\ k \in 0 .. b
        BY <1>1, <1>5, <2>2
      <4> HIDE DEF a, b, c
      <4>2. /\ i - a \in 1 .. c /\ i - a \in 1 .. b - k /\ k + (i - a) \in 1 .. b
            /\ a + (i - a) = i /\ a + (k + (i - a)) = i + k
        BY <4>1
      <4> QED
        BY <4>2 DEF a, b, c
    <3>2. left[i] = flow[k + (i - Len(held))] /\ all[i + k] = flow[k + (i - Len(held))]
      BY <1>1, <1>3, <1>4, <3>1
    <3>3. at[i] = i + k /\ i + k \in 1 .. Len(held) + Len(flow)
      BY <1>1, <1>5, <2>2
    <3> QED
      BY <1>4, <3>2, <3>3
  <2> QED
    BY <2>1, <2>2
<1>7. \A i, j \in DOMAIN left : i < j => at[i] < at[j]
  BY <1>1, <1>5
<1> HIDE DEF at
<1>8. HeadersLater(left) /\ \A number : Fresh(all, number) => Fresh(left, number)
  <2>1. HeadersLater(all)
    BY DEF all
  <2> QED
    BY <1>6, <1>7, <2>1, PartFlows
<1> QED
  BY <1>8 DEF left, all, tail

\* loadMessageData is given the beginning of a flow.
LEMMA LoadFlows ==
  ASSUME NEW n \in Nat, NEW s \in LoadStates(n), NEW flow \in Seq(Pieces(n)),
         NEW k \in 1 .. Len(flow), NEW chunk \in Seq(Pieces(n)), chunk # <<>>, chunk[1] = flow[1],
         NEW text \in Seq(Pieces(n)), Flowing(s.parser, s.delivered, flow)
  PROVE  LET t == LoadMessageData(s, chunk, text)
         IN Flowing(t.parser, t.delivered, SubSeq(flow, k + 1, Len(flow)))
<1> DEFINE t == LoadMessageData(s, chunk, text)
           left == SubSeq(flow, k + 1, Len(flow))
<1> SUFFICES Flowing(t.parser, t.delivered, left)
  OBVIOUS
<1>1. /\ s.parser \in Parsers(n) /\ s.running \in BOOLEAN /\ s.delivered \in Seq(Message(0 .. n))
      /\ s.parser.processingMessage \in BOOLEAN
      /\ s.parser.processingMessage => s.parser.sipMessage \in Message(0 .. n)
  BY LoadStateTypes
<1>2. \/ t.parser = s.parser /\ t.delivered = s.delivered
      \/ s.running /\ ~ s.parser.processingMessage /\ t = LoadHeader(s, chunk)
      \/ s.running /\ s.parser.processingMessage /\ t = LoadBody(s, chunk, text)
  BY <1>1 DEF LoadMessageData, LoadStates
<1>3. /\ HeadersLater(left)
      /\ \A number : Fresh(flow, number) => Fresh(left, number)
  BY TailFlows DEF Flowing
<1>4. /\ InOrder(s.delivered) /\ HeadersLater(flow)
      /\ \A i \in DOMAIN s.delivered : Fresh(flow, s.delivered[i].number)
      /\ s.parser.processingMessage =>
           /\ Fresh(flow, s.parser.sipMessage.number)
           /\ \A i \in DOMAIN s.delivered : s.delivered[i].number < s.parser.sipMessage.number
  BY DEF Flowing, Ordered
<1>5. ASSUME NEW m \in Message(0 .. n),
             \A i \in DOMAIN s.delivered : s.delivered[i].number < m.number
      PROVE  InOrder(Append(s.delivered, m))
  <2>1. Udp!Message(0 .. n) = Message(0 .. n)
    BY SameData
  <2>2. Udp!InOrder(s.delivered)
    BY <1>4 DEF InOrder, Udp!InOrder
  <2>3. Udp!InOrder(Append(s.delivered, m))
    BY <1>1, <1>5, <2>1, <2>2, UdpAssumptions, Udp!OneMoreInOrder
  <2> QED
    BY <2>3 DEF InOrder, Udp!InOrder
<1>6. ASSUME NEW m \in Message(0 .. n),
             \A i \in DOMAIN s.delivered : s.delivered[i].number < m.number,
             Fresh(left, m.number), ~ t.parser.processingMessage,
             t.delivered = Append(s.delivered, m)
      PROVE  Flowing(t.parser, t.delivered, left)
  <2>1. InOrder(t.delivered)
    BY <1>5, <1>6
  <2>2. \A i \in DOMAIN t.delivered :
          t.delivered[i] = m \/ \E j \in DOMAIN s.delivered : t.delivered[i] = s.delivered[j]
    <3>1. /\ DOMAIN Append(s.delivered, m) = 1 .. Len(s.delivered) + 1
          /\ DOMAIN s.delivered = 1 .. Len(s.delivered) /\ Len(s.delivered) \in Nat
          /\ \A i \in 1 .. Len(s.delivered) : Append(s.delivered, m)[i] = s.delivered[i]
          /\ Append(s.delivered, m)[Len(s.delivered) + 1] = m
      BY <1>1
    <3> HIDE DEF t
    <3> QED
      BY <1>6, <3>1
  <2>3. \A i \in DOMAIN t.delivered : Fresh(left, t.delivered[i].number)
    <3> HIDE DEF t, left
    <3> QED
      BY <1>3, <1>4, <1>6, <2>2
  <2> HIDE DEF t, left
  <2> QED
    BY <1>3, <1>6, <2>1, <2>3 DEF Flowing, Ordered
<1> HIDE DEF left, t
<1>7. CASE t.parser = s.parser /\ t.delivered = s.delivered
  BY <1>3, <1>4, <1>7 DEF Flowing, Ordered
<1>8. CASE ~ s.parser.processingMessage /\ t = LoadHeader(s, chunk)
  <2> DEFINE m == BuildMessage(s.parser, chunk)
  <2>1. /\ m = Null => ~ t.parser.processingMessage /\ t.delivered = s.delivered
        /\ (m # Null /\ m.request.contentLength = 0) =>
             ~ t.parser.processingMessage /\ t.delivered = Append(s.delivered, m)
        /\ (m # Null /\ m.request.contentLength # 0) =>
             t.parser.sipMessage = m /\ t.delivered = s.delivered
    BY <1>8, HeaderLoaded
  <2>2. m # Null => m \in Message(0 .. n) /\ m.number = chunk[1].number /\ StartsWith(chunk, "header")
    BY <1>1, BuiltMessages
  <2> HIDE DEF m
  <2>3. ASSUME m # Null
        PROVE  /\ m \in Message(0 .. n) /\ Fresh(left, m.number)
               /\ \A i \in DOMAIN s.delivered : s.delivered[i].number < m.number
    <3>1. /\ flow[1].unit.kind = "header" /\ m.number = flow[1].number
      BY <2>2, <2>3 DEF StartsWith
    <3>2. 1 \in DOMAIN flow
      OBVIOUS
    <3>3. \A i \in DOMAIN s.delivered : s.delivered[i].number < m.number
      BY <1>4, <3>1, <3>2 DEF Fresh
    <3>4. Fresh(left, m.number)
      <4>1. /\ DOMAIN left = 1 .. Len(flow) - k /\ DOMAIN flow = 1 .. Len(flow) /\ Len(flow) \in Nat
            /\ \A i \in 1 .. Len(flow) - k : left[i] = flow[k + i]
        BY TailElements DEF left
      <4>2. \A i \in DOMAIN left : k + i \in DOMAIN flow /\ 1 < k + i
        BY <4>1
      <4> QED
        BY <1>4, <3>1, <3>2, <4>1, <4>2 DEF Fresh, HeadersLater
    <3> QED
      BY <2>2, <2>3, <3>3, <3>4
  <2>4. CASE m = Null
    BY <1>3, <1>4, <2>1, <2>4 DEF Flowing, Ordered
  <2>5. CASE m # Null /\ m.request.contentLength = 0
    BY <1>6, <2>1, <2>3, <2>5
  <2>6. CASE m # Null /\ m.request.contentLength # 0
    BY <1>3, <1>4, <2>1, <2>3, <2>6 DEF Flowing, Ordered
  <2> QED
    BY <2>4, <2>5, <2>6
<1>9. CASE s.parser.processingMessage /\ t = LoadBody(s, chunk, text)
  <2> DEFINE u == t.parser.sipMessage
  <2>1. /\ u \in Message(0 .. n) /\ u.number = s.parser.sipMessage.number
        /\ \/ ~ t.parser.processingMessage /\ t.delivered = Append(s.delivered, u)
           \/ t.parser.processingMessage /\ t.delivered = s.delivered
    <3> DEFINE b == LoadBody(s, chunk, text)
               received == s.parser.receivedContentLength + Len(chunk)
               length == s.parser.sipMessage.request.contentLength
               p == s.parser
               m == p.sipMessage
    <3>1. /\ b.parser \in Parsers(n) /\ b.running = s.running
          /\ b.delivered \in Seq(Message(0 .. n))
          /\ b.parser.sipMessage \in Message(0 .. n)
          /\ b.parser.sipMessage.request = m.request
          /\ b.parser.sipMessage.number = m.number
          /\ b.parser.expecting = IF p.expecting = "BOUNDARY" THEN AnnouncedType(chunk) ELSE "NONE"
          /\ b.parser.bodies["SDP"] =
               IF p.expecting = "SDP" /\ p.bodies["SDP"] = Null THEN chunk ELSE p.bodies["SDP"]
          /\ SdpOf(b.parser.sipMessage) =
               IF p.expecting = "SDP" /\ SdpOf(m) = Null THEN text ELSE SdpOf(m)
          /\ received >= length =>
               /\ ~ b.parser.processingMessage /\ b.parser.receivedContentLength = 0
               /\ b.delivered = Append(s.delivered, b.parser.sipMessage)
          /\ ~ (received >= length) =>
               /\ b.parser.processingMessage /\ b.parser.receivedContentLength = received
               /\ b.delivered = s.delivered
      BY <1>9, BodyLoaded, ZenonT(30)
    <3> HIDE DEF received, length, b
    <3> QED
      BY <1>9, <3>1 DEF b
  <2> HIDE DEF u
  <2>2. CASE ~ t.parser.processingMessage /\ t.delivered = Append(s.delivered, u)
    BY <1>3, <1>4, <1>6, <1>9, <2>1, <2>2
  <2>3. CASE t.parser.processingMessage /\ t.delivered = s.delivered
    BY <1>3, <1>4, <1>9, <2>1, <2>3 DEF Flowing, Ordered, u
  <2> QED
    BY <2>1, <2>2, <2>3
<1> QED
  BY <1>2, <1>7, <1>8, <1>9 DEF t, left

\* A round of the loop takes from the front of the flow what it pulls.
LEMMA RoundFlows ==
  ASSUME NEW n \in Nat, NEW s \in LoopStates(n), NEW remains \in Leftovers,
         NEW rest \in Seq(Pieces(n)), Flowing(s.link.parser, s.delivered, Held(s.link) \o rest)
  PROVE  LET t == PulledOnce(s, remains)
         IN Flowing(t.link.parser, t.delivered, Held(t.link) \o rest)
<1> DEFINE t == PulledOnce(s, remains)
           k == PullCount(s.link)
           held == Held(s.link)
           flow == held \o rest
           loaded == Loaded(s, remains)
<1> SUFFICES Flowing(t.link.parser, t.delivered, Held(t.link) \o rest)
  OBVIOUS
<1>1. /\ k \in 0 .. Count(s.link) /\ Count(s.link) \in Nat
      /\ (~ s.running \/ k = 0) => t = s
      /\ (s.running /\ k # 0) =>
           /\ t.delivered = loaded.delivered /\ t.link.parser = loaded.parser
           /\ Held(t.link) = SubSeq(held, k + 1, Len(held))
  BY RoundForm
<1>2. held \in Seq(Pieces(n)) /\ Len(held) = Count(s.link)
  BY LoopStateTypes, HeldElements
<1>3. /\ Given(s) \in LoadStates(n) /\ Given(s).parser = s.link.parser
      /\ Given(s).delivered = s.delivered
      /\ Chunked(s) \in Seq(Pieces(n)) /\ Len(Chunked(s)) = k
      /\ \A i \in 1 .. k : Chunked(s)[i] = held[i]
      /\ TextOf(Chunked(s), BufSize, remains) \in Seq(Pieces(n))
  BY GivenTypes
<1>4. Flowing(s.link.parser, s.delivered, flow)
  OBVIOUS
<1>5. loaded = LoadMessageData(Given(s), Chunked(s), TextOf(Chunked(s), BufSize, remains))
  BY DEF Loaded
<1> HIDE DEF t, k, loaded, held
<1>6. CASE ~ s.running \/ k = 0
  BY <1>1, <1>4, <1>6 DEF held
<1>7. CASE s.running /\ k # 0
  <2>1. k \in 1 .. Len(held) /\ k \in 0 .. Len(held)
    BY <1>1, <1>2, <1>7
  <2>2. held \in Seq(Pieces(n))
    BY <1>2
  <2>3. /\ flow \in Seq(Pieces(n)) /\ Len(flow) = Len(held) + Len(rest) /\ Len(rest) \in Nat
        /\ Len(held) \in Nat /\ \A i \in 1 .. Len(held) : flow[i] = held[i]
    BY <2>2
  <2>4. Held(t.link) \o rest = SubSeq(flow, k + 1, Len(flow))
    <3>1. Held(t.link) = SubSeq(held, k + 1, Len(held))
      BY <1>1, <1>7
    <3> QED
      BY <2>1, <2>2, <3>1, TailOfConcat
  <2> HIDE DEF flow
  <2>5. k \in 1 .. Len(flow)
    BY <2>1, <2>3
  <2>6. Chunked(s) # <<>> /\ Chunked(s)[1] = flow[1]
    <3>1. 1 \in 1 .. k /\ 1 \in 1 .. Len(held)
      BY <2>1, <2>3
    <3>2. Len(Chunked(s)) # 0
      BY <1>3, <1>7
    <3> QED
      BY <1>3, <2>3, <3>1, <3>2
  <2>7. Flowing(Given(s).parser, Given(s).delivered, flow)
    BY <1>3, <1>4
  <2>8. Flowing(loaded.parser, loaded.delivered, SubSeq(flow, k + 1, Len(flow)))
    BY <1>3, <1>5, <2>3, <2>5, <2>6, <2>7, LoadFlows
  <2> QED
    BY <1>1, <1>7, <2>4, <2>8
<1> QED
  BY <1>6, <1>7

\* What onTcpRecv makes of a connection.
Received(link, flow, count, live, messages, remains) ==
  Drained([link |-> Push(link, SubSeq(flow, 1, count)), running |-> live, delivered |-> messages],
          remains)

LEMMA SoundLinkTypes ==
  ASSUME NEW n \in Nat, NEW link \in SoundLinks(n)
  PROVE  /\ link \in FitLinks(n) /\ link \in Links(n) /\ Counting(link.parser)
         /\ link.pendingMessageBytes = PendingBytes(link.parser)
BY DEF SoundLinks, FitLinks

\* The state the loop starts in.
LEMMA FirstState ==
  ASSUME NEW n \in Nat, NEW link \in SoundLinks(n), NEW flow \in Seq(Pieces(n)),
         NEW count \in 0 .. Len(flow), NEW live \in BOOLEAN, NEW messages \in Seq(Message(0 .. n))
  PROVE  LET more == Push(link, SubSeq(flow, 1, count))
             first == [link |-> more, running |-> live, delivered |-> messages]
         IN /\ first \in LoopStates(n) /\ first.link = more
            /\ first.running = live /\ first.delivered = messages
            /\ more.parser = link.parser /\ more.status = link.status
            /\ more.pendingMessageBytes = link.pendingMessageBytes
            /\ Held(more) = IF count <= Capacity - Count(link)
                            THEN Held(link) \o SubSeq(flow, 1, count) ELSE Held(link)
<1> DEFINE bytes == SubSeq(flow, 1, count)
           more == Push(link, bytes)
<1>1. bytes \in Seq(Pieces(n)) /\ Len(bytes) = count
  BY FrontElements
<1>2. link \in FitLinks(n)
  BY SoundLinkTypes
<1> HIDE DEF bytes
<1>3. /\ more \in FitLinks(n) /\ more.parser = link.parser /\ more.status = link.status
      /\ more.pendingMessageBytes = link.pendingMessageBytes
      /\ Held(more) = IF Len(bytes) <= Capacity - Count(link)
                      THEN Held(link) \o bytes ELSE Held(link)
  BY <1>1, <1>2, PushKeeps
<1> HIDE DEF more
<1>4. more \in SoundLinks(n)
  BY <1>3, SoundLinkTypes DEF SoundLinks
<1> QED
  BY <1>1, <1>3, <1>4 DEF LoopStates, more, bytes

LEMMA ReceiveFlows ==
  ASSUME NEW n \in Nat, NEW link \in SoundLinks(n), NEW flow \in Seq(Pieces(n)),
         NEW count \in 1 .. Len(flow), NEW live \in BOOLEAN, NEW messages \in Seq(Message(0 .. n)),
         NEW remains \in Leftovers, Flowing(link.parser, messages, Held(link) \o flow)
  PROVE  LET state == Received(link, flow, count, live, messages, remains)
         IN /\ state \in LoopStates(n) /\ state.link.status = link.status
            /\ Flowing(state.link.parser, state.delivered,
                       Held(state.link) \o SubSeq(flow, count + 1, Len(flow)))
<1> DEFINE rest == SubSeq(flow, count + 1, Len(flow))
           more == Push(link, SubSeq(flow, 1, count))
           first == [link |-> more, running |-> live, delivered |-> messages]
           V == {s \in LoopStates(n) : /\ s.link.status = link.status
                                       /\ Flowing(s.link.parser, s.delivered, Held(s.link) \o rest)}
<1>1. count \in 0 .. Len(flow) /\ Len(flow) \in Nat
  OBVIOUS
<1>2. /\ first \in LoopStates(n) /\ first.link = more
      /\ first.running = live /\ first.delivered = messages
      /\ more.parser = link.parser /\ more.status = link.status
      /\ more.pendingMessageBytes = link.pendingMessageBytes
      /\ Held(more) = IF count <= Capacity - Count(link)
                      THEN Held(link) \o SubSeq(flow, 1, count) ELSE Held(link)
  BY <1>1, FirstState
<1>3. Held(link) \in Seq(Pieces(n))
  BY SoundLinkTypes, HeldElements
<1>4. rest \in Seq(Pieces(n))
  BY <1>1, TailElements
<1>5. Flowing(link.parser, messages, Held(more) \o rest)
  <2>1. CASE count <= Capacity - Count(link)
    <3>1. Held(more) \o rest = Held(link) \o flow
      BY <1>1, <1>2, <1>3, <2>1, ConcatInParts
    <3> QED
      BY <3>1
  <2>2. CASE ~ (count <= Capacity - Count(link))
    <3>1. Held(more) = Held(link)
      BY <1>2, <2>2
    <3>2. HeadersLater(Held(link) \o flow)
      BY DEF Flowing
    <3>3. /\ HeadersLater(Held(link) \o rest)
          /\ \A k : Fresh(Held(link) \o flow, k) => Fresh(Held(link) \o rest, k)
      BY <1>1, <1>3, <3>2, GapFlows
    <3> HIDE DEF more, rest
    <3> QED
      BY <3>1, <3>3 DEF Flowing
  <2> QED
    BY <2>1, <2>2
<1> HIDE DEF more, rest
<1>6. first \in V
  BY <1>2, <1>5
<1>7. ASSUME NEW s \in V PROVE PulledOnce(s, remains) \in V
  <2> DEFINE t == PulledOnce(s, remains)
  <2>1. t \in LoopStates(n) /\ t.link.status = s.link.status
    <3>1. s \in LoopStates(n)
      OBVIOUS
    <3>2. /\ t \in LoopStates(n)
          /\ (~ s.running \/ PullCount(s.link) = 0) => t = s
          /\ (s.running /\ PullCount(s.link) # 0) => t.link.status = s.link.status
      BY <3>1, RoundForm
    <3> HIDE DEF t
    <3> QED
      BY <3>2
  <2>2. Flowing(t.link.parser, t.delivered, Held(t.link) \o rest)
    BY <1>4, RoundFlows
  <2> HIDE DEF t
  <2>3. t \in V
    BY <2>1, <2>2
  <2> QED
    BY <2>3 DEF t
<1>8. Drained(first, remains) \in V
  <2>1. V \subseteq LoopStates(n)
    OBVIOUS
  <2> HIDE DEF V, first
  <2> QED
    BY <1>6, <1>7, <2>1, DrainedEnds
<1>9. Received(link, flow, count, live, messages, remains) = Drained(first, remains)
  BY DEF Received, more
<1> QED
  BY <1>8, <1>9 DEF rest

-----------------------------------------------------------------------------
(* What the peer sends *)

\* The units of the k-th message.
Stamped(m, k) == [i \in DOMAIN m |-> [unit |-> m[i], number |-> k]]

LEMMA StampedUnits ==
  ASSUME NEW m \in Messages, NEW k \in Nat
  PROVE  /\ Stamped(m, k) \in Seq(Pieces(k)) /\ Len(Stamped(m, k)) = Len(m)
         /\ DOMAIN m = 1 .. Len(m) /\ Len(m) \in Nat /\ m \in Seq(Unit)
         /\ \A i \in 1 .. Len(m) : /\ Stamped(m, k)[i].unit = m[i] /\ Stamped(m, k)[i].number = k
                                   /\ m[i].kind = "header" => i = 1
<1>1. m \in Seq(Unit) /\ \A i \in DOMAIN m : m[i].kind = "header" => i = 1
  BY MessagesAssumption
<1>2. DOMAIN m = 1 .. Len(m) /\ Len(m) \in Nat /\ \A i \in 1 .. Len(m) : m[i] \in Unit
  BY <1>1, ElementType
<1>3. Stamped(m, k) \in [1 .. Len(m) -> Pieces(k)]
  BY <1>2 DEF Stamped, Pieces
<1>4. Stamped(m, k) \in Seq(Pieces(k)) /\ Len(Stamped(m, k)) = Len(m)
  BY <1>2, <1>3, FunctionIsSeq
<1>5. \A i \in 1 .. Len(m) : Stamped(m, k)[i].unit = m[i] /\ Stamped(m, k)[i].number = k
  BY <1>2 DEF Stamped
<1> QED
  BY <1>1, <1>2, <1>4, <1>5

LEMMA StampsGrow ==
  ASSUME NEW m \in Nat, NEW n \in Nat, m <= n
  PROVE  /\ Pieces(m) \subseteq Pieces(n) /\ Seq(Pieces(m)) \subseteq Seq(Pieces(n))
         /\ Seq(Message(0 .. m)) \subseteq Seq(Message(0 .. n))
         /\ SoundLinks(m) \subseteq SoundLinks(n)
<1>1. /\ Pieces(m) \subseteq Pieces(n) /\ Message(0 .. m) \subseteq Message(0 .. n)
      /\ Parsers(m) \subseteq Parsers(n)
  <2>1. /\ Udp!Pieces(m) \subseteq Udp!Pieces(n)
        /\ Udp!Message(0 .. m) \subseteq Udp!Message(0 .. n)
        /\ Udp!Parsers(m) \subseteq Udp!Parsers(n)
    BY UdpAssumptions, Udp!StampsGrow
  <2> QED
    BY <2>1, SameData
<1>2. Links(m) \subseteq Links(n)
  BY <1>1 DEF Links
<1> QED
  BY <1>1, <1>2 DEF SoundLinks, FitLinks

LEMMA ConcatThree ==
  ASSUME NEW S, NEW u \in Seq(S), NEW v \in Seq(S), NEW w \in Seq(S)
  PROVE  u \o (v \o w) = (u \o v) \o w
OBVIOUS

LEMMA StampedInOrder ==
  ASSUME NEW n \in Nat, NEW m \in Messages,
         NEW held \in Seq(Pieces(n)), NEW flow \in Seq(Pieces(n))
  PROVE  held \o (flow \o Stamped(m, n + 1)) = (held \o flow) \o Stamped(m, n + 1)
<1> DEFINE k == n + 1
           new == Stamped(m, k)
           S == Pieces(k)
<1>1. k \in Nat /\ n <= k
  OBVIOUS
<1> HIDE DEF k
<1>2. held \in Seq(S) /\ flow \in Seq(S)
  BY <1>1, StampsGrow
<1>3. new \in Seq(S)
  BY <1>1, StampedUnits
<1> HIDE DEF new, S
<1>4. held \o (flow \o new) = (held \o flow) \o new
  BY <1>2, <1>3, ConcatThree
<1> QED
  BY <1>4 DEF new, k

LEMMA SendFlows ==
  ASSUME NEW n \in Nat, NEW flow \in Seq(Pieces(n)), NEW m \in Messages
  PROVE  LET more == flow \o Stamped(m, n + 1)
         IN /\ more \in Seq(Pieces(n + 1))
            /\ HeadersLater(flow) => HeadersLater(more)
            /\ \A k \in 0 .. n : Fresh(flow, k) => Fresh(more, k)
<1> DEFINE new == Stamped(m, n + 1)
           more == flow \o new
<1>1. /\ new \in Seq(Pieces(n + 1)) /\ Len(new) \in Nat
      /\ \A i \in 1 .. Len(new) : /\ new[i].number = n + 1
                                  /\ new[i].unit.kind = "header" => i = 1
  <2> DEFINE k == n + 1
  <2>1. k \in Nat
    OBVIOUS
  <2> HIDE DEF k
  <2>2. /\ Stamped(m, k) \in Seq(Pieces(k)) /\ Len(Stamped(m, k)) = Len(m) /\ Len(m) \in Nat
        /\ \A i \in 1 .. Len(m) : /\ Stamped(m, k)[i].unit = m[i] /\ Stamped(m, k)[i].number = k
                                  /\ m[i].kind = "header" => i = 1
    BY <2>1, StampedUnits
  <2> QED
    BY <2>2 DEF k
<1>2. flow \in Seq(Pieces(n + 1)) /\ Len(flow) \in Nat /\ DOMAIN flow = 1 .. Len(flow)
  BY StampsGrow
<1>3. \A i \in 1 .. Len(flow) : flow[i].number \in 0 .. n
  <2> SUFFICES ASSUME NEW i \in 1 .. Len(flow) PROVE flow[i].number \in 0 .. n
    OBVIOUS
  <2>1. flow[i] \in Pieces(n)
    BY ElementType
  <2> QED
    BY <2>1 DEF Pieces
<1> HIDE DEF new
<1>4. new \in Seq(Pieces(n + 1))
  BY <1>1
<1>5. /\ more \in Seq(Pieces(n + 1))
      /\ DOMAIN more = 1 .. Len(flow) + Len(new)
      /\ \A i \in 1 .. Len(flow) : more[i] = flow[i]
      /\ \A i \in 1 .. Len(new) : more[Len(flow) + i] = new[i]
  BY <1>2, <1>4
<1> HIDE DEF more
<1>6. \A i \in DOMAIN more :
        \/ i \in 1 .. Len(flow)
        \/ i - Len(flow) \in 1 .. Len(new) /\ Len(flow) + (i - Len(flow)) = i
  BY <1>1, <1>2, <1>5
<1>7. ASSUME NEW j \in DOMAIN more, j \notin 1 .. Len(flow)
      PROVE  more[j].number = n + 1 /\ (more[j].unit.kind = "header" => j = Len(flow) + 1)
  <2>1. j - Len(flow) \in 1 .. Len(new) /\ Len(flow) + (j - Len(flow)) = j
    BY <1>6, <1>7
  <2>2. more[j] = new[j - Len(flow)]
    BY <1>5, <2>1
  <2> QED
    BY <1>1, <1>2, <2>1, <2>2
<1>8. ASSUME HeadersLater(flow), NEW i \in DOMAIN more, NEW j \in DOMAIN more, i < j,
             more[j].unit.kind = "header"
      PROVE  more[i].number < more[j].number
  <2>1. CASE j \in 1 .. Len(flow)
    <3>1. i \in 1 .. Len(flow)
      BY <1>5, <1>8, <2>1
    <3> QED
      BY <1>2, <1>5, <1>8, <2>1, <3>1 DEF HeadersLater
  <2>2. CASE j \notin 1 .. Len(flow)
    <3>1. more[j].number = n + 1 /\ j = Len(flow) + 1
      BY <1>7, <1>8, <2>2
    <3>2. i \in 1 .. Len(flow)
      BY <1>2, <1>5, <1>8, <3>1
    <3> QED
      BY <1>3, <1>5, <3>1, <3>2
  <2> QED
    BY <2>1, <2>2
<1>9. ASSUME NEW k \in 0 .. n, Fresh(flow, k), NEW i \in DOMAIN more, more[i].unit.kind = "header"
      PROVE  k < more[i].number
  <2>1. CASE i \in 1 .. Len(flow)
    BY <1>2, <1>5, <1>9, <2>1 DEF Fresh
  <2>2. CASE i \notin 1 .. Len(flow)
    BY <1>7, <2>2
  <2> QED
    BY <2>1, <2>2
<1>10. HeadersLater(flow) => HeadersLater(more)
  BY <1>8 DEF HeadersLater
<1>11. \A k \in 0 .. n : Fresh(flow, k) => Fresh(more, k)
  BY <1>9 DEF Fresh
<1> QED
  BY <1>5, <1>10, <1>11 DEF more, new

\* A message more on its way leaves the order as it is.
LEMMA MoreFlows ==
  ASSUME NEW n \in Nat, NEW p \in Parsers(n), NEW messages \in Seq(Message(0 .. n)),
         NEW flow \in Seq(Pieces(n)), NEW m \in Messages, Flowing(p, messages, flow)
  PROVE  Flowing(p, messages, flow \o Stamped(m, n + 1))
<1> DEFINE more == flow \o Stamped(m, n + 1)
<1>1. /\ HeadersLater(flow) => HeadersLater(more)
      /\ \A k \in 0 .. n : Fresh(flow, k) => Fresh(more, k)
  BY SendFlows
<1>2. \A i \in DOMAIN messages : messages[i].number \in 0 .. n
  <2> SUFFICES ASSUME NEW i \in DOMAIN messages PROVE messages[i].number \in 0 .. n
    OBVIOUS
  <2>1. messages[i] \in Message(0 .. n)
    BY ElementType
  <2> QED
    BY <2>1, MessageTypes
<1>3. p.processingMessage => p.sipMessage.number \in 0 .. n
  <2>1. p.processingMessage => p.sipMessage \in Message(0 .. n)
    BY DEF Parsers
  <2> QED
    BY <2>1, MessageTypes
<1> HIDE DEF more
<1>4. Flowing(p, messages, more)
  BY <1>1, <1>2, <1>3 DEF Flowing
<1> QED
  BY <1>4 DEF more

-----------------------------------------------------------------------------
(* The steps, seen from one connection *)

\* The variables have a value for every connection.
ForEach ==
  /\ DOMAIN connection = Connections /\ DOMAIN stream = Connections
  /\ DOMAIN delivered = Connections /\ DOMAIN sent = Connections /\ DOMAIN cuts = Connections

\* A step of another connection.
Resting(d) ==
  /\ connection'[d] = connection[d] /\ stream'[d] = stream[d]
  /\ delivered'[d] = delivered[d] /\ sent'[d] = sent[d] /\ cuts'[d] = cuts[d]

OthersRest(c) == ForEach' /\ \A d \in Connections : d # c => Resting(d)

LEMMA NewSteps ==
  ASSUME ForEach, NEW c \in Connections, OnTcpConnection(c)
  PROVE  /\ OthersRest(c) /\ connection[c].status = "none" /\ running' = running
         /\ \E memory \in Memories : connection'[c] = NewConnection(memory)
         /\ stream'[c] = stream[c] /\ delivered'[c] = delivered[c]
         /\ sent'[c] = sent[c] /\ cuts'[c] = cuts[c]
BY DEF OnTcpConnection, ForEach, OthersRest, Resting

LEMMA EndSteps ==
  ASSUME ForEach, NEW c \in Connections, OnTcpEnd(c)
  PROVE  /\ OthersRest(c) /\ connection[c].status = "open" /\ running' = running
         /\ connection'[c] = [connection[c] EXCEPT !.status = "closed"]
         /\ stream'[c] = stream[c] /\ stream[c] = <<>> /\ delivered'[c] = delivered[c]
         /\ sent'[c] = sent[c] /\ cuts'[c] = cuts[c]
BY DEF OnTcpEnd, ForEach, OthersRest, Resting

LEMMA SendSteps ==
  ASSUME ForEach, NEW c \in Connections, NEW m \in Messages, PeerSends(c, m)
  PROVE  /\ OthersRest(c) /\ connection[c].status = "open" /\ running' = running
         /\ connection'[c] = connection[c] /\ delivered'[c] = delivered[c] /\ cuts'[c] = cuts[c]
         /\ sent'[c] = Append(sent[c], m)
         /\ stream'[c] = stream[c] \o Stamped(m, Len(sent'[c]))
BY DEF PeerSends, ForEach, OthersRest, Resting, Stamped

LEMMA RecvSteps ==
  ASSUME ForEach, NEW c \in Connections, NEW count, OnTcpRecv(c, count)
  PROVE  /\ OthersRest(c) /\ running /\ connection[c].status = "open"
         /\ count \in 1 .. Len(stream[c]) /\ count <= ReadSize /\ sent'[c] = sent[c]
         /\ stream'[c] = SubSeq(stream[c], count + 1, Len(stream[c]))
         /\ cuts'[c] = cuts[c] \cup CutBefore(c, stream'[c])
         /\ \E remains \in Leftovers :
              LET state == Received(connection[c], stream[c], count, running, delivered[c], remains)
              IN /\ connection'[c] = state.link /\ running' = state.running
                 /\ delivered'[c] = state.delivered
<1> DEFINE rest == SubSeq(stream[c], count + 1, Len(stream[c]))
<1>1. PICK remains \in Leftovers :
        LET state == Drained([link |-> Push(connection[c], SubSeq(stream[c], 1, count)),
                              running |-> running, delivered |-> delivered[c]], remains)
        IN /\ connection' = [connection EXCEPT ![c] = state.link]
           /\ running' = state.running
           /\ delivered' = [delivered EXCEPT ![c] = state.delivered]
           /\ stream' = [stream EXCEPT ![c] = rest]
           /\ cuts' = [cuts EXCEPT ![c] = @ \cup CutBefore(c, rest)]
  BY DEF OnTcpRecv
<1> DEFINE state == Received(connection[c], stream[c], count, running, delivered[c], remains)
<1>2. /\ connection' = [connection EXCEPT ![c] = state.link]
      /\ running' = state.running
      /\ delivered' = [delivered EXCEPT ![c] = state.delivered]
      /\ stream' = [stream EXCEPT ![c] = rest]
      /\ cuts' = [cuts EXCEPT ![c] = cuts[c] \cup CutBefore(c, rest)]
  BY <1>1 DEF Received
<1>3. /\ running /\ connection[c].status = "open"
      /\ count \in 1 .. Len(stream[c]) /\ count <= ReadSize /\ sent' = sent
  BY DEF OnTcpRecv
<1> HIDE DEF state, rest
<1>4. /\ connection'[c] = state.link /\ delivered'[c] = state.delivered /\ stream'[c] = rest
      /\ cuts'[c] = cuts[c] \cup CutBefore(c, rest) /\ sent'[c] = sent[c]
  BY <1>2, <1>3 DEF ForEach
<1>5. OthersRest(c)
  BY <1>2, <1>3 DEF ForEach, OthersRest, Resting
<1> QED
  BY <1>2, <1>3, <1>4, <1>5 DEF state, rest

-----------------------------------------------------------------------------
(* Types, and the order of what is delivered *)

ConnectionSound(c) ==
  /\ sent[c] \in Seq(Messages) /\ stream[c] \in Seq(Pieces(Len(sent[c])))
  /\ delivered[c] \in Seq(Message(0 .. Len(sent[c])))
  /\ connection[c].status # "none" =>
       /\ connection[c] \in SoundLinks(Len(sent[c]))
       /\ Flowing(connection[c].parser, delivered[c], Held(connection[c]) \o stream[c])
  /\ connection[c].status = "none" =>
       stream[c] = <<>> /\ delivered[c] = <<>> /\ sent[c] = <<>> /\ cuts[c] = {}

SoundInv == running \in BOOLEAN /\ ForEach /\ \A c \in Connections : ConnectionSound(c)

LEMMA SoundInit == Init => SoundInv
<1> SUFFICES ASSUME Init PROVE SoundInv
  OBVIOUS
<1>1. running \in BOOLEAN /\ ForEach
  BY DEF Init, ForEach
<1>2. ASSUME NEW c \in Connections PROVE ConnectionSound(c)
  <2>1. /\ stream[c] = <<>> /\ delivered[c] = <<>> /\ sent[c] = <<>> /\ cuts[c] = {}
        /\ connection[c].status = "none"
    BY DEF Init
  <2>2. \A S : <<>> \in Seq(S)
    OBVIOUS
  <2> QED
    BY <2>1, <2>2 DEF ConnectionSound
<1> QED
  BY <1>1, <1>2 DEF SoundInv

\* A connection that has just been made holds nothing.
LEMMA NewIsSound ==
  ASSUME NEW memory \in Memories
  PROVE  LET link == NewConnection(memory)
         IN /\ link \in SoundLinks(0) /\ Held(link) = <<>> /\ ~ link.parser.processingMessage
            /\ link.parser.bodies = NoBodies /\ link.status = "open"
            /\ link.pendingMessageBytes = 0
<1> DEFINE link == NewConnection(memory)
<1>1. /\ link = [status |-> "open", memory |-> memory, start |-> 0, end |-> 0,
                 pendingMessageBytes |-> 0, parser |-> NewParser]
      /\ ~ NewParser.processingMessage /\ NewParser.receivedContentLength = 0
      /\ NewParser.bodies = NoBodies
  BY DEF NewConnection, NewParser
<1>2. NewParser \in Parsers(0)
  BY DEF NewParser, Parsers, ContentTypes, NoBodies, Bodies
<1>3. memory \in [0 .. Capacity -> Pieces(0)] /\ Capacity \in Nat
  <2>1. {0} = 0 .. 0
    OBVIOUS
  <2>2. memory \in [0 .. Capacity -> [unit : Unit, number : {0}]]
    BY MemoriesAssumption
  <2> QED
    BY <2>1, <2>2, SizesAssumption DEF Pieces
<1> HIDE DEF link
<1>4. link \in Links(0)
  BY <1>1, <1>2, <1>3 DEF Links
<1>5. Count(link) = 0
  BY <1>1 DEF Count, Ring!StoredByteCount
<1>6. link \in FitLinks(0)
  BY <1>3, <1>4, <1>5 DEF FitLinks
<1>7. link \in SoundLinks(0)
  BY <1>1, <1>6 DEF SoundLinks, Counting, PendingBytes
<1>8. Held(link) = <<>>
  <2>1. Held(link) \in Seq(Pieces(0)) /\ Len(Held(link)) = 0
    BY <1>5, <1>6, HeldElements
  <2> QED
    BY <2>1, EmptySeq
<1> QED
  BY <1>1, <1>7, <1>8 DEF link

LEMMA OthersStaySound ==
  ASSUME SoundInv, NEW c \in Connections, OthersRest(c), ConnectionSound(c)', running' \in BOOLEAN
  PROVE  SoundInv'
<1>1. ForEach'
  BY DEF OthersRest
<1>2. ASSUME NEW d \in Connections, d # c PROVE ConnectionSound(d)'
  <2>1. ConnectionSound(d) /\ Resting(d)
    BY <1>2 DEF SoundInv, OthersRest
  <2> QED
    BY <2>1 DEF ConnectionSound, Resting
<1> QED
  BY <1>1, <1>2 DEF SoundInv

LEMMA SoundStep == SoundInv /\ [Next]_vars => SoundInv'
<1> SUFFICES ASSUME SoundInv, [Next]_vars PROVE SoundInv'
  OBVIOUS
<1>1. ForEach /\ running \in BOOLEAN
  BY DEF SoundInv
<1>2. ASSUME NEW c \in Connections, OnTcpConnection(c) PROVE SoundInv'
  <2>1. /\ OthersRest(c) /\ connection[c].status = "none" /\ running' = running
        /\ \E memory \in Memories : connection'[c] = NewConnection(memory)
        /\ stream'[c] = stream[c] /\ delivered'[c] = delivered[c]
        /\ sent'[c] = sent[c] /\ cuts'[c] = cuts[c]
    BY <1>1, <1>2, NewSteps
  <2>2. stream[c] = <<>> /\ delivered[c] = <<>> /\ sent[c] = <<>> /\ ConnectionSound(c)
    BY <2>1 DEF SoundInv, ConnectionSound
  <2>3. PICK link : link = connection'[c]
    OBVIOUS
  <2>4. /\ link \in SoundLinks(0) /\ Held(link) = <<>>
        /\ ~ link.parser.processingMessage /\ link.status = "open"
    BY <2>1, <2>3, NewIsSound
  <2>5. Flowing(link.parser, <<>>, <<>> \o <<>>)
    BY <2>4 DEF Flowing, Ordered, InOrder, HeadersLater, Fresh
  <2>6. ConnectionSound(c)'
    BY <2>1, <2>2, <2>3, <2>4, <2>5 DEF ConnectionSound
  <2> QED
    BY <1>1, <2>1, <2>6, OthersStaySound
<1>3. ASSUME NEW c \in Connections, OnTcpEnd(c) PROVE SoundInv'
  <2>1. /\ OthersRest(c) /\ connection[c].status = "open" /\ running' = running
        /\ connection'[c] = [connection[c] EXCEPT !.status = "closed"]
        /\ stream'[c] = stream[c] /\ stream[c] = <<>> /\ delivered'[c] = delivered[c]
        /\ sent'[c] = sent[c] /\ cuts'[c] = cuts[c]
    BY <1>1, <1>3, EndSteps
  <2>2. ConnectionSound(c) /\ connection[c] \in SoundLinks(Len(sent[c]))
    BY <2>1 DEF SoundInv, ConnectionSound
  <2> DEFINE link == connection[c]
             shut == [link EXCEPT !.status = "closed"]
             n == Len(sent[c])
  <2>3. /\ shut \in Links(n) /\ shut.memory = link.memory /\ shut.start = link.start
        /\ shut.end = link.end /\ shut.parser = link.parser /\ shut.status = "closed"
        /\ shut.pendingMessageBytes = link.pendingMessageBytes
    BY <2>2 DEF SoundLinks, FitLinks, Links
  <2> HIDE DEF shut
  <2>4. Count(shut) = Count(link) /\ Held(shut) = Held(link)
    BY <2>3 DEF Count, Held
  <2>5. shut \in SoundLinks(n)
    BY <2>2, <2>3, <2>4 DEF SoundLinks, FitLinks
  <2>6. connection'[c] = shut
    BY <2>1 DEF shut
  <2>7. ConnectionSound(c)'
    BY <2>1, <2>2, <2>3, <2>4, <2>5, <2>6 DEF ConnectionSound
  <2> QED
    BY <1>1, <2>1, <2>7, OthersStaySound
<1>4. ASSUME NEW c \in Connections, NEW m \in Messages, PeerSends(c, m) PROVE SoundInv'
  <2> DEFINE n == Len(sent[c])
             held == Held(connection[c])
  <2>1. /\ OthersRest(c) /\ connection[c].status = "open" /\ running' = running
        /\ connection'[c] = connection[c] /\ delivered'[c] = delivered[c] /\ cuts'[c] = cuts[c]
        /\ sent'[c] = Append(sent[c], m)
        /\ stream'[c] = stream[c] \o Stamped(m, Len(sent'[c]))
    BY <1>1, <1>4, SendSteps
  <2>2. /\ sent[c] \in Seq(Messages) /\ stream[c] \in Seq(Pieces(n))
        /\ delivered[c] \in Seq(Message(0 .. n)) /\ connection[c] \in SoundLinks(n)
        /\ Flowing(connection[c].parser, delivered[c], held \o stream[c])
    BY <2>1 DEF SoundInv, ConnectionSound
  <2>3. n \in Nat /\ Len(sent'[c]) = n + 1 /\ sent'[c] \in Seq(Messages)
    BY <2>1, <2>2
  <2>4. held \in Seq(Pieces(n)) /\ connection[c].parser \in Parsers(n)
    BY <2>2, <2>3, SoundLinkTypes, HeldElements, LinkTypes
  <2> HIDE DEF n, held
  <2>5. stream'[c] \in Seq(Pieces(n + 1))
    BY <2>1, <2>2, <2>3, SendFlows
  <2>6. held \o stream'[c] = (held \o stream[c]) \o Stamped(m, n + 1)
    <3>1. held \o (stream[c] \o Stamped(m, n + 1)) = (held \o stream[c]) \o Stamped(m, n + 1)
      BY <2>2, <2>3, <2>4, StampedInOrder
    <3> QED
      BY <2>1, <2>3, <3>1
  <2>7. Flowing(connection[c].parser, delivered[c], held \o stream'[c])
    <3>1. held \o stream[c] \in Seq(Pieces(n))
      BY <2>2, <2>4
    <3> QED
      BY <2>2, <2>3, <2>4, <2>6, <3>1, MoreFlows
  <2>8. delivered[c] \in Seq(Message(0 .. n + 1)) /\ connection[c] \in SoundLinks(n + 1)
    <3>1. n + 1 \in Nat /\ n <= n + 1
      BY <2>3
    <3> QED
      BY <2>2, <2>3, <3>1, StampsGrow
  <2>9. ConnectionSound(c)'
    BY <2>1, <2>3, <2>5, <2>7, <2>8 DEF ConnectionSound, held
  <2> QED
    BY <1>1, <2>1, <2>9, OthersStaySound
<1>5. ASSUME NEW c \in Connections, NEW count, OnTcpRecv(c, count) PROVE SoundInv'
  <2> DEFINE n == Len(sent[c])
  <2>1. /\ OthersRest(c) /\ running /\ connection[c].status = "open"
        /\ count \in 1 .. Len(stream[c]) /\ count <= ReadSize /\ sent'[c] = sent[c]
        /\ stream'[c] = SubSeq(stream[c], count + 1, Len(stream[c]))
        /\ cuts'[c] = cuts[c] \cup CutBefore(c, stream'[c])
        /\ \E remains \in Leftovers :
             LET state == Received(connection[c], stream[c], count, running, delivered[c], remains)
             IN /\ connection'[c] = state.link /\ running' = state.running
                /\ delivered'[c] = state.delivered
    BY <1>1, <1>5, RecvSteps
  <2>2. PICK remains \in Leftovers :
          LET state == Received(connection[c], stream[c], count, running, delivered[c], remains)
          IN /\ connection'[c] = state.link /\ running' = state.running
             /\ delivered'[c] = state.delivered
    BY <2>1
  <2> DEFINE state == Received(connection[c], stream[c], count, running, delivered[c], remains)
  <2>3. /\ sent[c] \in Seq(Messages) /\ stream[c] \in Seq(Pieces(n))
        /\ delivered[c] \in Seq(Message(0 .. n)) /\ connection[c] \in SoundLinks(n)
        /\ Flowing(connection[c].parser, delivered[c], Held(connection[c]) \o stream[c])
    BY <2>1 DEF SoundInv, ConnectionSound
  <2>4. n \in Nat
    BY <2>3
  <2>5. /\ state \in LoopStates(n) /\ state.link.status = connection[c].status
        /\ Flowing(state.link.parser, state.delivered, Held(state.link) \o stream'[c])
    <3> DEFINE link == connection[c]
               flow == stream[c]
               messages == delivered[c]
               live == running
               after == Received(link, flow, count, live, messages, remains)
    <3>1. /\ link \in SoundLinks(n) /\ flow \in Seq(Pieces(n)) /\ messages \in Seq(Message(0 .. n))
          /\ Flowing(link.parser, messages, Held(link) \o flow) /\ live \in BOOLEAN
          /\ count \in 1 .. Len(flow) /\ count <= ReadSize
      BY <1>1, <2>1, <2>3
    <3> HIDE DEF n, link, flow, messages, live
    <3>2. /\ after \in LoopStates(n) /\ after.link.status = link.status
          /\ Flowing(after.link.parser, after.delivered,
                     Held(after.link) \o SubSeq(flow, count + 1, Len(flow)))
      <4> HIDE DEF after
      <4> QED
        BY <2>4, <3>1, ReceiveFlows DEF after
    <3>3. after = state /\ link = connection[c] /\ stream'[c] = SubSeq(flow, count + 1, Len(flow))
      BY <2>1 DEF link, flow, messages, live
    <3> HIDE DEF after
    <3> QED
      BY <3>2, <3>3
  <2>6. /\ connection'[c] = state.link /\ running' = state.running
        /\ delivered'[c] = state.delivered
    BY <2>2
  <2> HIDE DEF state, n
  <2>7. /\ state.link \in SoundLinks(n) /\ state.running \in BOOLEAN
        /\ state.delivered \in Seq(Message(0 .. n))
    BY <2>4, <2>5, LoopStateTypes
  <2>8. stream'[c] \in Seq(Pieces(n))
    <3>1. count \in 0 .. Len(stream[c])
      BY <2>1
    <3> QED
      BY <2>1, <2>3, <3>1, TailElements
  <2>9. ConnectionSound(c)'
    BY <2>1, <2>3, <2>5, <2>6, <2>7, <2>8 DEF ConnectionSound, n
  <2> QED
    BY <1>1, <2>1, <2>6, <2>7, <2>9, OthersStaySound
<1>6. CASE UNCHANGED vars
  BY <1>6 DEF vars, SoundInv, ForEach, ConnectionSound
<1> QED
  BY <1>2, <1>3, <1>4, <1>5, <1>6 DEF Next

LEMMA SoundAlways == Spec => []SoundInv
<1> QED
  BY SoundInit, SoundStep, PTL DEF Spec

\* What a call through a null logger does is settled by the build.
LEMMA BuildSettled == Spec => [](logEnds \in BOOLEAN)
<1>1. Init => logEnds \in BOOLEAN
  BY DEF Init
<1>2. logEnds \in BOOLEAN /\ [Next]_vars => (logEnds \in BOOLEAN)'
  BY DEF Next, vars
<1> QED
  BY <1>1, <1>2, PTL DEF Spec

LEMMA SoundIsTyped == SoundInv /\ logEnds \in BOOLEAN => TypeOK
<1> SUFFICES ASSUME SoundInv, logEnds \in BOOLEAN PROVE TypeOK
  OBVIOUS
<1>1. ASSUME NEW c \in Connections
      PROVE  LET stamps == 0 .. Len(sent[c])
             IN /\ connection[c].status # "none" =>
                     /\ connection[c] \in
                          [status : {"open", "closed"},
                           memory : [0 .. Capacity -> [unit : Unit, number : stamps]],
                           start : 0 .. Capacity + 1, end : 0 .. Capacity + 1,
                           pendingMessageBytes : Nat, parser : {connection[c].parser}]
                     /\ ParserTypeOK(connection[c].parser, stamps)
                /\ stream[c] \in Chunk(stamps)
                /\ delivered[c] \in Seq(Message(stamps))
                /\ sent[c] \in Seq(Messages)
  <2> DEFINE n == Len(sent[c])
  <2>1. ConnectionSound(c) /\ Chunk(0 .. n) = Seq(Pieces(n))
    BY DEF SoundInv, Chunk, Pieces
  <2>2. ASSUME connection[c].status # "none"
        PROVE  connection[c] \in Links(n) /\ connection[c].parser \in Parsers(n)
    BY <2>1, <2>2 DEF ConnectionSound, SoundLinks, FitLinks, Links
  <2>3. ASSUME connection[c].status # "none" PROVE ParserTypeOK(connection[c].parser, 0 .. n)
    BY <2>2, <2>3 DEF Parsers, ParserTypeOK
  <2>4. ASSUME connection[c].status # "none"
        PROVE  connection[c] \in
                 [status : {"open", "closed"},
                  memory : [0 .. Capacity -> [unit : Unit, number : 0 .. n]],
                  start : 0 .. Capacity + 1, end : 0 .. Capacity + 1,
                  pendingMessageBytes : Nat, parser : {connection[c].parser}]
    BY <2>2, <2>4 DEF Links, Pieces
  <2> QED
    BY <2>1, <2>3, <2>4 DEF ConnectionSound
<1> QED
  BY <1>1 DEF SoundInv, TypeOK

\* However often a ring's data goes round, its two positions stay within its memory, no
\* more is stored than fits, and every variable keeps its type (pushBytes, pullTo,
\* pullBytes, onTcpRecv and loadMessageData).
THEOREM TcpTypes == Spec => []TypeOK
<1> QED
  BY SoundAlways, BuildSettled, SoundIsTyped, PTL

\* A request is delivered once at most, and never after a later one of its connection:
\* also where headers are cut, segments find no room, and blank lines that lie in the
\* ring from earlier messages are found again (onTcpRecv's loop of pulls).
THEOREM TcpDeliversOnceInOrder == Spec => []DeliveredOnceInOrder
<1>1. SoundInv => DeliveredOnceInOrder
  <2> SUFFICES ASSUME SoundInv, NEW c \in Connections PROVE InOrder(delivered[c])
    BY DEF DeliveredOnceInOrder
  <2>1. ConnectionSound(c)
    BY DEF SoundInv
  <2>2. CASE connection[c].status = "none"
    BY <2>1, <2>2 DEF ConnectionSound, InOrder
  <2>3. CASE connection[c].status # "none"
    BY <2>1, <2>3 DEF ConnectionSound, Flowing, Ordered
  <2> QED
    BY <2>2, <2>3
<1> QED
  BY <1>1, SoundAlways, PTL

-----------------------------------------------------------------------------
(* Where a header is too long *)

LEMMA UnstampedStored ==
  ASSUME NEW n \in Nat, NEW link \in FitLinks(n)
  PROVE  LET stored == Ring(Unstamped(link.memory), link.start, link.end)!Stored
         IN /\ Len(stored) = Count(link)
            /\ \A k \in 1 .. Count(link) : stored[k] = Held(link)[k].unit
<1> DEFINE stored == Ring(Unstamped(link.memory), link.start, link.end)!Stored
<1>1. Count(link) \in 0 .. Capacity /\ Capacity \in Nat /\ DOMAIN link.memory = 0 .. Capacity
  BY LinkTypes
<1>2. stored = [i \in 1 .. Count(link) |-> Unstamped(link.memory)[Place(link, i - 1)]]
  BY DEF Ring!Stored, Ring!FirstBytes, Ring!StoredByteCount, Ring!SlotAt, Ring!size, Count, Place
<1> HIDE DEF stored
<1>3. Len(stored) = Count(link)
  <2>1. DOMAIN stored = 1 .. Count(link) /\ Count(link) \in Nat
    BY <1>1, <1>2
  <2>2. stored \in [1 .. Count(link) -> {stored[i] : i \in 1 .. Count(link)}]
    BY <1>2
  <2> QED
    BY <2>1, <2>2, FunctionIsSeq
<1>4. ASSUME NEW k \in 1 .. Count(link) PROVE stored[k] = Held(link)[k].unit
  <2>1. k - 1 \in 0 .. Capacity /\ Place(link, k - 1) \in 0 .. Capacity
    BY <1>1, HeldPlaces, LinkTypes
  <2>2. Unstamped(link.memory)[Place(link, k - 1)] = link.memory[Place(link, k - 1)].unit
    BY <1>1, <2>1 DEF Unstamped
  <2> QED
    BY <1>2, <2>2, HeldElements
<1> QED
  BY <1>3, <1>4 DEF stored

\* HeaderTooLong, said of what the link holds.
Long(link) ==
  /\ link.pendingMessageBytes = 0 /\ BufSize - 1 <= Count(link)
  /\ \A k \in 1 .. BufSize - 1 : ~ EndAt(Held(link), k)

LEMMA LongIsTooLong ==
  ASSUME NEW n \in Nat, NEW link \in FitLinks(n)
  PROVE  LET stored == Ring(Unstamped(link.memory), link.start, link.end)!Stored
         IN Long(link) <=>
              /\ link.pendingMessageBytes = 0 /\ Len(stored) >= BufSize - 1
              /\ \A k \in 1 .. BufSize - 1 : stored[k].kind # "end"
<1> DEFINE stored == Ring(Unstamped(link.memory), link.start, link.end)!Stored
<1>1. /\ Len(stored) = Count(link) /\ Count(link) \in Nat /\ BufSize \in Nat \ {0}
      /\ \A k \in 1 .. Count(link) : stored[k] = Held(link)[k].unit
  BY UnstampedStored, LinkTypes, SizesAssumption
<1> HIDE DEF stored
<1>2. BufSize - 1 <= Count(link) =>
        \A k \in 1 .. BufSize - 1 : stored[k].kind # "end" <=> ~ EndAt(Held(link), k)
  BY <1>1 DEF EndAt
<1> QED
  BY <1>1, <1>2 DEF Long, stored

\* What is pushed comes behind what is held, and the pull that follows returns nothing.
LEMMA LongStaysLong ==
  ASSUME NEW n \in Nat, NEW link \in SoundLinks(n), Long(link), NEW flow \in Seq(Pieces(n)),
         NEW count \in 1 .. Len(flow), NEW live \in BOOLEAN, NEW messages \in Seq(Message(0 .. n)),
         NEW remains \in Leftovers
  PROVE  LET state == Received(link, flow, count, live, messages, remains)
         IN Long(state.link) /\ state.delivered = messages
<1> DEFINE bytes == SubSeq(flow, 1, count)
           more == Push(link, bytes)
           first == [link |-> more, running |-> live, delivered |-> messages]
           held == Held(link)
<1>1. count \in 0 .. Len(flow) /\ count \in Nat
  OBVIOUS
<1>2. /\ first \in LoopStates(n) /\ first.link = more /\ first.delivered = messages
      /\ more.pendingMessageBytes = link.pendingMessageBytes
      /\ Held(more) = IF count <= Capacity - Count(link) THEN held \o bytes ELSE held
  BY <1>1, FirstState
<1>3. more \in FitLinks(n) /\ link \in FitLinks(n) /\ BufSize \in Nat \ {0}
  BY <1>2, LoopStateTypes, SoundLinkTypes, SizesAssumption
<1>4. held \in Seq(Pieces(n)) /\ bytes \in Seq(Pieces(n)) /\ Len(held) = Count(link)
      /\ Len(Held(more)) = Count(more) /\ Count(link) \in Nat
  BY <1>1, <1>3, HeldElements, FrontElements, LinkTypes
<1>5. PICK added \in Seq(Pieces(n)) : Held(more) = held \o added
  <2>1. held \o <<>> = held /\ <<>> \in Seq(Pieces(n))
    BY <1>4
  <2> HIDE DEF more, bytes, held
  <2> QED
    BY <1>2, <1>4, <2>1
<1> HIDE DEF more, bytes, held
<1>6. /\ Len(held \o added) = Len(held) + Len(added) /\ Len(added) \in Nat
      /\ \A k \in 1 .. Len(held) : (held \o added)[k] = held[k]
  BY <1>4
<1>7. Long(more)
  <2>1. BufSize - 1 <= Count(link) /\ BufSize - 1 <= Count(more)
    BY <1>3, <1>4, <1>5, <1>6 DEF Long
  <2>2. ASSUME NEW k \in 1 .. BufSize - 1 PROVE ~ EndAt(Held(more), k)
    <3>1. k \in 1 .. Len(held)
      BY <1>3, <1>4, <2>1
    <3>2. Held(more)[k] = held[k]
      BY <1>5, <1>6, <3>1
    <3> QED
      BY <3>2 DEF Long, EndAt, held
  <2> QED
    BY <1>2, <2>1, <2>2 DEF Long
<1>8. PullCount(more) = 0
  BY <1>3, <1>7, PullCounts DEF Long
<1>9. PulledOnce(first, remains) = first
  BY <1>2, <1>8, RoundForm
<1>10. Drained(first, remains) = first
  <2> DEFINE V == {first}
  <2>1. V \subseteq LoopStates(n) /\ first \in V /\ \A s \in V : PulledOnce(s, remains) \in V
    BY <1>2, <1>9
  <2>2. \A t : t \in V => t = first
    OBVIOUS
  <2> HIDE DEF V, first
  <2>3. Drained(first, remains) \in V
    BY <2>1, DrainedEnds
  <2> QED
    BY <2>2, <2>3
<1>11. Received(link, flow, count, live, messages, remains) = Drained(first, remains)
  BY DEF Received, more, bytes
<1> QED
  BY <1>2, <1>7, <1>10, <1>11

LEMMA TooLongStep ==
  ASSUME SoundInv, SoundInv', [Next]_vars, NEW d \in Connections, HeaderTooLong(d)
  PROVE  HeaderTooLong(d)' /\ delivered'[d] = delivered[d]
<1>1. ForEach /\ running \in BOOLEAN /\ ConnectionSound(d) /\ ConnectionSound(d)'
      /\ connection[d].status # "none"
  BY DEF SoundInv, HeaderTooLong
<1> DEFINE n == Len(sent[d])
           link == connection[d]
<1>2. /\ link \in SoundLinks(n) /\ stream[d] \in Seq(Pieces(n)) /\ n \in Nat
      /\ delivered[d] \in Seq(Message(0 .. n))
  BY <1>1 DEF ConnectionSound
<1>3. Long(link)
  <2>1. link \in FitLinks(n)
    BY <1>2, SoundLinkTypes
  <2> HIDE DEF n
  <2> QED
    BY <1>2, <2>1, LongIsTooLong DEF HeaderTooLong
<1>4. PICK after : after = connection'[d]
  OBVIOUS
<1>5. SUFFICES after.status # "none" /\ Long(after) /\ delivered'[d] = delivered[d]
  <2> DEFINE k == Len(sent'[d])
  <2>1. k \in Nat /\ after \in FitLinks(k)
    BY <1>1, <1>4, <1>5, SoundLinkTypes DEF ConnectionSound
  <2> HIDE DEF k
  <2>2. LET stored == Ring(Unstamped(after.memory), after.start, after.end)!Stored
        IN /\ after.pendingMessageBytes = 0 /\ Len(stored) >= BufSize - 1
           /\ \A i \in 1 .. BufSize - 1 : stored[i].kind # "end"
    BY <1>5, <2>1, LongIsTooLong
  <2>3. HeaderTooLong(d)'
    BY <1>4, <1>5, <2>2 DEF HeaderTooLong
  <2> QED
    BY <1>5, <2>3
<1>6. CASE connection'[d] = link /\ delivered'[d] = delivered[d]
  BY <1>1, <1>3, <1>4, <1>6
<1>7. ASSUME NEW c \in Connections, OthersRest(c), d # c
      PROVE  connection'[d] = link /\ delivered'[d] = delivered[d]
  BY <1>7 DEF OthersRest, Resting
<1>8. ASSUME NEW c \in Connections, OnTcpConnection(c)
      PROVE  connection'[d] = link /\ delivered'[d] = delivered[d]
  <2>1. OthersRest(c) /\ d # c
    BY <1>1, <1>8, NewSteps
  <2> QED
    BY <1>7, <2>1
<1>9. ASSUME NEW c \in Connections, OnTcpEnd(c)
      PROVE  after.status # "none" /\ Long(after) /\ delivered'[d] = delivered[d]
  <2>1. OthersRest(c) /\ connection'[c] = [connection[c] EXCEPT !.status = "closed"]
        /\ delivered'[c] = delivered[c]
    BY <1>1, <1>9, EndSteps
  <2>2. CASE d # c
    BY <1>6, <1>7, <2>1, <2>2
  <2>3. CASE d = c
    <3> DEFINE shut == [link EXCEPT !.status = "closed"]
    <3>1. /\ shut.memory = link.memory /\ shut.start = link.start
          /\ shut.end = link.end /\ shut.status = "closed"
          /\ shut.pendingMessageBytes = link.pendingMessageBytes
      BY <1>2 DEF SoundLinks, FitLinks, Links
    <3> HIDE DEF shut
    <3>2. Count(shut) = Count(link) /\ Held(shut) = Held(link)
      BY <3>1 DEF Count, Held
    <3>3. Long(shut) /\ shut.status # "none"
      BY <1>3, <3>1, <3>2 DEF Long
    <3> QED
      BY <1>4, <2>1, <2>3, <3>3 DEF shut
  <2> QED
    BY <2>2, <2>3
<1>10. ASSUME NEW c \in Connections, NEW m \in Messages, PeerSends(c, m)
      PROVE  connection'[d] = link /\ delivered'[d] = delivered[d]
  <2>1. OthersRest(c) /\ connection'[c] = connection[c] /\ delivered'[c] = delivered[c]
    BY <1>1, <1>10, SendSteps
  <2> QED
    BY <1>7, <2>1
<1>11. ASSUME NEW c \in Connections, NEW count, OnTcpRecv(c, count)
       PROVE  after.status # "none" /\ Long(after) /\ delivered'[d] = delivered[d]
  <2>1. /\ OthersRest(c) /\ count \in 1 .. Len(stream[c])
        /\ \E remains \in Leftovers :
             LET state == Received(connection[c], stream[c], count, running, delivered[c], remains)
             IN connection'[c] = state.link /\ delivered'[c] = state.delivered
    BY <1>1, <1>11, RecvSteps
  <2>2. CASE d # c
    BY <1>6, <1>7, <2>1, <2>2
  <2>3. CASE d = c
    <3>1. PICK remains \in Leftovers :
            LET state == Received(link, stream[d], count, running, delivered[d], remains)
            IN connection'[d] = state.link /\ delivered'[d] = state.delivered
      BY <2>1, <2>3
    <3> DEFINE flow == stream[d]
               messages == delivered[d]
               live == running
               state == Received(link, flow, count, live, messages, remains)
    <3>2. /\ flow \in Seq(Pieces(n)) /\ messages \in Seq(Message(0 .. n)) /\ live \in BOOLEAN
          /\ count \in 1 .. Len(flow) /\ connection'[d] = state.link
          /\ delivered'[d] = state.delivered
          /\ Flowing(link.parser, messages, Held(link) \o flow)
          /\ messages = delivered[d]
      BY <1>1, <1>2, <2>1, <2>3, <3>1 DEF ConnectionSound
    <3> HIDE DEF flow, messages, live, n, link
    <3>3. Long(state.link) /\ state.delivered = messages
      <4> HIDE DEF state
      <4> QED
        BY <1>2, <1>3, <3>2, LongStaysLong DEF state
    <3>4. state.link.status = link.status
      <4> HIDE DEF state
      <4>1. state = Received(link, flow, count, live, messages, remains)
        BY DEF state
      <4> QED
        BY <1>2, <3>2, <4>1, ReceiveFlows
    <3> QED
      BY <1>1, <1>4, <3>2, <3>3, <3>4 DEF link
  <2> QED
    BY <2>2, <2>3
<1>12. CASE UNCHANGED vars
  BY <1>6, <1>12 DEF vars
<1> QED
  BY <1>6, <1>8, <1>9, <1>10, <1>11, <1>12 DEF Next

\* Once the first BufSize - 1 bytes held have no blank line, the search for the end of
\* the header is given up for ever, and nothing more that the peer sends is delivered
\* (pullTo's bound, where onTcpRecv's next reads still push).
THEOREM LongHeaderStaysTheLast == Spec => LongHeaderIsTheLast
<1>1. SoundInv /\ SoundInv' /\ [Next]_vars =>
        [\A c \in Connections :
           HeaderTooLong(c) => HeaderTooLong(c)' /\ delivered'[c] = delivered[c]]_vars
  BY TooLongStep
<1> QED
  BY <1>1, SoundAlways, PTL DEF Spec, LongHeaderIsTheLast

-----------------------------------------------------------------------------
(* The messages, and where in them a stream stands *)

LEMMA MessageFacts ==
  ASSUME NEW m \in Messages
  PROVE  /\ m \in Seq(Unit) /\ DOMAIN m = 1 .. Len(m) /\ Len(m) \in Nat \ {0} /\ Headed(m)
         /\ HeaderLength(m) \in 1 .. Len(m) /\ m[HeaderLength(m)].kind = "end"
         /\ \A i \in 1 .. HeaderLength(m) - 1 : m[i].kind # "end"
         /\ m[1].kind = "header" /\ m[1].request \in Request
         /\ m[1].request.contentLength \in Nat /\ m[1].request.contentLength <= BufSize
         /\ WellFormed(m) =>
              /\ m[1].request.contentLength = Len(m) - HeaderLength(m) /\ HeaderLength(m) < BufSize
              /\ HeaderLength(m) < Len(m) => m[1].request.method \in BuiltMethods
<1> DEFINE ends == {i \in DOMAIN m : m[i].kind = "end"}
           h == HeaderLength(m)
<1>1. /\ m \in Seq(Unit) /\ Headed(m) /\ ends # {} /\ m[1].request.contentLength <= BufSize
  BY MessagesAssumption
<1>2. DOMAIN m = 1 .. Len(m) /\ Len(m) \in Nat \ {0} /\ m[1].kind = "header" /\ m[1] \in Unit
  <2>1. DOMAIN m = 1 .. Len(m) /\ Len(m) \in Nat /\ (m # <<>> => Len(m) # 0)
    BY <1>1, EmptySeq
  <2>2. m # <<>> /\ m[1].kind = "header"
    BY <1>1 DEF Headed
  <2>3. 1 \in DOMAIN m
    BY <2>1, <2>2
  <2> QED
    BY <1>1, <2>1, <2>2, <2>3, ElementType
<1>3. m[1].request \in Request /\ m[1].request.contentLength \in Nat
  <2>1. m[1] \in [kind : {"header"}, request : Request]
    BY <1>2 DEF Unit
  <2> QED
    BY <2>1 DEF Request
<1>4. h \in ends /\ \A i \in ends : h <= i
  <2> DEFINE S == ends \cup {Len(m)}
  <2>1. S \subseteq Nat /\ S # {}
    BY <1>2
  <2>2. \E x \in S : \A y \in S : x <= y
    <3> HIDE DEF S
    <3> QED
      BY <2>1, LeastExists
  <2>3. h = CHOOSE x \in S : \A y \in S : x <= y
    BY DEF HeaderLength, Min
  <2> HIDE DEF h
  <2>4. h \in S /\ \A y \in S : h <= y
    BY <2>2, <2>3
  <2>5. PICK e \in ends : TRUE
    BY <1>1
  <2>6. h = Len(m) => e = h
    <3> DEFINE l == Len(m)
    <3>1. e \in 1 .. l /\ l \in Nat /\ h <= e
      BY <1>2, <2>4, <2>5
    <3> HIDE DEF l
    <3>2. h = l => e = h
      BY <3>1
    <3> QED
      BY <3>2 DEF l
  <2> QED
    BY <2>4, <2>5, <2>6
<1>5. h \in 1 .. Len(m) /\ m[h].kind = "end"
  BY <1>2, <1>4
<1>6. \A i \in 1 .. h - 1 : m[i].kind # "end"
  <2> HIDE DEF h
  <2> SUFFICES ASSUME NEW i \in 1 .. h - 1, m[i].kind = "end" PROVE FALSE
    OBVIOUS
  <2>1. i \in 1 .. Len(m) /\ i < h /\ h \in Nat
    BY <1>2, <1>5
  <2>2. i \in ends
    BY <1>2, <2>1
  <2> QED
    BY <1>4, <2>1, <2>2
<1>7. Len(Body(m)) = Len(m) - h /\ (h < Len(m) => Body(m) # <<>>)
  <2>1. Body(m) = SubSeq(m, h + 1, Len(m))
    BY DEF Body
  <2> HIDE DEF h
  <2>2. h \in 0 .. Len(m)
    BY <1>5
  <2>3. Len(SubSeq(m, h + 1, Len(m))) = Len(m) - h
    BY <1>1, <2>2, TailElements
  <2> DEFINE b == Body(m)
             l == Len(m)
  <2>4. Len(b) = l - h
    BY <2>1, <2>3
  <2>5. h \in 1 .. l /\ l \in Nat
    BY <1>2, <1>5
  <2> HIDE DEF b, l
  <2>6. b = <<>> => Len(b) = 0
    OBVIOUS
  <2>7. Len(b) = l - h /\ (h < l => b # <<>>)
    BY <2>4, <2>5, <2>6
  <2> QED
    BY <2>7 DEF b, l
<1>8. WellFormed(m) => /\ m[1].request.contentLength = Len(m) - h /\ h < BufSize
                       /\ h < Len(m) => m[1].request.method \in BuiltMethods
  BY <1>7 DEF WellFormed
<1> QED
  BY <1>1, <1>2, <1>3, <1>5, <1>6, <1>8

\* The units of a flow stand at these places of the messages: in turn, each message to
\* its end, and every later one from its start.
Placed(flow, place, messages) ==
  /\ place \in [DOMAIN flow -> Nat]
  /\ \A i \in DOMAIN flow :
       /\ flow[i].number \in DOMAIN messages /\ place[i] \in DOMAIN messages[flow[i].number]
       /\ flow[i].unit = messages[flow[i].number][place[i]]
  /\ \A i, j \in DOMAIN flow : i <= j =>
       /\ flow[i].number <= flow[j].number
       /\ flow[i].number = flow[j].number => place[j] - place[i] = j - i
  /\ \A i \in DOMAIN flow : \A k \in place[i] .. Len(messages[flow[i].number]) :
       \E j \in DOMAIN flow : flow[j].number = flow[i].number /\ place[j] = k /\ j >= i
  /\ \A i \in DOMAIN flow : \A k \in DOMAIN messages :
       flow[i].number < k => \E j \in DOMAIN flow : flow[j].number = k /\ place[j] = 1

\* The message that comes next, or that has begun.
NextOf(flow, messages) == IF flow = <<>> THEN Len(messages) + 1 ELSE flow[1].number

\* How much of the first message is still there.
Left(flow, place, messages) == Len(messages[flow[1].number]) - place[1] + 1

LEMMA FirstRun ==
  ASSUME NEW messages \in Seq(Messages), NEW flow \in Seq(Pieces(Len(messages))), NEW place,
         Placed(flow, place, messages), flow # <<>>
  PROVE  LET n == flow[1].number
             K == Left(flow, place, messages)
         IN /\ n \in DOMAIN messages /\ messages[n] \in Messages
            /\ place[1] \in 1 .. Len(messages[n]) /\ K \in 1 .. Len(flow)
            /\ K = Len(messages[n]) - place[1] + 1
            /\ \A i \in DOMAIN flow : flow[i].number = n <=> i <= K
            /\ \A i \in 1 .. K : place[i] = place[1] + (i - 1)
            /\ K < Len(flow) => flow[K + 1].number = n + 1 /\ place[K + 1] = 1
            /\ K = Len(flow) => n = Len(messages)
<1> DEFINE n == flow[1].number
           K == Left(flow, place, messages)
           m == messages[n]
           r == place[1]
<1>1. /\ DOMAIN flow = 1 .. Len(flow) /\ Len(flow) \in Nat \ {0} /\ 1 \in DOMAIN flow
      /\ DOMAIN messages = 1 .. Len(messages) /\ Len(messages) \in Nat
  BY EmptySeq
<1>2. n \in 1 .. Len(messages) /\ m \in Messages /\ r \in DOMAIN m
  BY <1>1, ElementType DEF Placed
<1>3. DOMAIN m = 1 .. Len(m) /\ Len(m) \in Nat
  <2> HIDE DEF m
  <2> QED
    BY <1>2, MessageFacts
<1>4. \A i \in DOMAIN flow : /\ n <= flow[i].number /\ flow[i].number \in 1 .. Len(messages)
                             /\ flow[i].number = n => place[i] - r = i - 1
  BY <1>1 DEF Placed
<1>5. \A i \in DOMAIN flow : place[i] \in Nat /\ (flow[i].number = n => place[i] \in 1 .. Len(m))
  BY <1>1, <1>3 DEF Placed
<1>6. K = Len(m) - r + 1
  BY DEF Left
<1>7. \A k \in r .. Len(m) : \E j \in DOMAIN flow : flow[j].number = n /\ place[j] = k
  <2>1. \A i \in DOMAIN flow : \A k \in place[i] .. Len(messages[flow[i].number]) :
          \E j \in DOMAIN flow : flow[j].number = flow[i].number /\ place[j] = k /\ j >= i
    BY DEF Placed
  <2>2. \A k \in place[1] .. Len(messages[flow[1].number]) :
          \E j \in DOMAIN flow : flow[j].number = flow[1].number /\ place[j] = k /\ j >= 1
    BY <1>1, <2>1
  <2> QED
    BY <2>2
<1>8. \A k \in 1 .. Len(messages) : n < k =>
        \E j \in DOMAIN flow : flow[j].number = k /\ place[j] = 1
  <2>1. \A i \in DOMAIN flow : \A k \in DOMAIN messages : flow[i].number < k =>
          \E j \in DOMAIN flow : flow[j].number = k /\ place[j] = 1
    BY DEF Placed
  <2>2. \A k \in DOMAIN messages : n < k =>
          \E j \in DOMAIN flow : flow[j].number = k /\ place[j] = 1
    BY <1>1, <2>1
  <2> QED
    BY <1>1, <2>2
<1>9. \A i, j \in DOMAIN flow : i <= j =>
        flow[i].number <= flow[j].number
        /\ (flow[i].number = flow[j].number => place[j] - place[i] = j - i)
  BY DEF Placed
<1> HIDE DEF n, m, r, K
<1>10. K \in Nat \ {0} /\ r \in 1 .. Len(m)
  BY <1>2, <1>3, <1>6
<1>11. \A i \in 1 .. K : i \in DOMAIN flow /\ flow[i].number = n /\ place[i] = r + (i - 1)
  <2> SUFFICES ASSUME NEW i \in 1 .. K
               PROVE  i \in DOMAIN flow /\ flow[i].number = n /\ place[i] = r + (i - 1)
    OBVIOUS
  <2>1. r + (i - 1) \in r .. Len(m)
    BY <1>3, <1>6, <1>10
  <2>2. PICK j \in DOMAIN flow : flow[j].number = n /\ place[j] = r + (i - 1)
    BY <1>7, <2>1
  <2>3. j = i
    BY <1>1, <1>4, <1>5, <1>10, <2>2
  <2> QED
    BY <2>2, <2>3
<1>12. \A i \in DOMAIN flow : flow[i].number = n => i <= K
  BY <1>1, <1>3, <1>4, <1>5, <1>6, <1>10
<1>13. K \in 1 .. Len(flow)
  BY <1>1, <1>10, <1>11
<1>14. \A i \in DOMAIN flow : flow[i].number = n <=> i <= K
  BY <1>1, <1>10, <1>11, <1>12
<1>15. ASSUME K < Len(flow) PROVE flow[K + 1].number = n + 1 /\ place[K + 1] = 1
  <2> DEFINE x == K + 1
  <2>1. x \in DOMAIN flow /\ ~ (x <= K) /\ x \in Nat
    BY <1>1, <1>13, <1>15
  <2> HIDE DEF x
  <2>2. n < flow[x].number /\ flow[x].number \in 1 .. Len(messages)
    BY <1>2, <1>4, <1>14, <2>1
  <2>3. n + 1 \in 1 .. Len(messages) /\ n < n + 1
    BY <1>2, <2>2
  <2>4. PICK j \in DOMAIN flow : flow[j].number = n + 1 /\ place[j] = 1
    BY <1>8, <2>3
  <2>5. ~ (j <= K) /\ j \in Nat
    BY <1>1, <1>2, <1>14, <2>4
  <2>6. x <= j
    BY <1>13, <2>5 DEF x
  <2>7. flow[x].number = n + 1
    BY <1>2, <1>9, <2>1, <2>2, <2>4, <2>6
  <2>8. place[j] - place[x] = j - x /\ place[x] \in 1 .. Len(messages[n + 1])
    <3>1. place[x] \in DOMAIN messages[n + 1]
      BY <2>1, <2>7 DEF Placed
    <3>2. messages[n + 1] \in Messages
      BY <2>3, ElementType
    <3>3. DOMAIN messages[n + 1] = 1 .. Len(messages[n + 1])
      BY <3>2, MessageFacts
    <3> QED
      BY <1>9, <2>1, <2>4, <2>6, <2>7, <3>1, <3>3
  <2>9. place[x] = 1
    BY <2>1, <2>4, <2>5, <2>6, <2>8
  <2> QED
    BY <2>7, <2>9 DEF x
<1>16. ASSUME K = Len(flow) PROVE n = Len(messages)
  <2> SUFFICES ASSUME n # Len(messages) PROVE FALSE
    OBVIOUS
  <2> DEFINE l == Len(messages)
  <2>1. n \in 1 .. l /\ n # l /\ l \in Nat
    BY <1>1, <1>2
  <2> HIDE DEF l
  <2>2. l \in 1 .. l /\ n < l
    BY <2>1
  <2>3. PICK j \in DOMAIN flow : flow[j].number = l
    BY <1>8, <2>2 DEF l
  <2>4. j <= K
    BY <1>1, <1>16
  <2> QED
    BY <1>14, <2>1, <2>3, <2>4
<1> QED
  BY <1>1, <1>2, <1>6, <1>10, <1>11, <1>13, <1>14, <1>15, <1>16 DEF n, m, r, K

\* Where what is left of a flow stands.
Shift(place, k, last) == [i \in 1 .. last - k |-> place[k + i]]

LEMMA TailPlaced ==
  ASSUME NEW messages \in Seq(Messages), NEW flow \in Seq(Pieces(Len(messages))), NEW place,
         Placed(flow, place, messages), NEW k \in 0 .. Len(flow)
  PROVE  Placed(SubSeq(flow, k + 1, Len(flow)), Shift(place, k, Len(flow)), messages)
<1> DEFINE left == SubSeq(flow, k + 1, Len(flow))
           after == Shift(place, k, Len(flow))
           last == Len(flow)
<1>1. /\ DOMAIN left = 1 .. last - k /\ DOMAIN flow = 1 .. last /\ last \in Nat /\ k \in 0 .. last
      /\ \A i \in 1 .. last - k : left[i] = flow[k + i]
  BY TailElements
<1>2. \A i \in 1 .. last - k : after[i] = place[k + i]
  BY DEF Shift
<1>3. after \in [DOMAIN left -> Nat]
  <2>1. \A i \in 1 .. last - k : k + i \in 1 .. last
    BY <1>1
  <2>2. \A i \in 1 .. last - k : place[k + i] \in Nat
    BY <1>1, <2>1 DEF Placed
  <2> QED
    BY <1>1, <2>2 DEF Shift
<1> HIDE DEF left, after, last
<1>4. \A i \in DOMAIN left : /\ k + i \in DOMAIN flow /\ i \in Nat /\ i >= 1
                             /\ left[i] = flow[k + i] /\ after[i] = place[k + i]
  BY <1>1, <1>2
<1>5. \A j \in DOMAIN flow : k < j =>
        j - k \in DOMAIN left /\ left[j - k] = flow[j] /\ after[j - k] = place[j]
  <2> SUFFICES ASSUME NEW j \in DOMAIN flow, k < j
               PROVE  j - k \in DOMAIN left /\ left[j - k] = flow[j] /\ after[j - k] = place[j]
    OBVIOUS
  <2>1. j - k \in DOMAIN left /\ k + (j - k) = j
    BY <1>1
  <2> QED
    BY <1>4, <2>1
<1>6. \A i \in DOMAIN left :
        /\ left[i].number \in DOMAIN messages /\ after[i] \in DOMAIN messages[left[i].number]
        /\ left[i].unit = messages[left[i].number][after[i]]
  BY <1>4 DEF Placed
<1>7. \A i, j \in DOMAIN left : i <= j =>
        /\ left[i].number <= left[j].number
        /\ left[i].number = left[j].number => after[j] - after[i] = j - i
  <2> SUFFICES ASSUME NEW i \in DOMAIN left, NEW j \in DOMAIN left, i <= j
               PROVE  /\ left[i].number <= left[j].number
                      /\ left[i].number = left[j].number => after[j] - after[i] = j - i
    OBVIOUS
  <2> DEFINE a == k + i
             b == k + j
  <2>1. a \in DOMAIN flow /\ b \in DOMAIN flow /\ a <= b /\ b - a = j - i
    BY <1>1, <1>4
  <2>2. left[i] = flow[a] /\ left[j] = flow[b] /\ after[i] = place[a] /\ after[j] = place[b]
    BY <1>4
  <2> HIDE DEF a, b
  <2>3. /\ flow[a].number <= flow[b].number
        /\ flow[a].number = flow[b].number => place[b] - place[a] = b - a
    BY <2>1 DEF Placed
  <2> QED
    BY <2>1, <2>2, <2>3
<1>8. \A i \in DOMAIN left : \A x \in after[i] .. Len(messages[left[i].number]) :
        \E j \in DOMAIN left : left[j].number = left[i].number /\ after[j] = x /\ j >= i
  <2> SUFFICES ASSUME NEW i \in DOMAIN left, NEW x \in after[i] .. Len(messages[left[i].number])
               PROVE  \E j \in DOMAIN left :
                        left[j].number = left[i].number /\ after[j] = x /\ j >= i
    OBVIOUS
  <2> DEFINE a == k + i
  <2>1. a \in DOMAIN flow /\ left[i] = flow[a] /\ after[i] = place[a] /\ a > k /\ a - k = i
    BY <1>1, <1>4
  <2> HIDE DEF a
  <2>2. PICK b \in DOMAIN flow : flow[b].number = flow[a].number /\ place[b] = x /\ b >= a
    <3>1. x \in place[a] .. Len(messages[flow[a].number])
      BY <2>1
    <3> QED
      BY <2>1, <3>1 DEF Placed
  <2>3. k < b /\ b - k >= i
    BY <1>1, <1>4, <2>1, <2>2
  <2>4. b - k \in DOMAIN left /\ left[b - k] = flow[b] /\ after[b - k] = place[b]
    BY <1>5, <2>3
  <2> QED
    BY <2>1, <2>2, <2>3, <2>4
<1>9. \A i \in DOMAIN left : \A x \in DOMAIN messages :
        left[i].number < x => \E j \in DOMAIN left : left[j].number = x /\ after[j] = 1
  <2> SUFFICES ASSUME NEW i \in DOMAIN left, NEW x \in DOMAIN messages, left[i].number < x
               PROVE  \E j \in DOMAIN left : left[j].number = x /\ after[j] = 1
    OBVIOUS
  <2> DEFINE a == k + i
  <2>1. a \in DOMAIN flow /\ left[i] = flow[a] /\ a > k
    BY <1>1, <1>4
  <2> HIDE DEF a
  <2>2. PICK b \in DOMAIN flow : flow[b].number = x /\ place[b] = 1
    BY <2>1 DEF Placed
  <2>3. k < b
    <3>1. ~ (b <= a)
      <4>1. b <= a => flow[b].number <= flow[a].number
        BY <2>1 DEF Placed
      <4>2. flow[a].number \in Nat /\ x \in Nat
        <5>1. flow[a].number \in DOMAIN messages
          BY <2>1 DEF Placed
        <5> QED
          BY <5>1
      <4> QED
        BY <2>1, <2>2, <4>1, <4>2
    <3> QED
      BY <1>1, <2>1, <3>1
  <2>4. b - k \in DOMAIN left /\ left[b - k] = flow[b] /\ after[b - k] = place[b]
    BY <1>5, <2>3
  <2> QED
    BY <2>2, <2>4
<1>10. Placed(left, after, messages)
  BY <1>3, <1>6, <1>7, <1>8, <1>9 DEF Placed
<1> QED
  BY <1>10 DEF left, after

\* What is taken of the first message leaves the rest of it, or the next one.
LEMMA Advance ==
  ASSUME NEW messages \in Seq(Messages), NEW flow \in Seq(Pieces(Len(messages))), NEW place,
         Placed(flow, place, messages), flow # <<>>, NEW k \in 1 .. Left(flow, place, messages)
  PROVE  LET left == SubSeq(flow, k + 1, Len(flow))
             after == Shift(place, k, Len(flow))
             n == flow[1].number
         IN /\ left \in Seq(Pieces(Len(messages))) /\ Placed(left, after, messages)
            /\ k < Left(flow, place, messages) =>
                 left # <<>> /\ left[1].number = n /\ after[1] = place[1] + k
            /\ k = Left(flow, place, messages) =>
                 NextOf(left, messages) = n + 1 /\ (left # <<>> => after[1] = 1)
<1> DEFINE left == SubSeq(flow, k + 1, Len(flow))
           after == Shift(place, k, Len(flow))
           n == flow[1].number
           K == Left(flow, place, messages)
           last == Len(flow)
<1>1. /\ n \in DOMAIN messages /\ K \in 1 .. last /\ place[1] \in Nat
      /\ \A i \in DOMAIN flow : flow[i].number = n <=> i <= K
      /\ \A i \in 1 .. K : place[i] = place[1] + (i - 1)
      /\ K < last => flow[K + 1].number = n + 1 /\ place[K + 1] = 1
      /\ K = last => n = Len(messages)
  <2>1. place[1] \in 1 .. Len(messages[n])
    BY FirstRun
  <2> QED
    BY <2>1, FirstRun
<1>2. last \in Nat /\ k \in 1 .. K /\ DOMAIN flow = 1 .. last
  OBVIOUS
<1> HIDE DEF K
<1>3. k \in 0 .. last /\ k \in Nat
  <2> HIDE DEF last
  <2> QED
    BY <1>1, <1>2
<1>4. /\ left \in Seq(Pieces(Len(messages))) /\ Len(left) = last - k
      /\ \A i \in 1 .. last - k : left[i] = flow[k + i]
  BY <1>3, TailElements
<1>5. \A i \in 1 .. last - k : after[i] = place[k + i]
  BY DEF Shift
<1>6. Placed(left, after, messages)
  BY <1>3, TailPlaced
<1> HIDE DEF left, after, last, n
<1>7. k < last => /\ left # <<>> /\ left[1] = flow[k + 1] /\ after[1] = place[k + 1]
                  /\ NextOf(left, messages) = left[1].number
  <2>1. k < last => 1 \in 1 .. last - k /\ Len(left) # 0
    BY <1>2, <1>3, <1>4
  <2>2. k < last => left # <<>>
    BY <2>1
  <2> QED
    BY <1>4, <1>5, <2>1, <2>2 DEF NextOf
<1>8. ASSUME k < K PROVE left # <<>> /\ left[1].number = n /\ after[1] = place[1] + k
  <2>1. k < last /\ k + 1 \in 1 .. K /\ k + 1 \in DOMAIN flow /\ k + 1 <= K
    BY <1>1, <1>2, <1>3, <1>8
  <2>2. flow[k + 1].number = n /\ place[k + 1] = place[1] + k
    BY <1>1, <1>3, <2>1
  <2> QED
    BY <1>7, <2>1, <2>2
<1>9. ASSUME k = K PROVE NextOf(left, messages) = n + 1 /\ (left # <<>> => after[1] = 1)
  <2>1. CASE K < last
    BY <1>1, <1>7, <1>9, <2>1
  <2>2. CASE K = last
    <3>1. Len(left) = 0
      BY <1>2, <1>4, <1>9, <2>2
    <3>2. left = <<>>
      BY <1>4, <3>1, EmptySeq
    <3> QED
      BY <1>1, <2>2, <3>2 DEF NextOf
  <2> QED
    BY <1>1, <1>2, <2>1, <2>2
<1> QED
  BY <1>4, <1>6, <1>8, <1>9 DEF left, after, n, K, last

\* A message more on its way.
Extended(place, last, more) == [i \in 1 .. last + more |-> IF i <= last THEN place[i] ELSE i - last]

LEMMA SendPlaced ==
  ASSUME NEW messages \in Seq(Messages), NEW flow \in Seq(Pieces(Len(messages))), NEW place,
         Placed(flow, place, messages), NEW m \in Messages
  PROVE  Placed(flow \o Stamped(m, Len(messages) + 1), Extended(place, Len(flow), Len(m)),
                Append(messages, m))
<1> DEFINE n == Len(messages)
           last == Len(flow)
           new == Stamped(m, n + 1)
           all == flow \o new
           after == Extended(place, last, Len(m))
           others == Append(messages, m)
           l == Len(m)
<1>1. /\ n \in Nat /\ last \in Nat /\ l \in Nat /\ DOMAIN m = 1 .. l /\ DOMAIN flow = 1 .. last
      /\ DOMAIN messages = 1 .. n
  BY MessageFacts
<1>2. /\ new \in Seq(Pieces(n + 1)) /\ Len(new) = l
      /\ \A i \in 1 .. l : new[i].unit = m[i] /\ new[i].number = n + 1
  <2> DEFINE k == n + 1
  <2>1. k \in Nat
    BY <1>1
  <2> HIDE DEF k
  <2>2. /\ Stamped(m, k) \in Seq(Pieces(k)) /\ Len(Stamped(m, k)) = Len(m)
        /\ \A i \in 1 .. Len(m) : Stamped(m, k)[i].unit = m[i] /\ Stamped(m, k)[i].number = k
    BY <2>1, StampedUnits
  <2> QED
    BY <2>2 DEF k
<1>3. flow \in Seq(Pieces(n + 1))
  BY <1>1, StampsGrow
<1>4. /\ DOMAIN all = 1 .. last + l
      /\ \A i \in 1 .. last : all[i] = flow[i]
      /\ \A i \in 1 .. l : all[last + i] = new[i]
  <2> HIDE DEF new, n
  <2>1. new \in Seq(Pieces(n + 1))
    BY <1>2
  <2>2. /\ DOMAIN (flow \o new) = 1 .. Len(flow) + Len(new)
        /\ \A i \in 1 .. Len(flow) : (flow \o new)[i] = flow[i]
        /\ \A i \in 1 .. Len(new) : (flow \o new)[Len(flow) + i] = new[i]
    BY <1>3, <2>1
  <2> QED
    BY <1>2, <2>2
<1>5. /\ DOMAIN others = 1 .. n + 1 /\ others[n + 1] = m
      /\ \A i \in 1 .. n : others[i] = messages[i]
  OBVIOUS
<1>6. /\ after = [i \in 1 .. last + l |-> IF i <= last THEN place[i] ELSE i - last]
      /\ \A i \in DOMAIN flow : place[i] \in Nat
  BY DEF Extended, Placed
<1>7. /\ \A i \in DOMAIN flow : /\ flow[i].number \in DOMAIN messages
                                /\ place[i] \in DOMAIN messages[flow[i].number]
                                /\ flow[i].unit = messages[flow[i].number][place[i]]
      /\ \A i, j \in DOMAIN flow : i <= j =>
           /\ flow[i].number <= flow[j].number
           /\ flow[i].number = flow[j].number => place[j] - place[i] = j - i
      /\ \A i \in DOMAIN flow : \A k \in place[i] .. Len(messages[flow[i].number]) :
           \E j \in DOMAIN flow : flow[j].number = flow[i].number /\ place[j] = k /\ j >= i
      /\ \A i \in DOMAIN flow : \A k \in DOMAIN messages :
           flow[i].number < k => \E j \in DOMAIN flow : flow[j].number = k /\ place[j] = 1
  BY DEF Placed
<1> HIDE DEF n, last, new, all, after, others, l
<1>8. \A i \in 1 .. last : /\ i \in DOMAIN all /\ i \in DOMAIN flow
                           /\ all[i] = flow[i] /\ after[i] = place[i]
                           /\ flow[i].number \in 1 .. n
                           /\ others[flow[i].number] = messages[flow[i].number]
  <2> SUFFICES ASSUME NEW i \in 1 .. last
               PROVE  /\ i \in DOMAIN all /\ i \in DOMAIN flow
                      /\ all[i] = flow[i] /\ after[i] = place[i]
                      /\ flow[i].number \in 1 .. n
                      /\ others[flow[i].number] = messages[flow[i].number]
    OBVIOUS
  <2>1. i \in DOMAIN flow /\ i \in 1 .. last + l /\ i <= last
    BY <1>1
  <2>2. flow[i].number \in 1 .. n
    BY <1>1, <1>7, <2>1
  <2>3. others[flow[i].number] = messages[flow[i].number]
    BY <1>5, <2>2
  <2>4. after[i] = place[i]
    BY <1>6, <2>1
  <2> QED
    BY <1>4, <2>1, <2>2, <2>3, <2>4
<1>9. \A i \in DOMAIN all : ~ (i \in 1 .. last) =>
        /\ i - last \in 1 .. l /\ all[i] = new[i - last] /\ after[i] = i - last
        /\ all[i].number = n + 1 /\ all[i].unit = m[i - last] /\ i > last
  <2> SUFFICES ASSUME NEW i \in DOMAIN all, ~ (i \in 1 .. last)
               PROVE  /\ i - last \in 1 .. l /\ all[i] = new[i - last] /\ after[i] = i - last
                      /\ all[i].number = n + 1 /\ all[i].unit = m[i - last] /\ i > last
    OBVIOUS
  <2> DEFINE x == i - last
  <2>1. x \in 1 .. l /\ last + x = i /\ i > last /\ i \in 1 .. last + l
    BY <1>1, <1>4
  <2>2. after[i] = i - last
    BY <1>1, <1>6, <2>1
  <2> HIDE DEF x
  <2>3. all[i] = new[x]
    BY <1>4, <2>1
  <2>4. new[x].unit = m[x] /\ new[x].number = n + 1
    BY <1>2, <2>1
  <2> QED
    BY <2>1, <2>2, <2>3, <2>4 DEF x
<1>10. \A x \in 1 .. l : last + x \in DOMAIN all /\ ~ (last + x \in 1 .. last) /\ last + x > last
  BY <1>1, <1>4
<1>11. DOMAIN all = 1 .. last + l /\ \A i \in 1 .. last : i \in Nat
  BY <1>4
<1>12. after \in [DOMAIN all -> Nat]
  <2>1. ASSUME NEW i \in 1 .. last + l PROVE (IF i <= last THEN place[i] ELSE i - last) \in Nat
    <3>1. i \in Nat /\ i >= 1 /\ (i <= last => i \in DOMAIN flow)
      BY <1>1
    <3>2. CASE i <= last
      BY <1>6, <3>1, <3>2
    <3>3. CASE ~ (i <= last)
      BY <1>1, <3>1, <3>3
    <3> QED
      BY <3>2, <3>3
  <2> QED
    BY <1>6, <1>11, <2>1
<1>13. \A i \in DOMAIN all :
         /\ all[i].number \in DOMAIN others /\ after[i] \in DOMAIN others[all[i].number]
         /\ all[i].unit = others[all[i].number][after[i]]
  <2> SUFFICES ASSUME NEW i \in DOMAIN all
               PROVE  /\ all[i].number \in DOMAIN others /\ after[i] \in DOMAIN others[all[i].number]
                      /\ all[i].unit = others[all[i].number][after[i]]
    OBVIOUS
  <2>1. CASE i \in 1 .. last
    <3>1. flow[i].number \in 1 .. n + 1
      BY <1>1, <1>8, <2>1
    <3>2. /\ all[i] = flow[i] /\ after[i] = place[i] /\ i \in DOMAIN flow
          /\ others[flow[i].number] = messages[flow[i].number]
      BY <1>8, <2>1
    <3>3. /\ place[i] \in DOMAIN messages[flow[i].number]
          /\ flow[i].unit = messages[flow[i].number][place[i]]
      BY <1>7, <3>2
    <3> QED
      BY <1>5, <3>1, <3>2, <3>3
  <2>2. CASE ~ (i \in 1 .. last)
    <3>1. n + 1 \in 1 .. n + 1
      BY <1>1
    <3> QED
      BY <1>1, <1>5, <1>9, <2>2, <3>1
  <2> QED
    BY <2>1, <2>2
<1>14. \A i, j \in DOMAIN all : i <= j =>
         /\ all[i].number <= all[j].number
         /\ all[i].number = all[j].number => after[j] - after[i] = j - i
  <2> SUFFICES ASSUME NEW i \in DOMAIN all, NEW j \in DOMAIN all, i <= j
               PROVE  /\ all[i].number <= all[j].number
                      /\ all[i].number = all[j].number => after[j] - after[i] = j - i
    OBVIOUS
  <2>1. CASE j \in 1 .. last
    <3>1. i \in 1 .. last
      BY <1>1, <1>11, <2>1
    <3> QED
      BY <1>7, <1>8, <2>1, <3>1
  <2>2. CASE ~ (j \in 1 .. last) /\ i \in 1 .. last
    BY <1>1, <1>8, <1>9, <2>2
  <2>3. CASE ~ (j \in 1 .. last) /\ ~ (i \in 1 .. last)
    BY <1>1, <1>9, <1>11, <2>3
  <2> QED
    BY <2>1, <2>2, <2>3
<1>15. \A i \in DOMAIN all : \A k \in after[i] .. Len(others[all[i].number]) :
         \E j \in DOMAIN all : all[j].number = all[i].number /\ after[j] = k /\ j >= i
  <2> SUFFICES ASSUME NEW i \in DOMAIN all, NEW k \in after[i] .. Len(others[all[i].number])
               PROVE  \E j \in DOMAIN all :
                        all[j].number = all[i].number /\ after[j] = k /\ j >= i
    OBVIOUS
  <2>1. CASE i \in 1 .. last
    <3>1. k \in place[i] .. Len(messages[flow[i].number])
      BY <1>8, <2>1
    <3>2. PICK j \in DOMAIN flow : flow[j].number = flow[i].number /\ place[j] = k /\ j >= i
      BY <1>7, <1>8, <2>1, <3>1
    <3> QED
      BY <1>1, <1>8, <2>1, <3>2
  <2>2. CASE ~ (i \in 1 .. last)
    <3>1. others[all[i].number] = m /\ after[i] = i - last /\ i - last \in 1 .. l
      BY <1>5, <1>9, <2>2
    <3>2. k \in i - last .. l
      BY <3>1 DEF l
    <3>3. k \in 1 .. l /\ k \in Nat /\ last + k >= i
      BY <1>1, <1>11, <3>1, <3>2
    <3> DEFINE j == last + k
    <3>4. j \in DOMAIN all /\ ~ (j \in 1 .. last)
      BY <1>10, <3>3
    <3>5. j >= i /\ j - last = k
      BY <1>1, <3>3
    <3> HIDE DEF j
    <3> QED
      BY <1>9, <2>2, <3>4, <3>5
  <2> QED
    BY <2>1, <2>2
<1>16. \A i \in DOMAIN all : \A k \in DOMAIN others :
         all[i].number < k => \E j \in DOMAIN all : all[j].number = k /\ after[j] = 1
  <2> SUFFICES ASSUME NEW i \in DOMAIN all, NEW k \in DOMAIN others, all[i].number < k
               PROVE  \E j \in DOMAIN all : all[j].number = k /\ after[j] = 1
    OBVIOUS
  <2>1. i \in 1 .. last
    <3>1. ~ (i \in 1 .. last) => all[i].number = n + 1 /\ k <= n + 1
      BY <1>1, <1>5, <1>9
    <3> QED
      BY <1>1, <1>5, <3>1
  <2>2. CASE k \in 1 .. n
    <3>1. PICK j \in DOMAIN flow : flow[j].number = k /\ place[j] = 1
      BY <1>1, <1>7, <1>8, <2>1, <2>2
    <3> QED
      BY <1>1, <1>8, <3>1
  <2>3. CASE k = n + 1
    <3>1. 1 \in 1 .. l
      <4>1. Len(m) \in Nat \ {0}
        BY MessageFacts
      <4> QED
        BY <4>1 DEF l
    <3> DEFINE j == last + 1
    <3>2. j \in DOMAIN all /\ ~ (j \in 1 .. last) /\ j - last = 1
      BY <1>1, <1>10, <3>1
    <3> HIDE DEF j
    <3> QED
      BY <1>9, <2>3, <3>2
  <2> QED
    BY <1>1, <1>5, <2>2, <2>3
<1>17. Placed(all, after, others)
  BY <1>12, <1>13, <1>14, <1>15, <1>16 DEF Placed
<1> QED
  BY <1>17 DEF all, new, after, others, n, last

\* Where a read has ended, if it has ended within a message.
LEMMA CutIs ==
  ASSUME NEW c \in Connections, sent[c] \in Seq(Messages),
         NEW rest \in Seq(Pieces(Len(sent[c]))), NEW place, Placed(rest, place, sent[c])
  PROVE  CutBefore(c, rest) =
           IF rest # <<>> /\ place[1] > 1 THEN {<<rest[1].number, place[1] - 1>>} ELSE {}
<1>1. CASE rest = <<>>
  BY <1>1 DEF CutBefore
<1>2. CASE rest # <<>>
  <2> DEFINE n == rest[1].number
             K == Left(rest, place, sent[c])
             l == Len(sent[c][n])
             r == place[1]
             same == {i \in DOMAIN rest : rest[i].number = n}
  <2>1. /\ r \in 1 .. l /\ K \in 1 .. Len(rest) /\ K = l - r + 1
        /\ sent[c][n] \in Messages
        /\ \A i \in DOMAIN rest : rest[i].number = n <=> i <= K
    BY <1>2, FirstRun
  <2>2. l \in Nat /\ Len(rest) \in Nat /\ DOMAIN rest = 1 .. Len(rest)
    <3>1. \A m \in Messages : Len(m) \in Nat
      BY MessageFacts
    <3> QED
      BY <2>1, <3>1
  <2> HIDE DEF K
  <2>3. same = 1 .. K
    <3>1. \A i : i \in same <=> i \in 1 .. K
      <4> HIDE DEF n
      <4> QED
        BY <2>1, <2>2
    <3> QED
      BY <3>1
  <2>4. Cardinality(same) = K
    <3>1. K \in Int /\ 1 \in Int /\ ~ (1 > K)
      BY <2>1, <2>2
    <3>2. Cardinality(1 .. K) = K - 1 + 1
      BY <3>1, FS_Interval
    <3>3. K - 1 + 1 = K
      BY <3>1
    <3> HIDE DEF same
    <3> QED
      BY <2>3, <3>2, <3>3
  <2>5. CutBefore(c, rest) = IF Cardinality(same) < l THEN {<<n, l - Cardinality(same)>>} ELSE {}
    BY <1>2 DEF CutBefore
  <2> HIDE DEF same, l, r, n
  <2>6. (K < l <=> r > 1) /\ l - K = r - 1
    BY <2>1, <2>2
  <2>7. CutBefore(c, rest) = IF r > 1 THEN {<<n, r - 1>>} ELSE {}
    BY <2>4, <2>5, <2>6
  <2> QED
    BY <1>2, <2>7 DEF n, r
<1> QED
  BY <1>1, <1>2

-----------------------------------------------------------------------------
(* A connection that nothing has brought out of step *)

BuiltBelow(messages, n) == {k \in 1 .. n - 1 : messages[k][1].request.method \in BuiltMethods}

LEMMA BuiltGrows ==
  ASSUME NEW messages, NEW n \in Nat \ {0}
  PROVE  BuiltBelow(messages, n + 1) =
           IF messages[n][1].request.method \in BuiltMethods
           THEN BuiltBelow(messages, n) \cup {n} ELSE BuiltBelow(messages, n)
<1>1. \A k : k \in 1 .. (n + 1) - 1 <=> (k \in 1 .. n - 1 \/ k = n)
  OBVIOUS
<1> QED
  BY <1>1 DEF BuiltBelow

LEMMA NumbersAppend ==
  ASSUME NEW S, NEW requests \in Seq(S), NEW m \in S
  PROVE  Numbers(Append(requests, m)) = Numbers(requests) \cup {m.number}
<1> DEFINE more == Append(requests, m)
           last == Len(requests)
<1>1. /\ DOMAIN more = 1 .. last + 1 /\ DOMAIN requests = 1 .. last /\ last \in Nat
      /\ more[last + 1] = m /\ \A i \in 1 .. last : more[i] = requests[i]
  OBVIOUS
<1> HIDE DEF more, last
<1>2. \A i : i \in 1 .. last + 1 <=> i \in 1 .. last \/ i = last + 1
  BY <1>1
<1>3. Numbers(more) = Numbers(requests) \cup {m.number}
  BY <1>1, <1>2 DEF Numbers
<1> QED
  BY <1>3 DEF more

\* What a parser has delivered, and what it expects, go with where the flow stands: it is
\* between messages at the start of one, or has received of the one it awaits all that is
\* before the place where the flow stands.
Progress(p, requests, flow, place, messages) ==
  /\ Numbers(requests) = BuiltBelow(messages, NextOf(flow, messages))
  /\ ~ p.processingMessage => (flow # <<>> => place[1] = 1)
  /\ p.processingMessage =>
       /\ flow # <<>> /\ p.sipMessage.number = flow[1].number
       /\ p.sipMessage.request = messages[flow[1].number][1].request
       /\ p.sipMessage.request.method \in BuiltMethods
       /\ place[1] = HeaderLength(messages[flow[1].number]) + p.receivedContentLength + 1

\* The header of a message is read.
LEMMA HeaderRound ==
  ASSUME NEW messages \in Seq(Messages), NEW flow \in Seq(Pieces(Len(messages))), NEW place,
         Placed(flow, place, messages), flow # <<>>, WellFormed(messages[flow[1].number]),
         NEW s \in LoadStates(Len(messages)), ~ s.parser.processingMessage, Counting(s.parser),
         Progress(s.parser, s.delivered, flow, place, messages)
  PROVE  LET n == flow[1].number
             h == HeaderLength(messages[n])
             chunk == SubSeq(flow, 1, h)
             m == BuildMessage(s.parser, chunk)
             t == LoadHeader(s, chunk)
         IN /\ h \in 1 .. Left(flow, place, messages)
            /\ m # Null => m.request = messages[n][1].request /\ m.number = n
            /\ Progress(t.parser, t.delivered, SubSeq(flow, h + 1, Len(flow)),
                        Shift(place, h, Len(flow)), messages)
<1> DEFINE n == flow[1].number
           message == messages[n]
           h == HeaderLength(message)
           chunk == SubSeq(flow, 1, h)
           m == BuildMessage(s.parser, chunk)
           t == LoadHeader(s, chunk)
           left == SubSeq(flow, h + 1, Len(flow))
           after == Shift(place, h, Len(flow))
           K == Left(flow, place, messages)
           length == message[1].request.contentLength
           built == message[1].request.method \in BuiltMethods
<1>1. place[1] = 1 /\ Numbers(s.delivered) = BuiltBelow(messages, n)
  BY DEF Progress, NextOf
<1>2. /\ n \in DOMAIN messages /\ message \in Messages /\ K \in 1 .. Len(flow)
      /\ K = Len(message) - place[1] + 1
  BY FirstRun
<1>3. /\ Len(message) \in Nat /\ h \in 1 .. Len(message) /\ message[1].kind = "header"
      /\ length = Len(message) - h /\ (h < Len(message) => built)
      /\ message[1].request.contentLength \in Nat
  <2> HIDE DEF message
  <2>1. WellFormed(message)
    BY DEF message
  <2> QED
    BY <1>2, <2>1, MessageFacts
<1>4. /\ flow[1] \in Pieces(Len(messages)) /\ flow[1].unit = message[1]
      /\ Len(flow) \in Nat /\ n \in Nat \ {0}
  <2>1. 1 \in DOMAIN flow /\ Len(flow) \in Nat /\ DOMAIN flow = 1 .. Len(flow)
    BY EmptySeq
  <2>2. flow[1].unit = messages[n][place[1]]
    BY <2>1 DEF Placed
  <2>3. flow[1] \in Pieces(Len(messages))
    BY <2>1, ElementType
  <2> QED
    BY <1>1, <1>2, <2>1, <2>2, <2>3
<1> HIDE DEF h, K, message, n, length, built
<1>5. h \in 1 .. K /\ h \in 0 .. Len(flow) /\ (h < K <=> h < Len(message)) /\ h \in 1 .. Len(flow)
      /\ h \in Nat
  BY <1>1, <1>2, <1>3, <1>4
<1>6. chunk \in Seq(Pieces(Len(messages))) /\ chunk[1] = flow[1] /\ chunk # <<>>
  <2>1. /\ SubSeq(flow, 1, h) \in Seq(Pieces(Len(messages))) /\ Len(SubSeq(flow, 1, h)) = h
        /\ \A i \in 1 .. h : SubSeq(flow, 1, h)[i] = flow[i]
    BY <1>5, FrontElements
  <2>2. 1 \in 1 .. h /\ h # 0
    BY <1>5
  <2> QED
    BY <2>1, <2>2
<1> HIDE DEF chunk
<1>7. /\ m # Null <=> built
      /\ m # Null => m.request = message[1].request /\ m.number = n /\ m \in Message(0 .. Len(messages))
  <2>1. StartsWith(chunk, "header")
    BY <1>3, <1>4, <1>6 DEF StartsWith
  <2>2. Len(messages) \in Nat /\ s.parser \in Parsers(Len(messages))
    BY LoadStateTypes
  <2>3. /\ m # Null <=> /\ StartsWith(chunk, "header")
                        /\ chunk[1].unit.request.method \in BuiltMethods
        /\ m # Null => /\ m \in Message(0 .. Len(messages))
                       /\ m.request = chunk[1].unit.request /\ m.number = chunk[1].number
    BY <1>6, <2>2, BuiltMessages
  <2> QED
    BY <1>4, <1>6, <2>1, <2>3 DEF built, n
<1>8. /\ s.delivered \in Seq(Message(0 .. Len(messages))) /\ s.parser.receivedContentLength = 0
      /\ Len(messages) \in Nat
  BY LoadStateTypes DEF Counting
<1>9. /\ m = Null => ~ t.parser.processingMessage /\ t.delivered = s.delivered
      /\ (m # Null /\ m.request.contentLength = 0) =>
           ~ t.parser.processingMessage /\ t.delivered = Append(s.delivered, m)
      /\ (m # Null /\ m.request.contentLength # 0) =>
           /\ t.parser.processingMessage /\ t.parser.receivedContentLength = 0
           /\ t.parser.sipMessage = m /\ t.delivered = s.delivered
  BY <1>6, <1>8, HeaderLoaded
<1>10. /\ h < K => left # <<>> /\ left[1].number = n /\ after[1] = place[1] + h
       /\ h = K => NextOf(left, messages) = n + 1 /\ (left # <<>> => after[1] = 1)
  <2>1. h \in 1 .. Left(flow, place, messages)
    BY <1>5 DEF K
  <2> QED
    BY <2>1, Advance DEF K, n
<1>11. BuiltBelow(messages, n + 1) =
         IF built THEN BuiltBelow(messages, n) \cup {n} ELSE BuiltBelow(messages, n)
  BY <1>4, BuiltGrows DEF built, message
<1> HIDE DEF left, after, m, t
<1>12. CASE ~ (h < Len(message))
  <2>1. h = K /\ length = 0
    BY <1>1, <1>2, <1>3, <1>12
  <2>2. NextOf(left, messages) = n + 1 /\ (left # <<>> => after[1] = 1)
    BY <1>10, <2>1
  <2>3. ~ t.parser.processingMessage
        /\ t.delivered = IF built THEN Append(s.delivered, m) ELSE s.delivered
    BY <1>7, <1>9, <2>1 DEF length
  <2>4. Numbers(t.delivered) = BuiltBelow(messages, n + 1)
    <3>1. built => Numbers(Append(s.delivered, m)) = Numbers(s.delivered) \cup {n}
      BY <1>7, <1>8, NumbersAppend
    <3> QED
      BY <1>1, <1>11, <2>3, <3>1
  <2> QED
    BY <1>5, <1>7, <2>2, <2>3, <2>4 DEF Progress, K, message, n, h, chunk, m, t, left, after
<1>13. CASE h < Len(message)
  <2>1. h < K /\ length # 0 /\ built
    BY <1>3, <1>5, <1>13
  <2>2. left # <<>> /\ left[1].number = n /\ after[1] = h + 0 + 1
    BY <1>1, <1>5, <1>10, <2>1
  <2>3. /\ t.parser.processingMessage /\ t.parser.receivedContentLength = 0
        /\ t.parser.sipMessage = m /\ t.delivered = s.delivered
        /\ m.request = message[1].request /\ m.number = n
    BY <1>7, <1>9, <2>1 DEF length
  <2>4. Progress(t.parser, t.delivered, left, after, messages)
    BY <1>1, <2>1, <2>2, <2>3 DEF Progress, NextOf, built, message, h
  <2> QED
    BY <1>5, <1>7, <2>4 DEF K, message, n, h, chunk, m, t, left, after
<1> QED
  BY <1>12, <1>13

\* What is pending is what is left of the message.
LEMMA PendingIsLeft ==
  ASSUME NEW messages \in Seq(Messages), NEW flow \in Seq(Pieces(Len(messages))), NEW place,
         Placed(flow, place, messages), flow # <<>>, WellFormed(messages[flow[1].number]),
         NEW p \in Parsers(Len(messages)), p.processingMessage, NEW requests,
         Progress(p, requests, flow, place, messages)
  PROVE  LET m == messages[flow[1].number]
         IN /\ PendingBytes(p) = Left(flow, place, messages) /\ PendingBytes(p) \in Nat \ {0}
            /\ p.sipMessage.request.contentLength = p.receivedContentLength + Left(flow, place, messages)
            /\ p.receivedContentLength \in Nat /\ place[1] \in Nat
            /\ HeaderLength(m) \in 1 .. Len(m) /\ Len(m) \in Nat
<1> DEFINE n == flow[1].number
           message == messages[n]
           K == Left(flow, place, messages)
           h == HeaderLength(message)
           got == p.receivedContentLength
           length == p.sipMessage.request.contentLength
           r == place[1]
           l == Len(message)
<1>1. message \in Messages /\ K \in 1 .. Len(flow) /\ K = l - r + 1 /\ r \in 1 .. l
  BY FirstRun
<1>2. p.sipMessage.request = message[1].request /\ r = h + got + 1
  BY DEF Progress
<1>3. l \in Nat /\ h \in 1 .. l /\ message[1].request.contentLength = l - h
  <2> HIDE DEF message
  <2>1. WellFormed(message)
    BY DEF message
  <2> QED
    BY <1>1, <2>1, MessageFacts
<1>4. got \in Nat /\ Len(flow) \in Nat
  BY DEF Parsers
<1>5. length = l - h
  BY <1>2, <1>3
<1>6. PendingBytes(p) = length - got
  BY DEF PendingBytes
<1> HIDE DEF K, h, got, length, r, l, message, n
<1>7. length - got = K /\ length = got + K /\ K \in Nat \ {0} /\ r \in Nat
  <2>1. K = l - r + 1 /\ r = h + got + 1 /\ length = l - h /\ K \in 1 .. Len(flow)
    BY <1>1, <1>2, <1>5
  <2>2. l \in Nat /\ h \in Nat /\ got \in Nat /\ K \in Nat \ {0}
    BY <1>3, <1>4, <2>1
  <2> QED
    BY <2>1, <2>2
<1> QED
  BY <1>3, <1>4, <1>6, <1>7 DEF K, h, got, length, r, l, message, n

\* Some of the body is read, or all that is still to come of it.
LEMMA BodyRound ==
  ASSUME NEW messages \in Seq(Messages), NEW flow \in Seq(Pieces(Len(messages))), NEW place,
         Placed(flow, place, messages), flow # <<>>, WellFormed(messages[flow[1].number]),
         NEW s \in LoadStates(Len(messages)), s.parser.processingMessage,
         Progress(s.parser, s.delivered, flow, place, messages),
         NEW k \in 1 .. Left(flow, place, messages), NEW text \in Seq(Pieces(Len(messages)))
  PROVE  LET t == LoadBody(s, SubSeq(flow, 1, k), text)
         IN /\ Progress(t.parser, t.delivered, SubSeq(flow, k + 1, Len(flow)),
                        Shift(place, k, Len(flow)), messages)
            /\ k = Left(flow, place, messages) =>
                 /\ ~ t.parser.processingMessage
                 /\ t.delivered = Append(s.delivered, t.parser.sipMessage)
            /\ k # Left(flow, place, messages) =>
                 /\ t.parser.processingMessage /\ t.delivered = s.delivered
                 /\ t.parser.receivedContentLength = s.parser.receivedContentLength + k
            /\ t.parser.sipMessage.request = s.parser.sipMessage.request
            /\ t.parser.sipMessage.number = s.parser.sipMessage.number
            /\ t.parser.sipMessage \in Message(0 .. Len(messages))
<1> DEFINE n == flow[1].number
           message == messages[n]
           chunk == SubSeq(flow, 1, k)
           t == LoadBody(s, chunk, text)
           left == SubSeq(flow, k + 1, Len(flow))
           after == Shift(place, k, Len(flow))
           K == Left(flow, place, messages)
           p == s.parser
           got == p.receivedContentLength
           length == p.sipMessage.request.contentLength
<1>1. /\ p \in Parsers(Len(messages)) /\ s.delivered \in Seq(Message(0 .. Len(messages)))
      /\ Len(messages) \in Nat
  BY LoadStateTypes
<1>2. length = got + K /\ got \in Nat /\ K \in Nat \ {0} /\ HeaderLength(message) \in Nat
  <2>1. /\ PendingBytes(p) = K /\ PendingBytes(p) \in Nat \ {0}
        /\ length = got + K /\ got \in Nat
        /\ HeaderLength(message) \in 1 .. Len(message) /\ Len(message) \in Nat
    <3> HIDE DEF p, K
    <3> QED
      BY <1>1, PendingIsLeft DEF p, K
  <2> QED
    BY <2>1
<1>3. /\ Numbers(s.delivered) = BuiltBelow(messages, n) /\ p.sipMessage.number = n
      /\ p.sipMessage.request = message[1].request /\ p.sipMessage.request.method \in BuiltMethods
      /\ place[1] = HeaderLength(message) + got + 1
  BY DEF Progress, NextOf
<1>4. /\ k < K => left # <<>> /\ left[1].number = n /\ after[1] = place[1] + k
      /\ k = K => NextOf(left, messages) = n + 1 /\ (left # <<>> => after[1] = 1)
  BY Advance
<1>5. K \in 1 .. Len(flow) /\ n \in DOMAIN messages
  BY FirstRun
<1>6. k \in 1 .. K /\ k \in Nat /\ k \in 0 .. Len(flow) /\ n \in Nat \ {0}
  <2> HIDE DEF K
  <2>1. k \in 1 .. K
    BY DEF K
  <2>2. n \in Nat \ {0} /\ Len(flow) \in Nat
    BY <1>5
  <2> QED
    BY <1>2, <1>5, <2>1, <2>2
<1>7. chunk \in Seq(Pieces(Len(messages))) /\ Len(chunk) = k
  BY <1>6, FrontElements
<1> HIDE DEF chunk
<1>8. LET received == got + Len(chunk)
      IN /\ t.parser.sipMessage \in Message(0 .. Len(messages))
         /\ t.parser.sipMessage.request = p.sipMessage.request
         /\ t.parser.sipMessage.number = p.sipMessage.number
         /\ received >= length =>
              /\ ~ t.parser.processingMessage /\ t.parser.receivedContentLength = 0
              /\ t.delivered = Append(s.delivered, t.parser.sipMessage)
         /\ ~ (received >= length) =>
              /\ t.parser.processingMessage /\ t.parser.receivedContentLength = received
              /\ t.delivered = s.delivered
  BY <1>1, <1>7, BodyLoaded, SMTT(30)
<1> HIDE DEF t, got, length, K, p, left, after, n, message
<1>9. got + Len(chunk) >= length <=> k = K
  BY <1>2, <1>6, <1>7
<1>10. /\ k = K => /\ ~ t.parser.processingMessage
                   /\ t.delivered = Append(s.delivered, t.parser.sipMessage)
       /\ k # K => /\ t.parser.processingMessage /\ t.delivered = s.delivered
                   /\ t.parser.receivedContentLength = got + k
       /\ t.parser.sipMessage.request = p.sipMessage.request
       /\ t.parser.sipMessage.number = p.sipMessage.number
       /\ t.parser.sipMessage \in Message(0 .. Len(messages))
  BY <1>7, <1>8, <1>9
<1>11. Progress(t.parser, t.delivered, left, after, messages)
  <2>1. CASE k = K
    <3>1. Numbers(t.delivered) = Numbers(s.delivered) \cup {t.parser.sipMessage.number}
      <4> DEFINE m == t.parser.sipMessage
                 requests == s.delivered
                 S == Message(0 .. Len(messages))
      <4>1. m \in S /\ requests \in Seq(S) /\ t.delivered = Append(requests, m)
        BY <1>1, <1>10, <2>1
      <4> HIDE DEF m, requests, S
      <4>2. Numbers(Append(requests, m)) = Numbers(requests) \cup {m.number}
        BY <4>1, NumbersAppend
      <4> QED
        BY <4>1, <4>2 DEF m, requests
    <3>2. BuiltBelow(messages, n + 1) = BuiltBelow(messages, n) \cup {n}
      BY <1>3, <1>6, BuiltGrows DEF message
    <3> QED
      BY <1>3, <1>4, <1>10, <2>1, <3>1, <3>2 DEF Progress
  <2>2. CASE k # K
    <3>1. left # <<>> /\ left[1].number = n /\ after[1] = place[1] + k
      BY <1>2, <1>4, <1>6, <2>2
    <3>2. after[1] = HeaderLength(message) + (got + k) + 1
      BY <1>2, <1>3, <1>6, <3>1
    <3> QED
      BY <1>3, <1>10, <2>2, <3>1, <3>2 DEF Progress, NextOf, message
  <2> QED
    BY <2>1, <2>2
<1> QED
  BY <1>10, <1>11 DEF t, left, after, K, chunk, p, got

-----------------------------------------------------------------------------
(* The first SDP of such a connection *)

\* Where reads have ended within the body of the k-th message, m, and where it ends.
Ends(k, m, marks) ==
  {cut[2] : cut \in {x \in marks : x[1] = k /\ x[2] > HeaderLength(m)}} \cup {Len(m)}

IsFirstEnd(e, k, m, marks) == e \in Ends(k, m, marks) /\ \A x \in Ends(k, m, marks) : e <= x

\* Its body up to there.
Portion(k, m, e) ==
  [i \in 1 .. e - HeaderLength(m) |-> [unit |-> m[HeaderLength(m) + i], number |-> k]]

Matches(sdp, portion) == IF Len(portion) < BufSize THEN sdp = portion ELSE IsPrefix(portion, sdp)

SdpMatches(request, messages, marks) ==
  LET k == request.number
  IN \E e \in Nat : /\ IsFirstEnd(e, k, messages[k], marks)
                    /\ Matches(SdpOf(request), Portion(k, messages[k], e))

NoneHasSdp(requests) == \A i \in DOMAIN requests : SdpOf(requests[i]) = Null

\* What SdpIsFirstPortion says of the requests delivered.
SdpDone(requests, messages, marks) ==
  \A i \in DOMAIN requests :
    (/\ requests[i].request.contentType = "SDP" /\ requests[i].request.contentLength > 0
     /\ \A j \in 1 .. i - 1 : SdpOf(requests[j]) = Null)
    => SdpMatches(requests[i], messages, marks)

\* As long as none of them has one, the parser has collected no SDP but that of the
\* message it awaits, and of that it has the first portion once any has come.
SdpProgress(p, requests, messages, marks) ==
  /\ SdpDone(requests, messages, marks)
  /\ NoneHasSdp(requests) =>
       /\ ~ p.processingMessage => p.bodies["SDP"] = Null
       /\ p.processingMessage =>
            /\ p.bodies["SDP"] # Null => SdpOf(p.sipMessage) # Null
            /\ p.sipMessage.request.contentType = "SDP" =>
                 IF p.receivedContentLength = 0
                 THEN SdpOf(p.sipMessage) = Null /\ p.expecting = "SDP"
                 ELSE SdpOf(p.sipMessage) # Null /\ SdpMatches(p.sipMessage, messages, marks)

LEMMA DoneAppend ==
  ASSUME NEW S, NEW requests \in Seq(S), NEW m \in S, NEW messages, NEW marks,
         SdpDone(requests, messages, marks),
         (/\ NoneHasSdp(requests) /\ m.request.contentType = "SDP"
          /\ m.request.contentLength > 0) => SdpMatches(m, messages, marks)
  PROVE  /\ SdpDone(Append(requests, m), messages, marks)
         /\ NoneHasSdp(Append(requests, m)) => NoneHasSdp(requests) /\ SdpOf(m) = Null
<1> DEFINE more == Append(requests, m)
           last == Len(requests)
<1>1. /\ DOMAIN more = 1 .. last + 1 /\ DOMAIN requests = 1 .. last /\ last \in Nat
      /\ more[last + 1] = m /\ \A i \in 1 .. last : more[i] = requests[i]
  OBVIOUS
<1> HIDE DEF more, last
<1>2. last + 1 \in DOMAIN more /\ \A i \in 1 .. last : i \in DOMAIN more
  BY <1>1
<1>3. NoneHasSdp(more) => NoneHasSdp(requests) /\ SdpOf(m) = Null
  BY <1>1, <1>2 DEF NoneHasSdp
<1>4. ASSUME NEW i \in DOMAIN more, more[i].request.contentType = "SDP",
             more[i].request.contentLength > 0, \A j \in 1 .. i - 1 : SdpOf(more[j]) = Null
      PROVE  SdpMatches(more[i], messages, marks)
  <2>1. CASE i \in 1 .. last
    <3>1. \A j \in 1 .. i - 1 : j \in 1 .. last /\ SdpOf(requests[j]) = Null
      BY <1>1, <1>4, <2>1
    <3> QED
      BY <1>1, <1>4, <2>1, <3>1 DEF SdpDone
  <2>2. CASE i = last + 1
    <3>1. NoneHasSdp(requests)
      BY <1>1, <1>4, <2>2 DEF NoneHasSdp
    <3> QED
      BY <1>1, <1>4, <2>2, <3>1
  <2> QED
    BY <1>1, <2>1, <2>2
<1>5. SdpDone(more, messages, marks)
  BY <1>4 DEF SdpDone
<1> QED
  BY <1>3, <1>5 DEF more

\* A header brings no SDP.
LEMMA HeaderKeepsSdp ==
  ASSUME NEW n \in Nat, NEW s \in LoadStates(n), ~ s.parser.processingMessage, Counting(s.parser),
         NEW chunk \in Seq(Pieces(n)), NEW messages, NEW marks,
         SdpProgress(s.parser, s.delivered, messages, marks)
  PROVE  LET t == LoadHeader(s, chunk) IN SdpProgress(t.parser, t.delivered, messages, marks)
<1> DEFINE t == LoadHeader(s, chunk)
           m == BuildMessage(s.parser, chunk)
           p == s.parser
           d == s.delivered
           S == Message(0 .. n)
<1>1. /\ d \in Seq(S) /\ p \in Parsers(n) /\ p.receivedContentLength = 0
      /\ SdpDone(d, messages, marks) /\ (NoneHasSdp(d) => p.bodies["SDP"] = Null)
  BY LoadStateTypes DEF Counting, SdpProgress
<1>2. m # Null => m \in S /\ m.bodies \in {p.bodies, NoBodies} /\ m.request.contentLength \in Nat
  <2>1. m # Null => m \in S /\ m.bodies \in {p.bodies, NoBodies}
    BY <1>1, BuiltMessages
  <2> QED
    BY <2>1, MessageTypes
<1>3. NoneHasSdp(d) /\ m # Null => SdpOf(m) = Null
  <2>1. NoBodies["SDP"] = Null
    BY DEF NoBodies, PartTypes
  <2> QED
    BY <1>1, <1>2, <2>1 DEF SdpOf
<1>4. /\ t.parser.bodies = p.bodies
      /\ m = Null => ~ t.parser.processingMessage /\ t.delivered = d
      /\ (m # Null /\ m.request.contentLength = 0) =>
           ~ t.parser.processingMessage /\ t.delivered = Append(d, m)
      /\ (m # Null /\ m.request.contentLength # 0) =>
           /\ t.parser.processingMessage /\ t.parser.receivedContentLength = 0
           /\ t.parser.sipMessage = m /\ t.parser.expecting = m.request.contentType
           /\ t.delivered = d
  BY <1>1, HeaderLoaded
<1> HIDE DEF t, m, p, d, S
<1>5. CASE m = Null
  BY <1>1, <1>4, <1>5 DEF SdpProgress, t
<1>6. CASE m # Null /\ m.request.contentLength = 0
  <2>1. SdpDone(Append(d, m), messages, marks) /\ (NoneHasSdp(Append(d, m)) => NoneHasSdp(d))
    <3>1. ~ (m.request.contentLength > 0)
      BY <1>6
    <3> QED
      BY <1>1, <1>2, <1>6, <3>1, DoneAppend
  <2> QED
    BY <1>1, <1>4, <1>6, <2>1 DEF SdpProgress, t
<1>7. CASE m # Null /\ m.request.contentLength # 0
  BY <1>1, <1>3, <1>4, <1>7 DEF SdpProgress, t
<1> QED
  BY <1>5, <1>6, <1>7

\* The first chunk of a body is the SDP, if the first portion is what it holds; a later
\* one changes nothing.
LEMMA BodyKeepsSdp ==
  ASSUME NEW n \in Nat, NEW s \in LoadStates(n), s.parser.processingMessage,
         NEW chunk \in Seq(Pieces(n)), chunk # <<>>, NEW remains \in Leftovers,
         NEW messages, NEW marks, SdpProgress(s.parser, s.delivered, messages, marks),
         (s.parser.receivedContentLength = 0) =>
           \E e \in Nat : LET k == s.parser.sipMessage.number
                          IN /\ IsFirstEnd(e, k, messages[k], marks)
                             /\ chunk = Portion(k, messages[k], e)
  PROVE  LET t == LoadBody(s, chunk, TextOf(chunk, BufSize, remains))
         IN SdpProgress(t.parser, t.delivered, messages, marks)
<1> DEFINE text == TextOf(chunk, BufSize, remains)
           t == LoadBody(s, chunk, text)
           p == s.parser
           d == s.delivered
           m == p.sipMessage
           u == t.parser.sipMessage
           S == Message(0 .. n)
           isSdp == m.request.contentType = "SDP"
           received == p.receivedContentLength + Len(chunk)
<1>1. /\ d \in Seq(S) /\ p \in Parsers(n) /\ p.receivedContentLength \in Nat /\ m \in S
      /\ m.request.contentLength \in Nat
  BY LoadStateTypes, MessageTypes
<1>2. /\ text \in Seq(Pieces(n)) /\ IsPrefix(chunk, text)
      /\ Len(chunk) \in Nat \ {0} /\ (Len(chunk) < BufSize => text = chunk)
  <2>1. Len(chunk) \in Nat \ {0}
    BY EmptySeq
  <2>2. BufSize \in Nat
    BY SizesAssumption
  <2>3. Len(chunk) < BufSize => text = chunk
    BY <2>1, <2>2 DEF TextOf
  <2> QED
    BY <2>1, <2>3, TextBegins
<1>3. text # Null
  <2>1. Null \notin Seq(Pieces(n))
    <3>1. Null \notin Seq(Udp!Pieces(n))
      BY Udp!NullIsNoData, UdpAssumptions
    <3> QED
      BY <3>1, SameData
  <2> QED
    BY <1>2, <2>1
<1> HIDE DEF text
<1>4. /\ u \in S /\ u.request = m.request /\ u.number = m.number
      /\ t.parser.bodies["SDP"] =
           IF p.expecting = "SDP" /\ p.bodies["SDP"] = Null THEN chunk ELSE p.bodies["SDP"]
      /\ SdpOf(u) = IF p.expecting = "SDP" /\ SdpOf(m) = Null THEN text ELSE SdpOf(m)
      /\ received >= m.request.contentLength =>
           ~ t.parser.processingMessage /\ t.delivered = Append(d, u)
      /\ ~ (received >= m.request.contentLength) =>
           /\ t.parser.processingMessage /\ t.parser.receivedContentLength = received
           /\ t.delivered = d
  BY <1>1, <1>2, BodyLoaded
<1>5. /\ SdpDone(d, messages, marks)
      /\ NoneHasSdp(d) =>
           /\ p.bodies["SDP"] # Null => SdpOf(m) # Null
           /\ isSdp => IF p.receivedContentLength = 0 THEN SdpOf(m) = Null /\ p.expecting = "SDP"
                       ELSE SdpOf(m) # Null /\ SdpMatches(m, messages, marks)
  BY DEF SdpProgress
<1>6. received \in Nat \ {0}
  BY <1>1, <1>2
<1>7. (p.receivedContentLength = 0) =>
        \E e \in Nat : /\ IsFirstEnd(e, m.number, messages[m.number], marks)
                       /\ chunk = Portion(m.number, messages[m.number], e)
  OBVIOUS
<1> HIDE DEF t, p, d, S, u, m, isSdp, received
<1>8. NoneHasSdp(d) => (t.parser.bodies["SDP"] # Null => SdpOf(u) # Null)
  BY <1>3, <1>4, <1>5
<1>9. ASSUME NoneHasSdp(d), isSdp PROVE SdpOf(u) # Null /\ SdpMatches(u, messages, marks)
  <2>1. CASE p.receivedContentLength = 0
    <3>1. SdpOf(u) = text
      BY <1>4, <1>5, <1>9, <2>1
    <3>2. Matches(text, chunk)
      BY <1>2 DEF Matches
    <3> QED
      BY <1>3, <1>4, <1>7, <2>1, <3>1, <3>2 DEF SdpMatches
  <2>2. CASE p.receivedContentLength # 0
    <3>1. SdpOf(m) # Null /\ SdpMatches(m, messages, marks)
      BY <1>5, <1>9, <2>2
    <3>2. SdpOf(u) = SdpOf(m)
      BY <1>4, <3>1
    <3> QED
      BY <1>4, <3>1, <3>2 DEF SdpMatches
  <2> QED
    BY <2>1, <2>2
<1>10. CASE received >= m.request.contentLength
  <2>1. /\ SdpDone(Append(d, u), messages, marks)
        /\ NoneHasSdp(Append(d, u)) => NoneHasSdp(d) /\ SdpOf(u) = Null
    <3>1. (NoneHasSdp(d) /\ u.request.contentType = "SDP" /\ u.request.contentLength > 0)
            => SdpMatches(u, messages, marks)
      BY <1>4, <1>9 DEF isSdp
    <3> QED
      BY <1>1, <1>4, <1>5, <3>1, DoneAppend
  <2>2. SdpProgress(t.parser, t.delivered, messages, marks)
    BY <1>4, <1>8, <1>10, <2>1 DEF SdpProgress
  <2> QED
    BY <2>2 DEF t, text
<1>11. CASE ~ (received >= m.request.contentLength)
  <2>1. SdpProgress(t.parser, d, messages, marks)
    <3>1. t.parser.processingMessage /\ t.parser.receivedContentLength # 0
      BY <1>4, <1>6, <1>11
    <3>2. t.parser.sipMessage = u /\ (u.request.contentType = "SDP" <=> isSdp)
      BY <1>4 DEF u, isSdp
    <3> QED
      BY <1>5, <1>8, <1>9, <3>1, <3>2 DEF SdpProgress
  <2>2. t.delivered = d
    BY <1>4, <1>11
  <2> QED
    BY <2>1, <2>2 DEF t, text
<1> QED
  BY <1>10, <1>11

-----------------------------------------------------------------------------
(* The read loop of such a connection *)

\* Where a read ends that leaves rest, which starts at the r-th place of its message.
CutAt(rest, r) == IF rest # <<>> /\ r > 1 THEN {<<rest[1].number, r - 1>>} ELSE {}

\* It ends in no header.
EndsClean(rest, r, messages) == rest # <<>> => r = 1 \/ r > HeaderLength(messages[rest[1].number])

\* The earlier ones ended before the place where the flow stands.
Behind(marks, flow, place) ==
  flow # <<>> => \A cut \in marks : \/ cut[1] < flow[1].number
                                    \/ cut[1] = flow[1].number /\ cut[2] < place[1]

\* The loop stands where its parser says, before what the read leaves.
Steady(s, place, rest, r, messages, marks) ==
  LET flow == Held(s.link) \o rest
  IN /\ Placed(flow, place, messages) /\ (rest # <<>> => place[Len(Held(s.link)) + 1] = r)
     /\ Progress(s.link.parser, s.delivered, flow, place, messages)
     /\ Behind(marks, flow, place)
     /\ SdpProgress(s.link.parser, s.delivered, messages, marks \cup CutAt(rest, r))

LEMMA FrontOfConcat ==
  ASSUME NEW S, NEW u \in Seq(S), NEW v \in Seq(S), NEW k \in 0 .. Len(u)
  PROVE  SubSeq(u \o v, 1, k) = SubSeq(u, 1, k)
<1> DEFINE all == u \o v
           a == SubSeq(u, 1, k)
           b == SubSeq(all, 1, k)
<1>1. /\ a \in Seq(S) /\ Len(a) = k /\ \A i \in 1 .. k : a[i] = u[i]
  BY FrontElements
<1>2. /\ all \in Seq(S) /\ Len(all) = Len(u) + Len(v) /\ Len(u) \in Nat /\ Len(v) \in Nat
      /\ \A i \in 1 .. Len(u) : all[i] = u[i]
  BY ConcatElements
<1> HIDE DEF all, a
<1>3. k \in 0 .. Len(all) /\ k \in Nat /\ k <= Len(u)
  BY <1>2
<1>4. b \in Seq(S) /\ Len(b) = k /\ \A i \in 1 .. k : b[i] = all[i]
  BY <1>2, <1>3, FrontElements
<1> HIDE DEF b
<1>5. \A i \in 1 .. k : a[i] = b[i]
  <2> SUFFICES ASSUME NEW i \in 1 .. k PROVE a[i] = b[i]
    OBVIOUS
  <2>1. i \in 1 .. Len(u)
    BY <1>2, <1>3
  <2> QED
    BY <1>1, <1>2, <1>4, <2>1
<1>6. a = b
  BY <1>1, <1>4, <1>5, SeqEqual
<1> QED
  BY <1>6 DEF a, b, all

\* What a flow holds behind what is in the ring.
LEMMA RestElements ==
  ASSUME NEW S, NEW u \in Seq(S), NEW v \in Seq(S)
  PROVE  /\ u \o v \in Seq(S) /\ Len(u \o v) = Len(u) + Len(v) /\ Len(u) \in Nat /\ Len(v) \in Nat
         /\ DOMAIN (u \o v) = 1 .. Len(u) + Len(v)
         /\ \A i \in 1 .. Len(u) : (u \o v)[i] = u[i]
         /\ v # <<>> => Len(u) + 1 \in 1 .. Len(u \o v) /\ (u \o v)[Len(u) + 1] = v[1]
         /\ v = <<>> => Len(u \o v) = Len(u)
<1>1. /\ u \o v \in Seq(S) /\ Len(u \o v) = Len(u) + Len(v) /\ Len(u) \in Nat /\ Len(v) \in Nat
      /\ DOMAIN (u \o v) = 1 .. Len(u) + Len(v)
      /\ \A i \in 1 .. Len(u) : (u \o v)[i] = u[i]
      /\ \A i \in 1 .. Len(v) : (u \o v)[Len(u) + i] = v[i]
  BY ConcatElements
<1>2. v # <<>> => Len(v) # 0
  BY EmptySeq
<1>3. v = <<>> => Len(v) = 0
  OBVIOUS
<1> DEFINE a == Len(u)
           b == Len(v)
           c == Len(u \o v)
<1>4. a \in Nat /\ b \in Nat /\ c = a + b
  BY <1>1
<1> HIDE DEF a, b, c
<1>5. b # 0 => 1 \in 1 .. b /\ a + 1 \in 1 .. c
  BY <1>4
<1>6. b = 0 => c = a
  BY <1>4
<1> QED
  BY <1>1, <1>2, <1>3, <1>5, <1>6 DEF a, b, c

\* How much a round pulls: a header, or what there is of the body.
LEMMA SteadyPull ==
  ASSUME NEW messages \in Seq(Messages), \A x \in DOMAIN messages : WellFormed(messages[x]),
         NEW rest \in Seq(Pieces(Len(messages))), NEW r \in Nat, EndsClean(rest, r, messages),
         NEW s \in LoopStates(Len(messages)), NEW place, NEW marks,
         Steady(s, place, rest, r, messages, marks), Held(s.link) # <<>>
  PROVE  LET flow == Held(s.link) \o rest
             k == PullCount(s.link)
             n == flow[1].number
             K == Left(flow, place, messages)
             held == Len(Held(s.link))
         IN /\ flow # <<>> /\ n \in DOMAIN messages /\ k \in 1 .. held /\ k \in 1 .. K
            /\ ~ s.link.parser.processingMessage => k = HeaderLength(messages[n])
            /\ s.link.parser.processingMessage => k = IF K < held THEN K ELSE held
<1> DEFINE stored == Held(s.link)
           flow == stored \o rest
           k == PullCount(s.link)
           n == flow[1].number
           m == messages[n]
           K == Left(flow, place, messages)
           held == Len(stored)
           all == Len(flow)
           h == HeaderLength(m)
           p == s.link.parser
<1>1. /\ Placed(flow, place, messages) /\ (rest # <<>> => place[held + 1] = r)
      /\ Progress(p, s.delivered, flow, place, messages)
  BY DEF Steady
<1>2. /\ s.link \in FitLinks(Len(messages)) /\ p \in Parsers(Len(messages))
      /\ s.link.pendingMessageBytes = PendingBytes(p) /\ Len(messages) \in Nat
  BY LoopStateTypes
<1>3. stored \in Seq(Pieces(Len(messages))) /\ held = Count(s.link)
  BY <1>2, HeldElements
<1>4. /\ flow \in Seq(Pieces(Len(messages))) /\ all = held + Len(rest) /\ held \in Nat
      /\ Len(rest) \in Nat /\ DOMAIN flow = 1 .. all /\ all \in Nat
      /\ \A i \in 1 .. held : flow[i] = stored[i]
      /\ rest # <<>> => held + 1 \in 1 .. all /\ flow[held + 1] = rest[1]
      /\ rest = <<>> => all = held
  <2> DEFINE S == Pieces(Len(messages))
  <2> HIDE DEF stored, S
  <2>0. stored \in Seq(S) /\ rest \in Seq(S)
    BY <1>3 DEF S
  <2>1. /\ stored \o rest \in Seq(S)
        /\ Len(stored \o rest) = Len(stored) + Len(rest) /\ Len(stored) \in Nat /\ Len(rest) \in Nat
        /\ DOMAIN (stored \o rest) = 1 .. Len(stored) + Len(rest)
        /\ \A i \in 1 .. Len(stored) : (stored \o rest)[i] = stored[i]
        /\ rest # <<>> => /\ Len(stored) + 1 \in 1 .. Len(stored \o rest)
                          /\ (stored \o rest)[Len(stored) + 1] = rest[1]
        /\ rest = <<>> => Len(stored \o rest) = Len(stored)
    BY <2>0, RestElements
  <2> HIDE DEF flow
  <2>2. flow \in Seq(Pieces(Len(messages))) /\ all \in Nat
    BY <2>1 DEF flow, S
  <2> QED
    BY <2>1, <2>2 DEF flow
<1>5. held # 0 /\ flow # <<>>
  <2>1. held # 0
    BY <1>3, EmptySeq
  <2>2. all # 0
    <3> HIDE DEF all, held
    <3> QED
      BY <1>4, <2>1
  <2> HIDE DEF flow
  <2> QED
    BY <2>1, <2>2
<1> HIDE DEF flow, stored
<1>6. /\ n \in DOMAIN messages /\ m \in Messages /\ place[1] \in 1 .. Len(m) /\ K \in 1 .. all
      /\ K = Len(m) - place[1] + 1
      /\ \A i \in DOMAIN flow : flow[i].number = n <=> i <= K
      /\ \A i \in 1 .. K : place[i] = place[1] + (i - 1)
  <2>1. Placed(flow, place, messages) /\ flow \in Seq(Pieces(Len(messages))) /\ flow # <<>>
    BY <1>1, <1>4, <1>5
  <2> QED
    BY <2>1, FirstRun
<1>7. WellFormed(m)
  BY <1>6
<1>8. \A i \in DOMAIN flow : flow[i].unit = messages[flow[i].number][place[i]]
  BY <1>1 DEF Placed
<1> HIDE DEF k, K, held, all, p
<1>9. CASE ~ p.processingMessage
  <2>1. place[1] = 1 /\ s.link.pendingMessageBytes = 0
    BY <1>1, <1>2, <1>5, <1>9 DEF Progress, PendingBytes
  <2>2. /\ Len(m) \in Nat /\ h \in 1 .. Len(m) /\ m[h].kind = "end" /\ h < BufSize
        /\ \A i \in 1 .. h - 1 : m[i].kind # "end"
    <3> HIDE DEF m
    <3> QED
      BY <1>6, <1>7, MessageFacts
  <2> DEFINE l == Len(m)
  <2> HIDE DEF n, h, l
  <2>3. /\ K = l /\ l \in Nat /\ h \in 1 .. K /\ h \in Nat
        /\ \A i \in 1 .. K : place[i] = i
    <3>1. K = l /\ l \in Nat
      BY <1>6, <2>1, <2>2 DEF l
    <3>2. h \in 1 .. l
      BY <2>2 DEF l
    <3> QED
      BY <1>6, <2>1, <3>1, <3>2
  <2>4. h <= held
    <3> SUFFICES ASSUME held < h PROVE FALSE
      BY <1>4, <2>3
    <3>1. held + 1 \in 1 .. K /\ held + 1 \in DOMAIN flow /\ held + 1 <= K /\ held # all
      <4>1. h <= K /\ K <= all /\ K \in Nat /\ all \in Nat /\ held \in Nat /\ DOMAIN flow = 1 .. all
        BY <1>4, <1>6, <2>3
      <4> QED
        BY <2>3, <4>1
    <3>2. rest # <<>>
      BY <1>4, <3>1
    <3>3. rest[1].number = n /\ r = held + 1
      BY <1>1, <1>4, <1>6, <2>3, <3>1, <3>2
    <3>4. r = 1 \/ r > h
      BY <3>2, <3>3 DEF EndsClean, h
    <3> QED
      BY <1>4, <1>5, <2>3, <3>3, <3>4
  <2>5. \A i \in 1 .. h : stored[i].unit = m[i]
    <3> SUFFICES ASSUME NEW i \in 1 .. h PROVE stored[i].unit = m[i]
      OBVIOUS
    <3>1. i \in 1 .. K /\ i \in 1 .. held /\ i \in DOMAIN flow /\ i <= K
      <4>1. /\ h \in Nat /\ K \in Nat /\ held \in Nat /\ all \in Nat
            /\ h <= K /\ K <= all /\ DOMAIN flow = 1 .. all
        BY <1>4, <1>6, <2>3
      <4> QED
        BY <2>4, <4>1
    <3>2. flow[i].number = n /\ place[i] = i
      BY <1>6, <2>3, <3>1
    <3> QED
      BY <1>4, <1>8, <3>1, <3>2
  <2>6. h \in 1 .. held /\ EndAt(stored, h) /\ \A j \in 1 .. h - 1 : ~ EndAt(stored, j)
    <3>1. h \in 1 .. h /\ \A j \in 1 .. h - 1 : j \in 1 .. h
      BY <2>3
    <3>2. h \in 1 .. held
      BY <1>4, <2>3, <2>4
    <3>3. m[h].kind = "end" /\ \A i \in 1 .. h - 1 : m[i].kind # "end"
      BY <2>2 DEF h
    <3> HIDE DEF m
    <3> QED
      BY <2>5, <3>1, <3>2, <3>3 DEF EndAt
  <2>7. k = h
    BY <1>2, <1>3, <2>1, <2>2, <2>6, PullCounts DEF k, held, stored, h
  <2> QED
    BY <1>5, <1>6, <1>9, <2>3, <2>6, <2>7 DEF k, K, held, stored, flow, p, n, h, m
<1>10. CASE p.processingMessage
  <2>1. PendingBytes(p) = K /\ K \in Nat \ {0}
    BY <1>1, <1>2, <1>4, <1>5, <1>7, <1>10, PendingIsLeft DEF K
  <2>2. k = IF K < held THEN K ELSE held
    <3>1. s.link.pendingMessageBytes > 0 /\ s.link.pendingMessageBytes = K
      BY <1>2, <2>1
    <3> QED
      BY <1>2, <1>3, <3>1, PullCounts DEF k
  <2>3. k \in 1 .. held /\ k \in 1 .. K
    BY <1>4, <1>5, <2>1, <2>2
  <2> QED
    BY <1>5, <1>6, <1>10, <2>2, <2>3 DEF k, K, held, stored, flow, p
<1> QED
  BY <1>9, <1>10

LEMMA BehindAdvance ==
  ASSUME NEW messages \in Seq(Messages), NEW flow \in Seq(Pieces(Len(messages))), NEW place,
         Placed(flow, place, messages), flow # <<>>, NEW k \in 1 .. Left(flow, place, messages),
         NEW marks, \A cut \in marks : cut[1] \in Nat /\ cut[2] \in Nat, Behind(marks, flow, place)
  PROVE  Behind(marks, SubSeq(flow, k + 1, Len(flow)), Shift(place, k, Len(flow)))
<1> DEFINE left == SubSeq(flow, k + 1, Len(flow))
           after == Shift(place, k, Len(flow))
           n == flow[1].number
           K == Left(flow, place, messages)
           r == place[1]
<1>1. /\ left \in Seq(Pieces(Len(messages))) /\ Placed(left, after, messages)
      /\ k < K => left # <<>> /\ left[1].number = n /\ after[1] = r + k
      /\ k = K => NextOf(left, messages) = n + 1 /\ (left # <<>> => after[1] = 1)
  BY Advance, ZenonT(30)
<1>2. n \in Nat /\ r \in Nat /\ K \in Nat
  <2>1. n \in DOMAIN messages /\ r \in 1 .. Len(messages[n]) /\ K \in 1 .. Len(flow)
    BY FirstRun
  <2> QED
    BY <2>1
<1>3. \A cut \in marks : cut[1] < n \/ (cut[1] = n /\ cut[2] < r)
  BY DEF Behind
<1>4. k \in 1 .. K
  OBVIOUS
<1> HIDE DEF left, after, n, K, r
<1>5. k \in Nat /\ k >= 1 /\ (k < K \/ k = K)
  BY <1>2, <1>4
<1>6. CASE k < K
  BY <1>1, <1>2, <1>3, <1>5, <1>6 DEF Behind, left, after
<1>7. CASE k = K
  <2>1. left # <<>> => left[1].number = n + 1
    BY <1>1, <1>7 DEF NextOf
  <2> QED
    BY <1>2, <1>3, <2>1 DEF Behind, left, after
<1> QED
  BY <1>5, <1>6, <1>7

\* The k bytes that a flow starts with are the first portion of the body of message n.
StartsBody(flow, k, n, messages, marks) ==
  \E e \in Nat : IsFirstEnd(e, n, messages[n], marks) /\ SubSeq(flow, 1, k) = Portion(n, messages[n], e)

\* The first that is pulled of a body is what the read, or the body, ends with.
LEMMA FirstChunkIsPortion ==
  ASSUME NEW messages \in Seq(Messages), \A x \in DOMAIN messages : WellFormed(messages[x]),
         NEW rest \in Seq(Pieces(Len(messages))), NEW r \in Nat,
         NEW s \in LoopStates(Len(messages)), NEW place, NEW marks,
         \A cut \in marks : cut[1] \in Nat /\ cut[2] \in Nat,
         Steady(s, place, rest, r, messages, marks), Held(s.link) # <<>>,
         s.link.parser.processingMessage, s.link.parser.receivedContentLength = 0,
         NEW k \in Nat,
         k = IF Left(Held(s.link) \o rest, place, messages) < Len(Held(s.link))
             THEN Left(Held(s.link) \o rest, place, messages) ELSE Len(Held(s.link))
  PROVE  StartsBody(Held(s.link) \o rest, k, s.link.parser.sipMessage.number, messages,
                    marks \cup CutAt(rest, r))
<1> DEFINE stored == Held(s.link)
           flow == stored \o rest
           n == flow[1].number
           m == messages[n]
           K == Left(flow, place, messages)
           held == Len(stored)
           all == Len(flow)
           h == HeaderLength(m)
           p == s.link.parser
           l == Len(m)
           S == Pieces(Len(messages))
<1>1. /\ Placed(flow, place, messages) /\ (rest # <<>> => place[held + 1] = r)
      /\ Progress(p, s.delivered, flow, place, messages) /\ Behind(marks, flow, place)
  BY DEF Steady
<1>2. s.link \in FitLinks(Len(messages)) /\ p \in Parsers(Len(messages)) /\ Len(messages) \in Nat
  BY LoopStateTypes
<1>3. stored \in Seq(S) /\ rest \in Seq(S)
  BY <1>2, HeldElements
<1>4. /\ flow \in Seq(S) /\ all = held + Len(rest) /\ held \in Nat
      /\ Len(rest) \in Nat /\ DOMAIN flow = 1 .. held + Len(rest)
      /\ \A i \in 1 .. held : flow[i] = stored[i]
      /\ rest # <<>> => held + 1 \in 1 .. all /\ flow[held + 1] = rest[1]
      /\ rest = <<>> => all = held
  <2> HIDE DEF stored, S
  <2> QED
    BY <1>3, RestElements
<1> HIDE DEF flow, stored
<1>5. flow # <<>> /\ p.sipMessage.number = n /\ place[1] = h + 1
  <2>1. /\ flow # <<>> /\ p.sipMessage.number = n
        /\ place[1] = h + p.receivedContentLength + 1
    BY <1>1 DEF Progress
  <2>2. n \in DOMAIN messages /\ m \in Messages
    BY <1>1, <1>4, <2>1, FirstRun
  <2>3. h \in 1 .. Len(m) /\ Len(m) \in Nat
    <3> HIDE DEF m
    <3> QED
      BY <2>2, MessageFacts
  <2>4. h \in Nat
    BY <2>3
  <2> HIDE DEF h
  <2> QED
    BY <2>1, <2>4
<1>6. /\ n \in DOMAIN messages /\ m \in Messages /\ place[1] \in 1 .. Len(m) /\ K \in 1 .. all
      /\ K = Len(m) - place[1] + 1
      /\ \A i \in DOMAIN flow : flow[i].number = n <=> i <= K
      /\ \A i \in 1 .. K : place[i] = place[1] + (i - 1)
  <2>1. Placed(flow, place, messages) /\ flow \in Seq(Pieces(Len(messages))) /\ flow # <<>>
    BY <1>1, <1>4, <1>5
  <2> QED
    BY <2>1, FirstRun
<1>7. /\ l \in Nat /\ h \in 1 .. l /\ h \in Nat
  <2>1. Len(m) \in Nat /\ HeaderLength(m) \in 1 .. Len(m)
    <3> HIDE DEF m
    <3> QED
      BY <1>6, MessageFacts
  <2> HIDE DEF h, l
  <2> QED
    BY <2>1 DEF h, l
<1>8. \A i \in DOMAIN flow : flow[i].unit = messages[flow[i].number][place[i]]
  BY <1>1 DEF Placed
<1>9. k = IF K < held THEN K ELSE held
  BY DEF flow, stored
<1>10. \A cut \in marks : cut[1] = n => cut[2] <= h
  <2> SUFFICES ASSUME NEW cut \in marks, cut[1] = n PROVE cut[2] <= h
    OBVIOUS
  <2>1. cut[1] < n \/ cut[2] < h + 1
    BY <1>1, <1>5 DEF Behind
  <2>2. cut[1] \in Nat /\ cut[2] \in Nat
    OBVIOUS
  <2> HIDE DEF n, h
  <2> QED
    BY <1>7, <2>1, <2>2
<1> DEFINE e == h + k
           ends == Ends(n, m, marks \cup CutAt(rest, r))
           chunk == SubSeq(flow, 1, k)
<1>11. K = l - h /\ K \in 1 .. all /\ all \in Nat /\ k \in 1 .. K /\ k <= held
       /\ \A i \in 1 .. K : place[i] = h + i
  <2>1. held # 0
    <3>1. stored # <<>>
      BY DEF stored
    <3> QED
      BY <1>3, <3>1, EmptySeq
  <2>2. K = l - (h + 1) + 1 /\ \A i \in 1 .. K : place[i] = (h + 1) + (i - 1)
    BY <1>5, <1>6
  <2>3. all \in Nat
    BY <1>4
  <2>4. K \in 1 .. all
    BY <1>6
  <2> HIDE DEF K, l, h, all, held
  <2>5. K \in Nat \ {0} /\ K = l - h /\ held \in Nat \ {0}
    BY <1>4, <1>7, <2>1, <2>2, <2>3, <2>4
  <2>6. k \in 1 .. K /\ k <= held
    BY <1>9, <2>5
  <2>7. \A i \in 1 .. K : place[i] = h + i
    BY <1>7, <2>2, <2>5
  <2> QED
    BY <2>3, <2>4, <2>5, <2>6, <2>7
<1>12. chunk = Portion(n, m, e)
  <2>1. k \in 0 .. Len(flow)
    <3> HIDE DEF K, all
    <3> QED
      BY <1>11 DEF all
  <2>2. chunk \in Seq(S) /\ Len(chunk) = k /\ \A i \in 1 .. k : chunk[i] = flow[i]
    BY <1>4, <2>1, FrontElements
  <2>3. \A i \in 1 .. k : flow[i] = [unit |-> m[h + i], number |-> n]
    <3> SUFFICES ASSUME NEW i \in 1 .. k PROVE flow[i] = [unit |-> m[h + i], number |-> n]
      OBVIOUS
    <3>1. i \in 1 .. K /\ i \in DOMAIN flow /\ i <= K
      <4> HIDE DEF K, held
      <4>1. i \in 1 .. K /\ i \in 1 .. held
        BY <1>4, <1>11
      <4>2. i \in 1 .. held + Len(rest) /\ i <= K
        BY <1>4, <1>11, <4>1
      <4> QED
        BY <1>4, <4>1, <4>2
    <3>2. flow[i].number = n /\ place[i] = h + i
      BY <1>6, <1>11, <3>1
    <3>3. flow[i].unit = m[h + i]
      BY <1>8, <3>1, <3>2
    <3>4. flow[i] \in Pieces(Len(messages))
      BY <1>4, <3>1, ElementType
    <3> HIDE DEF n, m, h
    <3> QED
      BY <3>2, <3>3, <3>4 DEF Pieces
  <2> HIDE DEF chunk, n, m, h
  <2>4. chunk = [i \in 1 .. k |-> chunk[i]]
    BY <2>2
  <2>5. e - h = k
    BY <1>7
  <2>6. Portion(n, m, e) = [i \in 1 .. k |-> [unit |-> m[h + i], number |-> n]]
    BY <2>5 DEF Portion, h
  <2>7. \A i \in 1 .. k : chunk[i] = [unit |-> m[h + i], number |-> n]
    BY <2>2, <2>3
  <2> QED
    BY <2>4, <2>6, <2>7
<1>13. e \in Nat /\ e <= l
  <2> HIDE DEF h, l, K
  <2> QED
    BY <1>7, <1>11
<1>14. e \in ends /\ \A x \in ends : e <= x
  <2>1. ends = {cut[2] : cut \in {x \in marks \cup CutAt(rest, r) : x[1] = n /\ x[2] > h}} \cup {l}
    BY DEF Ends
  <2>2. \A cut \in marks : ~ (cut[1] = n /\ cut[2] > h)
    <3> SUFFICES ASSUME NEW cut \in marks, cut[1] = n, cut[2] > h PROVE FALSE
      OBVIOUS
    <3>1. cut[2] <= h /\ cut[2] \in Nat
      BY <1>10
    <3> HIDE DEF h, n
    <3> QED
      BY <1>7, <3>1
  <2>3. CASE k = K
    <3>1. \A cut \in CutAt(rest, r) : cut[1] # n
      <4> SUFFICES ASSUME rest # <<>> PROVE rest[1].number # n
        BY DEF CutAt
      <4>1. held + 1 \in 1 .. all /\ flow[held + 1] = rest[1]
        BY <1>4
      <4>2. held + 1 \in DOMAIN flow /\ ~ (held + 1 <= K)
        <5>1. all = held + Len(rest) /\ DOMAIN flow = 1 .. held + Len(rest)
          BY <1>4
        <5> HIDE DEF K, held, all
        <5> QED
          BY <1>4, <1>11, <2>3, <4>1, <5>1
      <4> QED
        BY <1>6, <4>1, <4>2
    <3>2. ends = {l}
      <4> HIDE DEF ends, h, l, n
      <4> QED
        BY <2>1, <2>2, <3>1
    <3>3. e = l
      <4> HIDE DEF K, h, l
      <4> QED
        BY <1>7, <1>11, <2>3
    <3> HIDE DEF e, ends, l
    <3> QED
      BY <1>13, <3>2, <3>3
  <2>4. CASE k # K
    <3>1. k = held /\ held < K
      <4> HIDE DEF K, held
      <4> QED
        BY <1>4, <1>9, <1>11, <2>4
    <3>2. rest # <<>>
      <4>1. rest = <<>> => all = held
        BY <1>4
      <4> HIDE DEF K, all, held
      <4> QED
        BY <1>4, <1>11, <3>1, <4>1
    <3>3. held + 1 \in DOMAIN flow /\ held + 1 <= K /\ held + 1 \in 1 .. K
      <4>1. held + 1 \in 1 .. all /\ all = held + Len(rest) /\ DOMAIN flow = 1 .. held + Len(rest)
        BY <1>4, <3>2
      <4> HIDE DEF K, held, all
      <4> QED
        BY <1>4, <1>11, <3>1, <4>1
    <3>4. rest[1].number = n /\ r = h + (held + 1)
      BY <1>1, <1>4, <1>6, <1>11, <3>2, <3>3
    <3>5. r > 1 /\ r - 1 = e /\ e > h
      <4>1. h \in Nat /\ k \in 1 .. K /\ r = h + (k + 1)
        BY <1>7, <1>11, <3>1, <3>4
      <4>2. k \in Nat /\ k >= 1
        <5> HIDE DEF K
        <5> QED
          BY <4>1
      <4> HIDE DEF h, K
      <4> QED
        BY <4>1, <4>2
    <3>6. CutAt(rest, r) = {<<n, e>>}
      BY <3>2, <3>4, <3>5 DEF CutAt
    <3>7. ends = {e} \cup {l}
      <4> DEFINE cuttings == {x \in marks \cup CutAt(rest, r) : x[1] = n /\ x[2] > h}
                 cut == <<n, e>>
      <4>1. cut[1] = n /\ cut[2] = e
        OBVIOUS
      <4>2. CutAt(rest, r) = {cut} /\ cut[2] > h
        BY <3>5, <3>6
      <4>3. ends = {x[2] : x \in cuttings} \cup {l}
        BY <2>1
      <4> HIDE DEF cut, e, ends, h, l, n
      <4>4. cuttings = {cut}
        BY <2>2, <4>1, <4>2
      <4> HIDE DEF cuttings
      <4> QED
        BY <4>1, <4>3, <4>4
    <3> HIDE DEF e, ends, l
    <3> QED
      BY <1>13, <3>7
  <2> QED
    BY <2>3, <2>4
<1>15. IsFirstEnd(e, n, m, marks \cup CutAt(rest, r))
  BY <1>14 DEF IsFirstEnd
<1>16. StartsBody(flow, k, n, messages, marks \cup CutAt(rest, r))
  <2>1. e \in Nat /\ SubSeq(flow, 1, k) = Portion(n, m, e)
    BY <1>12, <1>13
  <2> HIDE DEF e, n
  <2> QED
    BY <1>15, <2>1 DEF StartsBody, m
<1> HIDE DEF e, n, m
<1> QED
  BY <1>5, <1>16 DEF flow, stored, p

\* A round of the loop, unless it ends the process.
LEMMA SteadyRound ==
  ASSUME NEW messages \in Seq(Messages), \A x \in DOMAIN messages : WellFormed(messages[x]),
         NEW rest \in Seq(Pieces(Len(messages))), NEW r \in Nat, EndsClean(rest, r, messages),
         NEW marks, \A cut \in marks : cut[1] \in Nat /\ cut[2] \in Nat,
         NEW s \in LoopStates(Len(messages)), s.running, NEW place,
         Steady(s, place, rest, r, messages, marks), Held(s.link) # <<>>,
         NEW remains \in Leftovers, PulledOnce(s, remains).running
  PROVE  \E after : Steady(PulledOnce(s, remains), after, rest, r, messages, marks)
<1> DEFINE t == PulledOnce(s, remains)
           stored == Held(s.link)
           flow == stored \o rest
           n == flow[1].number
           m == messages[n]
           K == Left(flow, place, messages)
           k == PullCount(s.link)
           p == s.link.parser
           given == Given(s)
           chunk == Chunked(s)
           text == TextOf(chunk, BufSize, remains)
           loaded == Loaded(s, remains)
           left == SubSeq(flow, k + 1, Len(flow))
           after == Shift(place, k, Len(flow))
           all == marks \cup CutAt(rest, r)
           N == Len(messages)
<1>1. /\ Placed(flow, place, messages) /\ (rest # <<>> => place[Len(stored) + 1] = r)
      /\ Progress(p, s.delivered, flow, place, messages) /\ Behind(marks, flow, place)
      /\ SdpProgress(p, s.delivered, messages, all)
  BY DEF Steady
<1>2. /\ flow # <<>> /\ n \in DOMAIN messages /\ k \in 1 .. Len(stored) /\ k \in 1 .. K
      /\ ~ p.processingMessage => k = HeaderLength(m)
      /\ p.processingMessage => k = IF K < Len(stored) THEN K ELSE Len(stored)
  BY SteadyPull
<1>3. /\ s.link \in FitLinks(N) /\ p \in Parsers(N) /\ N \in Nat /\ Counting(p)
      /\ p.processingMessage \in BOOLEAN
  <2>1. s.link \in FitLinks(N) /\ p \in Parsers(N) /\ N \in Nat /\ Counting(p)
    BY LoopStateTypes
  <2> QED
    BY <2>1 DEF Parsers
<1>4. stored \in Seq(Pieces(N)) /\ Len(stored) = Count(s.link)
  BY <1>3, HeldElements
<1>5. /\ flow \in Seq(Pieces(N)) /\ Len(flow) = Len(stored) + Len(rest) /\ Len(stored) \in Nat
      /\ Len(rest) \in Nat /\ \A i \in 1 .. Len(stored) : flow[i] = stored[i]
      /\ rest # <<>> => Len(stored) + 1 \in 1 .. Len(flow)
  <2> DEFINE S == Pieces(N)
  <2>1. stored \in Seq(S) /\ rest \in Seq(S)
    BY <1>4
  <2> HIDE DEF stored, S
  <2>2. /\ flow \in Seq(S) /\ Len(flow) = Len(stored) + Len(rest) /\ Len(stored) \in Nat
        /\ Len(rest) \in Nat /\ \A i \in 1 .. Len(stored) : flow[i] = stored[i]
        /\ rest # <<>> => Len(stored) + 1 \in 1 .. Len(flow)
    BY <2>1, RestElements
  <2> HIDE DEF flow
  <2> QED
    BY <2>2 DEF S
<1> HIDE DEF k, stored
<1>6. k \in Nat /\ k >= 1 /\ k \in 0 .. Len(stored) /\ k \in 1 .. Len(stored)
  <2> HIDE DEF K, flow
  <2> QED
    BY <1>2, <1>5
<1>7. /\ t \in LoopStates(N) /\ t.running = loaded.running /\ t.delivered = loaded.delivered
      /\ t.link.parser = loaded.parser
      /\ Held(t.link) = SubSeq(stored, k + 1, Len(stored))
  <2>1. k # 0
    <3> HIDE DEF K, flow
    <3> QED
      BY <1>6
  <2> HIDE DEF N
  <2>2. s \in LoopStates(N)
    BY DEF N
  <2>3. LET u == PulledOnce(s, remains)
            count == PullCount(s.link)
        IN /\ u \in LoopStates(N) /\ count \in 0 .. Count(s.link) /\ Count(s.link) \in Nat
           /\ (~ s.running \/ count = 0) => u = s
           /\ (s.running /\ count # 0) =>
                /\ u.running = Loaded(s, remains).running
                /\ u.delivered = Loaded(s, remains).delivered
                /\ u.link.parser = Loaded(s, remains).parser
                /\ u.link.status = s.link.status
                /\ Count(u.link) = Count(s.link) - count
                /\ Held(u.link) = SubSeq(Held(s.link), count + 1, Len(Held(s.link)))
    BY <1>3, <2>2, RoundForm
  <2> QED
    BY <2>1, <2>3 DEF k, stored
<1>8. /\ given \in LoadStates(N) /\ given.parser = p /\ given.running = s.running
      /\ given.delivered = s.delivered /\ chunk \in Seq(Pieces(N)) /\ Len(chunk) = k
      /\ text \in Seq(Pieces(N))
  <2> HIDE DEF N
  <2>1. s \in LoopStates(N)
    BY DEF N
  <2>2. /\ Given(s) \in LoadStates(N) /\ Given(s).parser = s.link.parser
        /\ Given(s).running = s.running /\ Given(s).delivered = s.delivered
        /\ Chunked(s) \in Seq(Pieces(N)) /\ Len(Chunked(s)) = PullCount(s.link)
        /\ \A i \in 1 .. PullCount(s.link) : Chunked(s)[i] = Held(s.link)[i]
        /\ TextOf(Chunked(s), BufSize, remains) \in Seq(Pieces(N))
    BY <1>3, <2>1, GivenTypes
  <2> QED
    BY <2>2 DEF k
<1>9. chunk = SubSeq(flow, 1, k)
  <2>1. SubSeq(stored \o rest, 1, k) = SubSeq(stored, 1, k)
    <3> DEFINE S == Pieces(N)
    <3>1. stored \in Seq(S) /\ rest \in Seq(S)
      BY <1>4
    <3> HIDE DEF S
    <3> QED
      BY <1>6, <3>1, FrontOfConcat
  <2> QED
    BY <2>1 DEF Chunked, k, stored
<1>10. Held(t.link) \o rest = left /\ Len(Held(t.link)) = Len(stored) - k
  <2> DEFINE S == Pieces(N)
             tail == SubSeq(stored, k + 1, Len(stored))
  <2>1. stored \in Seq(S) /\ rest \in Seq(S)
    BY <1>4
  <2>2. Held(t.link) = tail
    BY <1>7
  <2> HIDE DEF S
  <2>3. tail \o rest = left /\ Len(tail) = Len(stored) - k
    BY <1>6, <2>1, TailOfConcat, TailElements
  <2> QED
    BY <2>2, <2>3
<1>11. Placed(left, after, messages)
  <2> HIDE DEF flow
  <2> QED
    BY <1>1, <1>2, <1>5, Advance
<1>12. rest # <<>> => after[Len(stored) - k + 1] = r
  <2> SUFFICES ASSUME rest # <<>> PROVE after[Len(stored) - k + 1] = r
    OBVIOUS
  <2> DEFINE a == Len(stored)
             b == Len(flow)
             i == a - k + 1
  <2>1. a \in Nat /\ a + 1 \in 1 .. b /\ place[a + 1] = r /\ b \in Nat /\ k \in 1 .. a
    <3>1. b = Len(stored) + Len(rest) /\ Len(stored) \in Nat /\ Len(rest) \in Nat
          /\ a + 1 \in 1 .. b
      BY <1>5
    <3> HIDE DEF b, flow
    <3> QED
      BY <1>1, <1>6, <3>1
  <2> HIDE DEF a, b, flow
  <2>2. i \in 1 .. b - k /\ k + i = a + 1
    BY <1>6, <2>1
  <2> HIDE DEF i
  <2>3. after[i] = place[k + i]
    BY <2>2 DEF Shift, b
  <2> QED
    BY <2>1, <2>2, <2>3 DEF i, a
<1>13. Behind(marks, left, after)
  <2> HIDE DEF flow
  <2> QED
    BY <1>1, <1>2, <1>5, BehindAdvance
<1>14. WellFormed(m)
  BY <1>2
<1>15. SUFFICES Progress(loaded.parser, loaded.delivered, left, after, messages)
                /\ SdpProgress(loaded.parser, loaded.delivered, messages, all)
  <2> HIDE DEF t, left, after, loaded, all
  <2>1. Steady(t, after, rest, r, messages, marks)
    BY <1>7, <1>10, <1>11, <1>12, <1>13, <1>15 DEF Steady, all
  <2> QED
    BY <2>1 DEF t
<1>16. loaded = LoadMessageData(given, chunk, text)
  BY DEF Loaded
<1> HIDE DEF t, given, chunk, text, loaded, flow, left, after, all, K
<1>17. CASE ~ p.processingMessage
  <2>1. loaded = LoadHeader(given, chunk)
    <3>1. given.running /\ ~ given.parser.processingMessage /\ loaded.running
      BY <1>7, <1>8, <1>17 DEF t
    <3>2. Survives(given.parser, chunk)
      <4> SUFFICES ASSUME ~ Survives(given.parser, chunk) PROVE FALSE
        OBVIOUS
      <4>1. loaded = [given EXCEPT !.running = FALSE]
        BY <1>16, <3>1 DEF LoadMessageData
      <4> QED
        BY <1>8, <3>1, <4>1 DEF LoadStates
    <3> QED
      BY <1>16, <3>1, <3>2 DEF LoadMessageData
  <2>2. Progress(loaded.parser, loaded.delivered, left, after, messages)
    <3>1. k = HeaderLength(messages[flow[1].number])
      BY <1>2, <1>17
    <3>2. /\ ~ given.parser.processingMessage /\ Counting(given.parser)
          /\ Progress(given.parser, given.delivered, flow, place, messages)
      BY <1>1, <1>3, <1>8, <1>17
    <3>3. LET h == HeaderLength(messages[flow[1].number])
              u == LoadHeader(given, SubSeq(flow, 1, h))
          IN Progress(u.parser, u.delivered, SubSeq(flow, h + 1, Len(flow)),
                      Shift(place, h, Len(flow)), messages)
      <4> HIDE DEF p
      <4> QED
        BY <1>1, <1>2, <1>5, <1>8, <1>14, <3>2, HeaderRound
    <3> QED
      BY <1>9, <2>1, <3>1, <3>3 DEF left, after
  <2>3. SdpProgress(loaded.parser, loaded.delivered, messages, all)
    <3>1. /\ ~ given.parser.processingMessage /\ Counting(given.parser)
          /\ SdpProgress(given.parser, given.delivered, messages, all)
      BY <1>1, <1>3, <1>8, <1>17
    <3> QED
      BY <1>3, <1>8, <2>1, <3>1, HeaderKeepsSdp
  <2> QED
    BY <2>2, <2>3
<1>18. CASE p.processingMessage
  <2>1. loaded = LoadBody(given, chunk, text)
    <3>1. given.running /\ given.parser.processingMessage /\ loaded.running
      BY <1>7, <1>8, <1>18 DEF t
    <3>2. Survives(given.parser, chunk)
      <4> SUFFICES ASSUME ~ Survives(given.parser, chunk) PROVE FALSE
        OBVIOUS
      <4>1. loaded = [given EXCEPT !.running = FALSE]
        BY <1>16, <3>1 DEF LoadMessageData
      <4> QED
        BY <1>8, <3>1, <4>1 DEF LoadStates
    <3> QED
      BY <1>16, <3>1, <3>2 DEF LoadMessageData
  <2>2. /\ given.parser.processingMessage
        /\ Progress(given.parser, given.delivered, flow, place, messages)
        /\ SdpProgress(given.parser, given.delivered, messages, all)
    BY <1>1, <1>8, <1>18
  <2>3. Progress(loaded.parser, loaded.delivered, left, after, messages)
    <3>1. k \in 1 .. Left(flow, place, messages)
      BY <1>2 DEF K
    <3>2. LET u == LoadBody(given, SubSeq(flow, 1, k), text)
          IN Progress(u.parser, u.delivered, SubSeq(flow, k + 1, Len(flow)),
                      Shift(place, k, Len(flow)), messages)
      <4> HIDE DEF p
      <4> QED
        BY <1>1, <1>2, <1>5, <1>8, <1>14, <2>2, <3>1, BodyRound
    <3> QED
      BY <1>9, <2>1, <3>2 DEF left, after
  <2>4. SdpProgress(loaded.parser, loaded.delivered, messages, all)
    <3>1. chunk # <<>>
      <4>1. Len(chunk) # 0
        BY <1>6, <1>8
      <4> QED
        BY <4>1
    <3>2. ASSUME given.parser.receivedContentLength = 0
          PROVE  \E e \in Nat : LET x == given.parser.sipMessage.number
                                IN /\ IsFirstEnd(e, x, messages[x], all)
                                   /\ chunk = Portion(x, messages[x], e)
      <4>1. p.receivedContentLength = 0
        BY <1>8, <3>2
      <4>2. k = IF Left(flow, place, messages) < Len(stored)
                THEN Left(flow, place, messages) ELSE Len(stored)
        BY <1>2, <1>18 DEF K
      <4>3. \E e \in Nat : /\ IsFirstEnd(e, p.sipMessage.number, messages[p.sipMessage.number],
                                         marks \cup CutAt(rest, r))
                           /\ SubSeq(flow, 1, k) = Portion(p.sipMessage.number,
                                                           messages[p.sipMessage.number], e)
        <5>1. k = IF Left(Held(s.link) \o rest, place, messages) < Len(Held(s.link))
                  THEN Left(Held(s.link) \o rest, place, messages) ELSE Len(Held(s.link))
          BY <4>2 DEF stored, flow
        <5>2. /\ s.link.parser.processingMessage /\ s.link.parser.receivedContentLength = 0
              /\ k \in Nat
          BY <1>6, <1>18, <4>1
        <5>3. StartsBody(Held(s.link) \o rest, k, s.link.parser.sipMessage.number, messages,
                         marks \cup CutAt(rest, r))
          <6> HIDE DEF m, n, N, p
          <6> QED
            BY <5>1, <5>2, FirstChunkIsPortion
        <5> QED
          BY <5>3 DEF stored, flow, StartsBody
      <4> QED
        BY <1>8, <1>9, <4>3 DEF all
    <3>3. LET u == LoadBody(given, chunk, TextOf(chunk, BufSize, remains))
          IN SdpProgress(u.parser, u.delivered, messages, all)
      BY <1>3, <1>8, <2>2, <3>1, <3>2, BodyKeepsSdp
    <3> QED
      BY <2>1, <3>3 DEF text
  <2> QED
    BY <2>3, <2>4
<1> QED
  BY <1>3, <1>17, <1>18

\* The loop, unless it ends the process: nothing is left in the ring.
LEMMA SteadyLoop ==
  ASSUME NEW messages \in Seq(Messages), \A x \in DOMAIN messages : WellFormed(messages[x]),
         NEW rest \in Seq(Pieces(Len(messages))), NEW r \in Nat, EndsClean(rest, r, messages),
         NEW marks, \A cut \in marks : cut[1] \in Nat /\ cut[2] \in Nat,
         NEW first \in LoopStates(Len(messages)), NEW place,
         Steady(first, place, rest, r, messages, marks), NEW remains \in Leftovers
  PROVE  LET t == Drained(first, remains)
         IN t.running => Held(t.link) = <<>> /\ \E after : Steady(t, after, rest, r, messages, marks)
<1> DEFINE N == Len(messages)
           Kept(s) == s.running => \E after : Steady(s, after, rest, r, messages, marks)
           V == {s \in LoopStates(N) : Kept(s)}
           t == Drained(first, remains)
<1>1. N \in Nat /\ V \subseteq LoopStates(N) /\ first \in V
  OBVIOUS
<1>2. ASSUME NEW s \in V PROVE PulledOnce(s, remains) \in V
  <2> DEFINE u == PulledOnce(s, remains)
             count == PullCount(s.link)
  <2>1. s \in LoopStates(N) /\ Kept(s)
    OBVIOUS
  <2>2. /\ u \in LoopStates(N) /\ count \in 0 .. Count(s.link) /\ Count(s.link) \in Nat
        /\ (~ s.running \/ count = 0) => u = s
    <3> HIDE DEF N
    <3> QED
      BY <1>1, <2>1, RoundForm
  <2>3. Kept(u)
    <3>1. CASE ~ s.running \/ count = 0
      <4>1. u = s
        BY <2>2, <3>1
      <4> QED
        BY <2>1, <4>1
    <3>2. CASE s.running /\ count # 0 /\ u.running
      <4>1. PICK here : Steady(s, here, rest, r, messages, marks)
        BY <2>1, <3>2
      <4>2. Held(s.link) # <<>>
        <5>1. s.link \in FitLinks(N)
          BY <2>1, LoopStateTypes
        <5>2. Held(s.link) \in Seq(Pieces(N)) /\ Len(Held(s.link)) = Count(s.link)
          BY <1>1, <5>1, HeldElements
        <5>3. Count(s.link) # 0
          <6> HIDE DEF count
          <6> QED
            BY <2>2, <3>2
        <5> QED
          BY <5>2, <5>3
      <4>3. \E after : Steady(PulledOnce(s, remains), after, rest, r, messages, marks)
        BY <2>1, <3>2, <4>1, <4>2, SteadyRound
      <4> QED
        BY <4>3
    <3>3. CASE ~ u.running
      BY <3>3
    <3> HIDE DEF u, count
    <3> QED
      BY <3>1, <3>2, <3>3
  <2> HIDE DEF u, Kept
  <2>4. u \in V
    BY <2>2, <2>3
  <2> QED
    BY <2>4 DEF u
<1>3. t \in V /\ (t.running => PullCount(t.link) = 0)
  <2> HIDE DEF V, N
  <2> QED
    BY <1>1, <1>2, DrainedEnds
<1> HIDE DEF t
<1>4. SUFFICES ASSUME t.running
               PROVE  Held(t.link) = <<>> /\ \E after : Steady(t, after, rest, r, messages, marks)
  BY DEF t
<1>5. t \in LoopStates(N) /\ PullCount(t.link) = 0
  BY <1>3, <1>4
<1>6. PICK after : Steady(t, after, rest, r, messages, marks)
  BY <1>3, <1>4
<1>7. ASSUME Held(t.link) # <<>> PROVE FALSE
  <2>1. PullCount(t.link) \in 1 .. Len(Held(t.link))
    BY <1>5, <1>6, <1>7, SteadyPull
  <2> QED
    BY <1>5, <2>1
<1> QED
  BY <1>6, <1>7

\* Reads that end further on end no first portion.
LEMMA LaterCut ==
  ASSUME NEW messages, NEW marks, NEW k, NEW n, NEW x \in Nat, NEW e,
         IsFirstEnd(e, k, messages[k], marks), k = n => e <= x
  PROVE  IsFirstEnd(e, k, messages[k], marks \cup {<<n, x>>})
<1> DEFINE m == messages[k]
           h == HeaderLength(m)
           cut == <<n, x>>
           more == marks \cup {cut}
<1>1. cut[1] = n /\ cut[2] = x
  OBVIOUS
<1> HIDE DEF cut
<1>2. \A y : y \in Ends(k, m, more) =>
               y \in Ends(k, m, marks) \/ (n = k /\ y = x)
  BY <1>1 DEF Ends
<1>3. \A y : y \in Ends(k, m, marks) => y \in Ends(k, m, more)
  BY DEF Ends
<1>4. IsFirstEnd(e, k, m, more)
  BY <1>2, <1>3 DEF IsFirstEnd
<1> QED
  BY <1>4 DEF m, more, cut

LEMMA MatchesLater ==
  ASSUME NEW request, NEW messages, NEW marks, NEW n, NEW x \in Nat,
         SdpMatches(request, messages, marks),
         request.number = n => \A e \in Nat : IsFirstEnd(e, n, messages[n], marks) => e <= x
  PROVE  SdpMatches(request, messages, marks \cup {<<n, x>>})
<1> DEFINE k == request.number
           more == marks \cup {<<n, x>>}
<1>1. PICK e \in Nat : /\ IsFirstEnd(e, k, messages[k], marks)
                       /\ Matches(SdpOf(request), Portion(k, messages[k], e))
  BY DEF SdpMatches
<1>2. k = n => e <= x
  BY <1>1
<1>3. IsFirstEnd(e, k, messages[k], more)
  <2> HIDE DEF k
  <2> QED
    BY <1>1, <1>2, LaterCut
<1> HIDE DEF more
<1>4. SdpMatches(request, messages, more)
  BY <1>1, <1>3 DEF SdpMatches
<1> QED
  BY <1>4 DEF more

\* Where a flow stands behind its first k.
LEMMA TailStands ==
  ASSUME NEW messages \in Seq(Messages), NEW flow \in Seq(Pieces(Len(messages))), NEW place,
         Placed(flow, place, messages), NEW k \in Nat, k + 1 \in DOMAIN flow
  PROVE  LET f == flow[1].number
             n == flow[k + 1].number
         IN /\ f \in Nat /\ n \in Nat /\ f <= n /\ place[1] \in Nat /\ place[k + 1] \in Nat
            /\ f = n => place[k + 1] = place[1] + k
<1> DEFINE f == flow[1].number
           j == k + 1
           n == flow[j].number
<1>1. 1 \in DOMAIN flow /\ j \in DOMAIN flow /\ 1 <= j /\ j - 1 = k /\ j \in Nat
  <2>1. DOMAIN flow = 1 .. Len(flow) /\ Len(flow) \in Nat
    OBVIOUS
  <2> QED
    BY <2>1
<1> HIDE DEF j
<1>2. f <= n /\ (f = n => place[j] - place[1] = j - 1) /\ f \in DOMAIN messages /\ n \in DOMAIN messages
  BY <1>1 DEF Placed
<1>3. place[1] \in Nat /\ place[j] \in Nat
  BY <1>1 DEF Placed
<1>4. f \in Nat /\ n \in Nat
  BY <1>2
<1> HIDE DEF f, n
<1>5. f = n => place[j] = place[1] + k
  BY <1>1, <1>2, <1>3
<1> QED
  BY <1>2, <1>3, <1>4, <1>5 DEF f, n, j

LEMMA BehindTail ==
  ASSUME NEW messages \in Seq(Messages), NEW flow \in Seq(Pieces(Len(messages))), NEW place,
         Placed(flow, place, messages), NEW k \in 0 .. Len(flow),
         NEW marks, \A cut \in marks : cut[1] \in Nat /\ cut[2] \in Nat, Behind(marks, flow, place)
  PROVE  Behind(marks, SubSeq(flow, k + 1, Len(flow)), Shift(place, k, Len(flow)))
<1> DEFINE rest == SubSeq(flow, k + 1, Len(flow))
           after == Shift(place, k, Len(flow))
           last == Len(flow)
           j == k + 1
<1>1. /\ rest \in Seq(Pieces(Len(messages))) /\ Len(rest) = last - k /\ last \in Nat
      /\ \A i \in 1 .. last - k : rest[i] = flow[k + i] /\ after[i] = place[k + i]
  BY TailElements DEF Shift
<1> HIDE DEF rest, after
<1>2. SUFFICES ASSUME rest # <<>>
               PROVE  \A cut \in marks : \/ cut[1] < rest[1].number
                                         \/ cut[1] = rest[1].number /\ cut[2] < after[1]
  BY DEF Behind, rest, after
<1>3. Len(rest) # 0
  BY <1>1, <1>2
<1>4. k \in Nat /\ 1 \in 1 .. last - k /\ j \in 1 .. last /\ flow # <<>>
  <2>1. last # 0
    BY <1>1, <1>3
  <2> QED
    BY <1>1, <1>3, <2>1
<1>5. rest[1] = flow[j] /\ after[1] = place[j]
  BY <1>1, <1>4
<1>6. /\ flow[1].number \in Nat /\ flow[j].number \in Nat /\ flow[1].number <= flow[j].number
      /\ place[1] \in Nat /\ place[j] \in Nat
      /\ flow[1].number = flow[j].number => place[j] = place[1] + k
  <2>1. k + 1 \in DOMAIN flow
    BY <1>4
  <2> QED
    BY <1>4, <2>1, TailStands
<1> HIDE DEF j
<1>7. \A cut \in marks : \/ cut[1] < flow[1].number
                         \/ cut[1] = flow[1].number /\ cut[2] < place[1]
  BY <1>4 DEF Behind
<1>8. ASSUME NEW cut \in marks
      PROVE  cut[1] < rest[1].number \/ (cut[1] = rest[1].number /\ cut[2] < after[1])
  <2>1. cut[1] \in Nat /\ cut[2] \in Nat
    OBVIOUS
  <2>2. CASE cut[1] < flow[1].number
    BY <1>5, <1>6, <2>1, <2>2
  <2>3. CASE cut[1] = flow[1].number /\ cut[2] < place[1]
    BY <1>4, <1>5, <1>6, <2>1, <2>3
  <2> QED
    BY <1>7, <2>2, <2>3
<1> QED
  BY <1>8

\* Where the read ends that comes next changes nothing of the first SDP, for it ends
\* behind the one before.
LEMMA SdpLater ==
  ASSUME NEW messages \in Seq(Messages), NEW flow \in Seq(Pieces(Len(messages))), NEW place,
         Placed(flow, place, messages), NEW k \in 0 .. Len(flow), NEW marks,
         NEW p \in Parsers(Len(messages)), NEW requests, Progress(p, requests, flow, place, messages),
         flow # <<>> => CutAt(flow, place[1]) \subseteq marks, SdpProgress(p, requests, messages, marks),
         NEW r \in Nat, k + 1 \in DOMAIN flow => place[k + 1] = r
  PROVE  SdpProgress(p, requests, messages, marks \cup CutAt(SubSeq(flow, k + 1, Len(flow)), r))
<1> DEFINE rest == SubSeq(flow, k + 1, Len(flow))
           last == Len(flow)
           j == k + 1
           more == marks \cup CutAt(rest, r)
<1>1. /\ rest \in Seq(Pieces(Len(messages))) /\ Len(rest) = last - k /\ last \in Nat /\ k \in Nat
      /\ DOMAIN flow = 1 .. last /\ \A i \in 1 .. last - k : rest[i] = flow[k + i]
  BY TailElements
<1> HIDE DEF rest
<1>2. CASE CutAt(rest, r) = {}
  <2>1. more = marks
    BY <1>2
  <2> QED
    BY <2>1 DEF rest
<1>3. CASE CutAt(rest, r) # {}
  <2> DEFINE f == flow[1].number
             n == flow[j].number
             x == r - 1
             h == HeaderLength(messages[f])
             m == p.sipMessage
  <2>1. rest # <<>> /\ r > 1
    BY <1>3 DEF CutAt
  <2>2. 1 \in 1 .. last - k /\ j \in 1 .. last /\ flow # <<>>
    <3>1. Len(rest) # 0
      BY <1>1, <2>1
    <3>2. 1 \in 1 .. last - k /\ j \in 1 .. last
      BY <1>1, <3>1
    <3> QED
      BY <1>1, <3>2
  <2>3. rest[1] = flow[j] /\ place[j] = r
    BY <1>1, <2>2
  <2>4. more = marks \cup {<<n, x>>} /\ x \in Nat /\ r = x + 1
    BY <2>1, <2>3 DEF CutAt
  <2>5. /\ f \in Nat /\ n \in Nat /\ f <= n /\ place[1] \in Nat
        /\ f = n => r = place[1] + k
    <3>1. k + 1 \in DOMAIN flow
      BY <1>1, <2>2
    <3> HIDE DEF f, n
    <3>2. /\ flow[1].number \in Nat /\ flow[j].number \in Nat /\ flow[1].number <= flow[j].number
          /\ place[1] \in Nat /\ place[j] \in Nat
          /\ flow[1].number = flow[j].number => place[j] = place[1] + k
      BY <1>1, <3>1, TailStands
    <3> QED
      BY <2>3, <3>2 DEF f, n
  <2> HIDE DEF more, x, j
  <2>6. \A i \in DOMAIN requests : requests[i].number < n
    <3> SUFFICES ASSUME NEW i \in DOMAIN requests PROVE requests[i].number < n
      OBVIOUS
    <3>1. requests[i].number \in BuiltBelow(messages, f)
      BY <2>2 DEF Progress, Numbers, NextOf
    <3>2. requests[i].number \in 1 .. f - 1
      BY <3>1 DEF BuiltBelow
    <3> HIDE DEF f, n
    <3> QED
      BY <2>5, <3>2
  <2>7. SdpDone(requests, messages, more)
    <3> SUFFICES ASSUME NEW i \in DOMAIN requests, requests[i].request.contentType = "SDP",
                        requests[i].request.contentLength > 0,
                        \A y \in 1 .. i - 1 : SdpOf(requests[y]) = Null
                 PROVE  SdpMatches(requests[i], messages, more)
      BY DEF SdpDone
    <3>1. SdpMatches(requests[i], messages, marks)
      BY DEF SdpProgress, SdpDone
    <3>2. requests[i].number # n
      <4>1. requests[i].number < n
        BY <2>6
      <4> HIDE DEF n
      <4> QED
        BY <2>5, <4>1
    <3> QED
      BY <2>4, <3>1, <3>2, MatchesLater
  <2>8. ASSUME NoneHasSdp(requests), p.processingMessage, m.request.contentType = "SDP",
               p.receivedContentLength # 0
        PROVE  SdpMatches(m, messages, more)
    <3>1. SdpMatches(m, messages, marks)
      BY <2>8 DEF SdpProgress
    <3>2. m.number = f /\ place[1] = h + p.receivedContentLength + 1
      BY <2>8 DEF Progress
    <3>3. h \in Nat /\ f \in DOMAIN messages
      <4>1. f \in DOMAIN messages /\ messages[f] \in Messages
        BY <2>2, FirstRun
      <4>2. \A y \in Messages : HeaderLength(y) \in 1 .. Len(y) /\ Len(y) \in Nat
        BY MessageFacts
      <4>3. HeaderLength(messages[f]) \in Nat
        BY <4>1, <4>2
      <4> QED
        BY <4>1, <4>3
    <3>4. p.receivedContentLength \in Nat
      BY DEF Parsers
    <3>5. ASSUME f = n, NEW e \in Nat, IsFirstEnd(e, n, messages[n], marks) PROVE e <= x
      <4> DEFINE before == place[1] - 1
                 got == p.receivedContentLength
      <4>1. before = h + got /\ got \in Nat \ {0} /\ h \in Nat /\ place[1] > 1
        <5> HIDE DEF h
        <5> QED
          BY <2>8, <3>2, <3>3, <3>4
      <4>2. before > h /\ before <= x
        <5>1. r = place[1] + k
          BY <2>5, <3>5
        <5> HIDE DEF h, got
        <5> QED
          BY <1>1, <2>4, <2>5, <4>1, <5>1
      <4> DEFINE cut == <<f, before>>
      <4>3. cut \in marks
        BY <2>2, <4>1 DEF CutAt
      <4>4. cut[1] = f /\ cut[2] = before
        OBVIOUS
      <4> HIDE DEF cut, before
      <4>5. before \in Ends(n, messages[n], marks)
        BY <3>5, <4>2, <4>3, <4>4 DEF Ends
      <4>6. e <= before
        BY <3>5, <4>5 DEF IsFirstEnd
      <4>7. before \in Nat
        <5> HIDE DEF h, got
        <5> QED
          BY <4>1
      <4> QED
        BY <2>4, <4>2, <4>6, <4>7
    <3>6. m.number = n => \A e \in Nat : IsFirstEnd(e, n, messages[n], marks) => e <= x
      <4> HIDE DEF f, n, m, h
      <4> QED
        BY <3>2, <3>5
    <3> HIDE DEF m, n
    <3> QED
      BY <2>4, <3>1, <3>6, MatchesLater
  <2>9. SdpProgress(p, requests, messages, more)
    BY <2>7, <2>8 DEF SdpProgress
  <2> QED
    BY <2>9 DEF more, rest
<1> QED
  BY <1>2, <1>3

\* Where the unread part of a stream stands.
Standing(flow, place, messages, marks) ==
  /\ Placed(flow, place, messages) /\ Behind(marks, flow, place)
  /\ flow # <<>> => CutAt(flow, place[1]) \subseteq marks

\* A connection between two reads.
AtRest(link, requests, flow, place, messages, marks) ==
  /\ Held(link) = <<>> /\ Progress(link.parser, requests, flow, place, messages)
  /\ SdpProgress(link.parser, requests, messages, marks)

\* The mark that a read leaves is behind what it leaves unread.
LEMMA MarkIsBehind ==
  ASSUME NEW flow, NEW place, NEW messages, NEW marks, Placed(flow, place, messages),
         flow # <<>> => place[1] \in Nat, Behind(marks, flow, place)
  PROVE  LET r == IF flow = <<>> THEN 0 ELSE place[1]
         IN Standing(flow, place, messages, marks \cup CutAt(flow, r))
<1> DEFINE r == IF flow = <<>> THEN 0 ELSE place[1]
           more == marks \cup CutAt(flow, r)
<1>1. flow # <<>> => CutAt(flow, place[1]) \subseteq more
  OBVIOUS
<1>2. ASSUME flow # <<>>, NEW cut \in CutAt(flow, r)
      PROVE  cut[1] = flow[1].number /\ cut[2] < place[1]
  <2>1. place[1] > 1 /\ cut = <<flow[1].number, place[1] - 1>>
    BY <1>2 DEF CutAt
  <2>2. cut[1] = flow[1].number /\ cut[2] = place[1] - 1
    BY <2>1
  <2> QED
    BY <1>2, <2>2
<1>3. Behind(more, flow, place)
  BY <1>2 DEF Behind
<1> HIDE DEF more
<1>4. Standing(flow, place, messages, more)
  BY <1>1, <1>3 DEF Standing
<1> QED
  BY <1>4 DEF more

\* What a read adds to an empty ring is all that the ring holds.
LEMMA ReadIsPushed ==
  ASSUME NEW n \in Nat, NEW link \in SoundLinks(n), NEW flow \in Seq(Pieces(n)),
         NEW count \in 1 .. Len(flow), NEW live \in BOOLEAN,
         NEW requests \in Seq(Message(0 .. n)), Count(link) = 0, count <= ReadSize
  PROVE  LET fuller == Push(link, SubSeq(flow, 1, count))
             first == [link |-> fuller, running |-> live, delivered |-> requests]
         IN /\ first \in LoopStates(n) /\ fuller.parser = link.parser
            /\ Held(fuller) = SubSeq(flow, 1, count)
            /\ Held(fuller) \o SubSeq(flow, count + 1, Len(flow)) = flow
<1> DEFINE bytes == SubSeq(flow, 1, count)
           rest == SubSeq(flow, count + 1, Len(flow))
           fuller == Push(link, bytes)
           first == [link |-> fuller, running |-> live, delivered |-> requests]
<1>1. count \in 0 .. Len(flow) /\ Len(flow) \in Nat /\ count \in Nat
  OBVIOUS
<1>2. count <= Capacity - Count(link)
  BY <1>1, SizesAssumption
<1>3. /\ first \in LoopStates(n) /\ first.link = fuller
      /\ first.running = live /\ first.delivered = requests
      /\ fuller.parser = link.parser /\ fuller.status = link.status
      /\ fuller.pendingMessageBytes = link.pendingMessageBytes
      /\ Held(fuller) = IF count <= Capacity - Count(link)
                        THEN Held(link) \o SubSeq(flow, 1, count) ELSE Held(link)
  <2>1. count \in 0 .. Len(flow)
    BY <1>1
  <2> QED
    BY <2>1, FirstState
<1>4. rest \in Seq(Pieces(n)) /\ bytes \in Seq(Pieces(n)) /\ Len(bytes) = count
  BY <1>1, TailElements, FrontElements
<1> HIDE DEF first, fuller
<1>5. Held(fuller) = bytes /\ bytes \o rest = flow
  <2> DEFINE S == Pieces(n)
  <2>1. flow \in Seq(S) /\ bytes \in Seq(S) /\ rest \in Seq(S) /\ <<>> \in Seq(S)
    BY <1>4
  <2>2. \A u \in Seq(S) : <<>> \o u = u
    <3> HIDE DEF S
    <3> QED
      OBVIOUS
  <2>3. (<<>> \o bytes) \o rest = <<>> \o flow
    <3> HIDE DEF S
    <3> QED
      BY <1>1, <2>1, ConcatInParts
  <2>4. Held(fuller) = <<>> \o bytes
    <3>1. Held(link) \in Seq(S) /\ Len(Held(link)) = 0
      BY SoundLinkTypes, HeldElements
    <3> HIDE DEF S
    <3>2. Held(link) = <<>>
      BY <3>1
    <3> QED
      BY <1>2, <1>3, <3>2
  <2> HIDE DEF S, bytes, rest
  <2> QED
    BY <2>1, <2>2, <2>3, <2>4
<1> QED
  BY <1>3, <1>5 DEF first, fuller

\* A read has brought a connection to rest where r is the place that it leaves unread.
RestsBefore(t, rest, r, messages, marks) ==
  \E after : /\ rest # <<>> => after[1] = r
             /\ Placed(rest, after, messages) /\ Behind(marks, rest, after)
             /\ AtRest(t.link, t.delivered, rest, after, messages, marks \cup CutAt(rest, r))

\* A read, unless it ends the process.
LEMMA ReadKeepsRest ==
  ASSUME NEW messages \in Seq(Messages), \A x \in DOMAIN messages : WellFormed(messages[x]),
         NEW link \in SoundLinks(Len(messages)), NEW flow \in Seq(Pieces(Len(messages))), NEW place,
         NEW count \in 1 .. Len(flow), count <= ReadSize,
         NEW requests \in Seq(Message(0 .. Len(messages))), NEW remains \in Leftovers,
         NEW marks, \A cut \in marks : cut[1] \in Nat /\ cut[2] \in Nat,
         Standing(flow, place, messages, marks),
         AtRest(link, requests, flow, place, messages, marks),
         NEW r \in Nat, count + 1 \in DOMAIN flow => place[count + 1] = r,
         EndsClean(SubSeq(flow, count + 1, Len(flow)), r, messages),
         Received(link, flow, count, TRUE, requests, remains).running
  PROVE  RestsBefore(Received(link, flow, count, TRUE, requests, remains),
                     SubSeq(flow, count + 1, Len(flow)), r, messages, marks)
<1> DEFINE N == Len(messages)
           rest == SubSeq(flow, count + 1, Len(flow))
           more == marks \cup CutAt(rest, r)
           bytes == SubSeq(flow, 1, count)
           fuller == Push(link, bytes)
           first == [link |-> fuller, running |-> TRUE, delivered |-> requests]
           t == Received(link, flow, count, TRUE, requests, remains)
<1>1. /\ N \in Nat /\ count \in 0 .. Len(flow) /\ Len(flow) \in Nat /\ count \in Nat
      /\ Count(link) = 0
  <2>1. Held(link) = <<>>
    BY DEF AtRest
  <2>2. Len(Held(link)) = Count(link)
    BY SoundLinkTypes, HeldElements
  <2> QED
    BY <2>1, <2>2
<1>2. /\ first \in LoopStates(N) /\ fuller.parser = link.parser
      /\ Held(fuller) = bytes /\ Held(fuller) \o rest = flow
  <2> DEFINE live == TRUE
             begin == [link |-> fuller, running |-> live, delivered |-> requests]
  <2>1. /\ link \in SoundLinks(N) /\ flow \in Seq(Pieces(N)) /\ requests \in Seq(Message(0 .. N))
        /\ live \in BOOLEAN
    OBVIOUS
  <2> HIDE DEF N, live
  <2>2. /\ begin \in LoopStates(N) /\ fuller.parser = link.parser
        /\ Held(fuller) = bytes /\ Held(fuller) \o rest = flow
    BY <1>1, <2>1, ReadIsPushed, ZenonT(40)
  <2> HIDE DEF fuller, rest
  <2> QED
    BY <2>2 DEF live
<1>3. first.link = fuller /\ first.running /\ first.delivered = requests
  OBVIOUS
<1>4. rest \in Seq(Pieces(N)) /\ bytes \in Seq(Pieces(N)) /\ Len(bytes) = count
  BY <1>1, TailElements, FrontElements
<1>5. Held(fuller) = bytes /\ bytes \o rest = flow
  BY <1>2
<1> HIDE DEF fuller
<1>6. rest # <<>> => count + 1 \in DOMAIN flow
  <2>1. Len(rest) = Len(flow) - count /\ DOMAIN flow = 1 .. Len(flow) /\ (rest # <<>> => Len(rest) # 0)
    BY <1>1, <1>4, TailElements, EmptySeq
  <2> HIDE DEF rest
  <2> QED
    BY <1>1, <2>1
<1>7. SdpProgress(link.parser, requests, messages, more)
  <2>1. /\ link.parser \in Parsers(N) /\ Progress(link.parser, requests, flow, place, messages)
        /\ Placed(flow, place, messages) /\ (flow # <<>> => CutAt(flow, place[1]) \subseteq marks)
        /\ SdpProgress(link.parser, requests, messages, marks)
    BY <1>1, SoundLinkTypes, LinkTypes DEF AtRest, Standing
  <2> DEFINE p == link.parser
  <2> HIDE DEF p, rest
  <2>2. SdpProgress(p, requests, messages, marks \cup CutAt(SubSeq(flow, count + 1, Len(flow)), r))
    BY <1>1, <2>1, SdpLater DEF p
  <2> QED
    BY <2>2 DEF p, rest
<1>8. Steady(first, place, rest, r, messages, marks)
  <2>1. /\ Held(first.link) \o rest = flow /\ Len(Held(first.link)) = count
        /\ first.link.parser = link.parser /\ first.delivered = requests
    BY <1>2, <1>3, <1>4, <1>5
  <2>2. /\ Placed(flow, place, messages) /\ Behind(marks, flow, place)
        /\ Progress(link.parser, requests, flow, place, messages)
        /\ rest # <<>> => place[count + 1] = r
    BY <1>6 DEF AtRest, Standing
  <2> HIDE DEF first, rest, more
  <2> QED
    BY <1>7, <2>1, <2>2 DEF Steady, more
<1>9. t = Drained(first, remains)
  BY DEF Received, fuller
<1> HIDE DEF first, t
<1>10. Held(t.link) = <<>> /\ \E after : Steady(t, after, rest, r, messages, marks)
  <2>1. EndsClean(rest, r, messages) /\ Drained(first, remains).running
    BY <1>9 DEF t
  <2> HIDE DEF rest, bytes, fuller
  <2>2. first \in LoopStates(Len(messages)) /\ rest \in Seq(Pieces(Len(messages)))
    BY <1>2, <1>4
  <2> HIDE DEF N, more
  <2>3. LET u == Drained(first, remains)
        IN u.running => Held(u.link) = <<>> /\ \E after : Steady(u, after, rest, r, messages, marks)
    BY <1>8, <2>1, <2>2, SteadyLoop
  <2> QED
    BY <1>9, <2>1, <2>3
<1>11. PICK after : Steady(t, after, rest, r, messages, marks)
  BY <1>10
<1>12. Held(t.link) \o rest = rest /\ Len(Held(t.link)) + 1 = 1
  <2> DEFINE S == Pieces(N)
  <2>1. \A u \in Seq(S) : <<>> \o u = u
    <3> HIDE DEF S
    <3> QED
      OBVIOUS
  <2>2. rest \in Seq(S)
    BY <1>4
  <2> HIDE DEF S, rest
  <2> QED
    BY <1>10, <2>1, <2>2
<1> HIDE DEF rest
<1>13. /\ Placed(rest, after, messages) /\ (rest # <<>> => after[1] = r)
       /\ Progress(t.link.parser, t.delivered, rest, after, messages)
       /\ Behind(marks, rest, after)
       /\ SdpProgress(t.link.parser, t.delivered, messages, more)
  BY <1>11, <1>12 DEF Steady
<1> HIDE DEF more
<1>14. AtRest(t.link, t.delivered, rest, after, messages, more)
  BY <1>10, <1>13 DEF AtRest
<1>15. RestsBefore(t, rest, r, messages, marks)
  BY <1>13, <1>14 DEF RestsBefore, more
<1> QED
  BY <1>15 DEF t, rest

\* What the peer sends comes behind all that it has sent.
LEMMA SentBehind ==
  ASSUME NEW messages \in Seq(Messages), NEW flow \in Seq(Pieces(Len(messages))), NEW place,
         Placed(flow, place, messages), NEW m \in Messages
  PROVE  LET n == Len(messages)
             more == flow \o Stamped(m, n + 1)
             after == Extended(place, Len(flow), Len(m))
             others == Append(messages, m)
         IN /\ n \in Nat /\ more # <<>> /\ more[1].number \in 1 .. n + 1
            /\ flow # <<>> => more[1].number = flow[1].number /\ after[1] = place[1]
                              /\ flow[1].number \in 1 .. n /\ place[1] \in Nat
            /\ flow = <<>> => more[1].number = n + 1 /\ after[1] = 1
            /\ NextOf(more, others) = NextOf(flow, messages)
            /\ \A k \in 1 .. n : others[k] = messages[k]
<1> DEFINE n == Len(messages)
           new == Stamped(m, n + 1)
           more == flow \o new
           after == Extended(place, Len(flow), Len(m))
           others == Append(messages, m)
           last == Len(flow)
           l == Len(m)
<1>1. n \in Nat /\ last \in Nat /\ l \in Nat \ {0} /\ DOMAIN messages = 1 .. n
  BY MessageFacts
<1>2. /\ new \in Seq(Pieces(n + 1)) /\ Len(new) = l
      /\ \A i \in 1 .. l : new[i].number = n + 1
  <2> DEFINE k == n + 1
  <2>1. k \in Nat
    BY <1>1
  <2> HIDE DEF k, n
  <2>2. /\ Stamped(m, k) \in Seq(Pieces(k)) /\ Len(Stamped(m, k)) = Len(m)
        /\ \A i \in 1 .. Len(m) : Stamped(m, k)[i].number = k
    BY <2>1, StampedUnits
  <2> QED
    BY <2>2 DEF k
<1>3. flow \in Seq(Pieces(n + 1))
  <2> HIDE DEF n
  <2>1. n + 1 \in Nat /\ n <= n + 1
    BY <1>1
  <2>2. Seq(Pieces(n)) \subseteq Seq(Pieces(n + 1))
    BY <1>1, <2>1, StampsGrow
  <2> QED
    BY <2>2 DEF n
<1> HIDE DEF new, l
<1>4. /\ Len(more) = last + l /\ \A i \in 1 .. last : more[i] = flow[i]
      /\ \A i \in 1 .. l : more[last + i] = new[i]
  <2> DEFINE S == Pieces(n + 1)
  <2>1. flow \in Seq(S) /\ new \in Seq(S)
    BY <1>2, <1>3
  <2> HIDE DEF S
  <2>2. /\ Len(flow \o new) = Len(flow) + Len(new)
        /\ \A i \in 1 .. Len(flow) : (flow \o new)[i] = flow[i]
        /\ \A i \in 1 .. Len(new) : (flow \o new)[Len(flow) + i] = new[i]
    BY <2>1, ConcatElements
  <2>3. Len(new) = l
    BY <1>2
  <2> QED
    BY <2>2, <2>3
<1>5. \A k \in 1 .. n : others[k] = messages[k]
  OBVIOUS
<1>6. CASE flow = <<>>
  <2>1. last = 0
    BY <1>6
  <2>2. 1 \in 1 .. l /\ Len(more) # 0
    <3> HIDE DEF last, more
    <3> QED
      BY <1>1, <1>4, <2>1
  <2>3. more[1].number = n + 1 /\ after[1] = 1
    <3>1. more[last + 1] = new[1]
      BY <1>4, <2>2
    <3>2. last + 1 = 1
      BY <2>1
    <3>3. more[1] = new[1]
      BY <3>1, <3>2
    <3> HIDE DEF more
    <3>4. more[1].number = n + 1
      BY <1>2, <2>2, <3>3
    <3>5. after[1] = 1
      BY <1>1, <2>1, <2>2 DEF Extended, l
    <3> QED
      BY <3>4, <3>5
  <2>4. more # <<>>
    BY <2>2
  <2>5. n + 1 \in 1 .. n + 1
    BY <1>1
  <2> HIDE DEF more, after, others, n
  <2> QED
    BY <1>1, <1>5, <1>6, <2>3, <2>4, <2>5 DEF NextOf, more, after, others, n, new
<1>7. CASE flow # <<>>
  <2>1. last # 0
    BY <1>7
  <2>2. 1 \in 1 .. last /\ Len(more) # 0
    <3> HIDE DEF last, more
    <3> QED
      BY <1>1, <1>4, <2>1
  <2>3. more[1] = flow[1] /\ more # <<>>
    BY <1>4, <2>2
  <2>4. after[1] = place[1]
    <3>1. 1 \in 1 .. last + Len(m) /\ 1 <= last
      <4>1. Len(m) \in Nat
        BY <1>1 DEF l
      <4> HIDE DEF last
      <4> QED
        BY <1>1, <2>2, <4>1
    <3> QED
      BY <3>1 DEF Extended
  <2>5. flow[1].number \in 1 .. n /\ place[1] \in Nat
    BY <1>1, <2>2 DEF Placed
  <2>6. flow[1].number \in 1 .. n + 1
    BY <1>1, <2>5
  <2> HIDE DEF more, after, others, n
  <2> QED
    BY <1>1, <1>5, <1>7, <2>3, <2>4, <2>5, <2>6 DEF NextOf, more, after, others, n, new
<1> QED
  BY <1>6, <1>7

LEMMA SendKeepsRest ==
  ASSUME NEW messages \in Seq(Messages), NEW flow \in Seq(Pieces(Len(messages))), NEW place,
         NEW marks, \A cut \in marks : cut[1] \in DOMAIN messages,
         Standing(flow, place, messages, marks), NEW m \in Messages
  PROVE  LET more == flow \o Stamped(m, Len(messages) + 1)
             after == Extended(place, Len(flow), Len(m))
             others == Append(messages, m)
         IN /\ Standing(more, after, others, marks)
            /\ \A link, requests : AtRest(link, requests, flow, place, messages, marks)
                                   => AtRest(link, requests, more, after, others, marks)
<1> DEFINE n == Len(messages)
           more == flow \o Stamped(m, n + 1)
           after == Extended(place, Len(flow), Len(m))
           others == Append(messages, m)
           f == NextOf(flow, messages)
<1>1. /\ n \in Nat /\ more # <<>> /\ more[1].number \in 1 .. n + 1
      /\ flow # <<>> => more[1].number = flow[1].number /\ after[1] = place[1]
                        /\ flow[1].number \in 1 .. n /\ place[1] \in Nat
      /\ flow = <<>> => more[1].number = n + 1 /\ after[1] = 1
      /\ NextOf(more, others) = f
      /\ \A k \in 1 .. n : others[k] = messages[k]
  BY SentBehind DEF Standing
<1>2. Placed(more, after, others) /\ Placed(flow, place, messages)
  BY SendPlaced DEF Standing
<1>3. DOMAIN messages = 1 .. n
  OBVIOUS
<1> HIDE DEF more, after, others, n, f
<1>4. Behind(marks, more, after)
  <2>1. CASE flow = <<>>
    <3>1. \A cut \in marks : cut[1] \in 1 .. n
      BY <1>3
    <3>2. \A cut \in marks : cut[1] < more[1].number
      BY <1>1, <2>1, <3>1
    <3> QED
      BY <3>2 DEF Behind
  <2>2. CASE flow # <<>>
    BY <1>1, <2>2 DEF Behind, Standing
  <2> QED
    BY <2>1, <2>2
<1>5. CutAt(more, after[1]) \subseteq marks
  BY <1>1 DEF CutAt, Standing
<1>6. Standing(more, after, others, marks)
  BY <1>2, <1>4, <1>5 DEF Standing
<1>7. ASSUME NEW request, request.number \in 1 .. n, SdpMatches(request, messages, marks)
      PROVE  SdpMatches(request, others, marks)
  BY <1>1, <1>7 DEF SdpMatches
<1>8. ASSUME NEW link, NEW requests, AtRest(link, requests, flow, place, messages, marks)
      PROVE  AtRest(link, requests, more, after, others, marks)
  <2> DEFINE p == link.parser
  <2>1. /\ Progress(p, requests, flow, place, messages) /\ SdpProgress(p, requests, messages, marks)
        /\ Held(link) = <<>>
    BY <1>8 DEF AtRest
  <2>2. f = more[1].number /\ f \in 1 .. n + 1
    BY <1>1 DEF NextOf
  <2>3. BuiltBelow(others, f) = BuiltBelow(messages, f)
    <3>1. \A k \in 1 .. f - 1 : k \in 1 .. n
      BY <1>1, <2>2
    <3> QED
      BY <1>1, <3>1 DEF BuiltBelow
  <2>4. \A i \in DOMAIN requests : requests[i].number \in 1 .. n
    <3> SUFFICES ASSUME NEW i \in DOMAIN requests PROVE requests[i].number \in 1 .. n
      OBVIOUS
    <3>1. requests[i].number \in BuiltBelow(messages, f)
      BY <2>1 DEF Progress, Numbers, f
    <3>2. requests[i].number \in 1 .. f - 1
      BY <3>1 DEF BuiltBelow
    <3> QED
      BY <1>1, <2>2, <3>2
  <2>5. p.processingMessage => flow # <<>> /\ p.sipMessage.number = flow[1].number
    BY <2>1 DEF Progress
  <2> HIDE DEF p
  <2>6. Progress(p, requests, more, after, others)
    <3>1. Numbers(requests) = BuiltBelow(others, NextOf(more, others))
      BY <1>1, <2>1, <2>3 DEF Progress, f
    <3>2. ~ p.processingMessage => after[1] = 1
      BY <1>1, <2>1 DEF Progress
    <3>3. p.processingMessage =>
            /\ p.sipMessage.number = more[1].number
            /\ p.sipMessage.request = others[more[1].number][1].request
            /\ p.sipMessage.request.method \in BuiltMethods
            /\ after[1] = HeaderLength(others[more[1].number]) + p.receivedContentLength + 1
      BY <1>1, <2>1, <2>5 DEF Progress
    <3> QED
      BY <1>1, <3>1, <3>2, <3>3 DEF Progress
  <2>7. SdpDone(requests, others, marks)
    <3> SUFFICES ASSUME NEW i \in DOMAIN requests, requests[i].request.contentType = "SDP",
                        requests[i].request.contentLength > 0,
                        \A y \in 1 .. i - 1 : SdpOf(requests[y]) = Null
                 PROVE  SdpMatches(requests[i], others, marks)
      BY DEF SdpDone
    <3>1. SdpMatches(requests[i], messages, marks)
      BY <2>1 DEF SdpProgress, SdpDone
    <3> QED
      BY <1>7, <2>4, <3>1
  <2>8. p.processingMessage => (SdpMatches(p.sipMessage, messages, marks)
                                => SdpMatches(p.sipMessage, others, marks))
    BY <1>1, <1>7, <2>5
  <2>9. SdpProgress(p, requests, others, marks)
    BY <2>1, <2>7, <2>8 DEF SdpProgress
  <2> QED
    BY <2>1, <2>6, <2>9 DEF AtRest, p
<1> QED
  BY <1>6, <1>8 DEF more, after, others, n

-----------------------------------------------------------------------------
(* Every orderly connection is at rest between two reads *)

\* Reads have ended within messages that the peer has sent.  A connection stands where its
\* stream does, and nothing of what it is given is left in its ring.
Rested(c) ==
  /\ \A cut \in cuts[c] : cut[1] \in DOMAIN sent[c] /\ cut[2] \in Nat
  /\ connection[c].status # "none" =>
       \E place : /\ Standing(stream[c], place, sent[c], cuts[c])
                  /\ (running /\ Orderly(c)) =>
                       AtRest(connection[c], delivered[c], stream[c], place, sent[c], cuts[c])

RestInv == SoundInv /\ \A c \in Connections : Rested(c)

LEMMA RestInit == Init => RestInv
<1> SUFFICES ASSUME Init PROVE RestInv
  OBVIOUS
<1>1. ASSUME NEW c \in Connections PROVE Rested(c)
  <2>1. cuts[c] = {} /\ connection[c].status = "none"
    BY DEF Init
  <2> QED
    BY <2>1 DEF Rested
<1> QED
  BY <1>1, SoundInit DEF RestInv

LEMMA OthersStayRested ==
  ASSUME RestInv, SoundInv', NEW c \in Connections, OthersRest(c), Rested(c)', running' => running
  PROVE  RestInv'
<1>1. ASSUME NEW d \in Connections, d # c PROVE Rested(d)'
  <2>1. Rested(d) /\ Resting(d)
    BY <1>1 DEF RestInv, OthersRest
  <2>2. /\ connection'[d] = connection[d] /\ stream'[d] = stream[d]
        /\ delivered'[d] = delivered[d] /\ sent'[d] = sent[d] /\ cuts'[d] = cuts[d]
    BY <2>1 DEF Resting
  <2>3. Orderly(d)' <=> Orderly(d)
    BY <2>2 DEF Orderly
  <2>4. \A cut \in cuts'[d] : cut[1] \in DOMAIN sent'[d] /\ cut[2] \in Nat
    BY <2>1, <2>2 DEF Rested
  <2>5. PICK link : link = connection'[d]
    OBVIOUS
  <2>6. ASSUME link.status # "none"
        PROVE  \E place : /\ Standing(stream'[d], place, sent'[d], cuts'[d])
                          /\ (running' /\ Orderly(d)') =>
                               AtRest(link, delivered'[d], stream'[d], place, sent'[d], cuts'[d])
    <3>1. connection[d].status # "none"
      BY <2>2, <2>5, <2>6
    <3>2. PICK place : /\ Standing(stream[d], place, sent[d], cuts[d])
                       /\ (running /\ Orderly(d)) =>
                            AtRest(connection[d], delivered[d], stream[d], place, sent[d], cuts[d])
      BY <2>1, <3>1 DEF Rested
    <3> QED
      BY <2>2, <2>3, <2>5, <3>2
  <2> QED
    BY <2>4, <2>5, <2>6 DEF Rested
<1> QED
  BY <1>1 DEF RestInv

LEMMA NewIsRested ==
  ASSUME RestInv, NEW c \in Connections, OnTcpConnection(c) PROVE Rested(c)'
<1>1. /\ connection[c].status = "none"
      /\ \E memory \in Memories : connection'[c] = NewConnection(memory)
      /\ stream'[c] = stream[c] /\ delivered'[c] = delivered[c]
      /\ sent'[c] = sent[c] /\ cuts'[c] = cuts[c]
  BY NewSteps DEF RestInv, SoundInv
<1>2. stream'[c] = <<>> /\ delivered'[c] = <<>> /\ sent'[c] = <<>> /\ cuts'[c] = {}
  <2>1. ConnectionSound(c)
    BY DEF RestInv, SoundInv
  <2> QED
    BY <1>1, <2>1 DEF ConnectionSound
<1>3. PICK link : link = connection'[c]
  OBVIOUS
<1>4. Held(link) = <<>> /\ ~ link.parser.processingMessage /\ link.parser.bodies = NoBodies
  BY <1>1, <1>3, NewIsSound
<1> DEFINE none == <<>>
<1>5. none = <<>> /\ DOMAIN none = {} /\ Len(none) = 0
  OBVIOUS
<1> HIDE DEF none
<1>6. Standing(none, none, none, {})
  BY <1>5 DEF Standing, Placed, Behind, CutAt
<1>7. AtRest(link, none, none, none, none, {})
  <2>1. Numbers(none) = {} /\ BuiltBelow(none, Len(none) + 1) = {}
    BY <1>5 DEF Numbers, BuiltBelow
  <2>2. Progress(link.parser, none, none, none, none)
    BY <1>4, <1>5, <2>1 DEF Progress, NextOf
  <2>3. link.parser.bodies["SDP"] = Null
    BY <1>4 DEF NoBodies, PartTypes
  <2>4. SdpProgress(link.parser, none, none, {})
    BY <1>4, <1>5, <2>3 DEF SdpProgress, SdpDone
  <2> QED
    BY <1>4, <1>5, <2>2, <2>4 DEF AtRest
<1>8. \E place : Standing(stream'[c], place, sent'[c], cuts'[c])
                 /\ AtRest(link, delivered'[c], stream'[c], place, sent'[c], cuts'[c])
  BY <1>2, <1>5, <1>6, <1>7
<1>9. \A cut \in cuts'[c] : cut[1] \in DOMAIN sent'[c] /\ cut[2] \in Nat
  BY <1>2
<1> QED
  BY <1>3, <1>8, <1>9 DEF Rested

LEMMA EndIsRested ==
  ASSUME RestInv, NEW c \in Connections, OnTcpEnd(c) PROVE Rested(c)'
<1>1. /\ connection[c].status = "open" /\ running' = running
      /\ connection'[c] = [connection[c] EXCEPT !.status = "closed"]
      /\ stream'[c] = stream[c] /\ delivered'[c] = delivered[c]
      /\ sent'[c] = sent[c] /\ cuts'[c] = cuts[c]
  BY EndSteps DEF RestInv, SoundInv
<1>2. connection[c] \in SoundLinks(Len(sent[c])) /\ Rested(c)
  <2>1. ConnectionSound(c) /\ Rested(c)
    BY DEF RestInv, SoundInv
  <2> QED
    BY <1>1, <2>1 DEF ConnectionSound
<1> DEFINE link == connection[c]
           shut == [link EXCEPT !.status = "closed"]
<1>3. /\ shut.memory = link.memory /\ shut.start = link.start /\ shut.end = link.end
      /\ shut.parser = link.parser /\ connection'[c] = shut
  BY <1>1, <1>2 DEF SoundLinks, FitLinks, Links
<1> HIDE DEF shut
<1>4. Held(shut) = Held(link)
  BY <1>3 DEF Held
<1>5. Orderly(c)' <=> Orderly(c)
  BY <1>1 DEF Orderly
<1>6. PICK place : /\ Standing(stream[c], place, sent[c], cuts[c])
                   /\ (running /\ Orderly(c)) =>
                        AtRest(connection[c], delivered[c], stream[c], place, sent[c], cuts[c])
  BY <1>1, <1>2 DEF Rested
<1>7. AtRest(link, delivered[c], stream[c], place, sent[c], cuts[c])
      => AtRest(shut, delivered[c], stream[c], place, sent[c], cuts[c])
  BY <1>3, <1>4 DEF AtRest
<1>8. /\ Standing(stream'[c], place, sent'[c], cuts'[c])
      /\ (running' /\ Orderly(c)') =>
           AtRest(shut, delivered'[c], stream'[c], place, sent'[c], cuts'[c])
  BY <1>1, <1>5, <1>6, <1>7
<1>9. \A cut \in cuts'[c] : cut[1] \in DOMAIN sent'[c] /\ cut[2] \in Nat
  BY <1>1, <1>2 DEF Rested
<1> QED
  BY <1>3, <1>8, <1>9 DEF Rested

LEMMA SendIsRested ==
  ASSUME RestInv, NEW c \in Connections, NEW m \in Messages, PeerSends(c, m) PROVE Rested(c)'
<1> DEFINE messages == sent[c]
           flow == stream[c]
           others == Append(messages, m)
           n == Len(messages)
<1>1. /\ connection[c].status = "open" /\ running' = running
      /\ connection'[c] = connection[c] /\ delivered'[c] = delivered[c] /\ cuts'[c] = cuts[c]
      /\ sent'[c] = others /\ stream'[c] = flow \o Stamped(m, Len(sent'[c]))
  BY SendSteps DEF RestInv, SoundInv
<1>2. messages \in Seq(Messages) /\ flow \in Seq(Pieces(n)) /\ Rested(c)
  <2>1. ConnectionSound(c) /\ Rested(c)
    BY DEF RestInv, SoundInv
  <2> QED
    BY <1>1, <2>1 DEF ConnectionSound
<1>3. /\ n \in Nat /\ Len(others) = n + 1 /\ DOMAIN messages = 1 .. n /\ DOMAIN others = 1 .. n + 1
      /\ \A k \in 1 .. n : others[k] = messages[k]
  BY <1>2
<1>4. \A cut \in cuts[c] : cut[1] \in DOMAIN messages /\ cut[2] \in Nat
  BY <1>2 DEF Rested
<1>5. PICK place : /\ Standing(flow, place, messages, cuts[c])
                   /\ (running /\ Orderly(c)) =>
                        AtRest(connection[c], delivered[c], flow, place, messages, cuts[c])
  BY <1>1, <1>2 DEF Rested
<1> DEFINE more == flow \o Stamped(m, n + 1)
           after == Extended(place, Len(flow), Len(m))
<1>6. /\ Standing(more, after, others, cuts[c])
      /\ \A link, requests : AtRest(link, requests, flow, place, messages, cuts[c])
                             => AtRest(link, requests, more, after, others, cuts[c])
  <2> HIDE DEF messages, flow
  <2>1. LET stretched == flow \o Stamped(m, Len(messages) + 1)
            there == Extended(place, Len(flow), Len(m))
            all == Append(messages, m)
        IN /\ Standing(stretched, there, all, cuts[c])
           /\ \A link, requests : AtRest(link, requests, flow, place, messages, cuts[c])
                                  => AtRest(link, requests, stretched, there, all, cuts[c])
    BY <1>2, <1>4, <1>5, SendKeepsRest
  <2> QED
    BY <2>1
<1>7. Orderly(c)' => Orderly(c)
  <2> SUFFICES ASSUME Orderly(c)' PROVE Orderly(c)
    OBVIOUS
  <2>1. /\ \A k \in DOMAIN others : WellFormed(others[k])
        /\ \A cut \in cuts[c] : cut[2] >= HeaderLength(others[cut[1]])
    BY <1>1 DEF Orderly
  <2>2. \A k \in 1 .. n : k \in 1 .. n + 1
    BY <1>3
  <2> HIDE DEF others, n, messages
  <2>3. \A k \in DOMAIN messages : WellFormed(messages[k])
    BY <1>3, <2>1, <2>2
  <2>4. \A cut \in cuts[c] : cut[2] >= HeaderLength(messages[cut[1]])
    BY <1>3, <1>4, <2>1
  <2> QED
    BY <2>3, <2>4 DEF Orderly, messages
<1>8. stream'[c] = more
  BY <1>1, <1>3
<1>9. \A cut \in cuts'[c] : cut[1] \in DOMAIN sent'[c] /\ cut[2] \in Nat
  <2>1. \A k \in 1 .. n : k \in 1 .. n + 1
    BY <1>3
  <2> HIDE DEF others, n, messages
  <2> QED
    BY <1>1, <1>3, <1>4, <2>1
<1> HIDE DEF more, after, others
<1>10. /\ Standing(stream'[c], after, sent'[c], cuts'[c])
       /\ (running' /\ Orderly(c)') =>
            AtRest(connection[c], delivered'[c], stream'[c], after, sent'[c], cuts'[c])
  BY <1>1, <1>5, <1>6, <1>7, <1>8
<1> QED
  BY <1>1, <1>9, <1>10 DEF Rested

LEMMA RecvIsRested ==
  ASSUME RestInv, NEW c \in Connections, NEW count, OnTcpRecv(c, count) PROVE Rested(c)'
<1> DEFINE messages == sent[c]
           n == Len(messages)
           flow == stream[c]
           marks == cuts[c]
           requests == delivered[c]
           link == connection[c]
           rest == SubSeq(flow, count + 1, Len(flow))
<1>1. /\ running /\ link.status = "open"
      /\ count \in 1 .. Len(flow) /\ count <= ReadSize /\ sent'[c] = messages
      /\ stream'[c] = rest /\ cuts'[c] = marks \cup CutBefore(c, stream'[c])
      /\ \E remains \in Leftovers :
           LET state == Received(connection[c], stream[c], count, running, delivered[c], remains)
           IN /\ connection'[c] = state.link /\ running' = state.running
              /\ delivered'[c] = state.delivered
  BY RecvSteps DEF RestInv, SoundInv
<1>2. PICK remains \in Leftovers :
        LET state == Received(connection[c], stream[c], count, running, delivered[c], remains)
        IN /\ connection'[c] = state.link /\ running' = state.running
           /\ delivered'[c] = state.delivered
  BY <1>1
<1>3. /\ messages \in Seq(Messages) /\ flow \in Seq(Pieces(n)) /\ requests \in Seq(Message(0 .. n))
      /\ link \in SoundLinks(n) /\ Rested(c)
  <2>1. ConnectionSound(c) /\ Rested(c)
    BY DEF RestInv, SoundInv
  <2> QED
    BY <1>1, <2>1 DEF ConnectionSound
<1>4. \A cut \in marks : cut[1] \in DOMAIN messages /\ cut[2] \in Nat
  BY <1>3 DEF Rested
<1>5. PICK place : /\ Standing(flow, place, messages, marks)
                   /\ (running /\ Orderly(c)) => AtRest(link, requests, flow, place, messages, marks)
  BY <1>1, <1>3 DEF Rested
<1> DEFINE shifted == Shift(place, count, Len(flow))
           state == Received(link, flow, count, running, requests, remains)
<1>6. /\ count \in 0 .. Len(flow) /\ count \in Nat /\ Len(flow) \in Nat /\ n \in Nat
      /\ DOMAIN messages = 1 .. n
  BY <1>1, <1>3
<1>7. rest \in Seq(Pieces(n)) /\ Placed(flow, place, messages) /\ Behind(marks, flow, place)
  BY <1>3, <1>5, <1>6, TailElements DEF Standing
<1>8. Placed(rest, shifted, messages) /\ Behind(marks, rest, shifted)
  <2>1. \A cut \in marks : cut[1] \in Nat /\ cut[2] \in Nat
    BY <1>4, <1>6
  <2> HIDE DEF messages, flow, marks
  <2> QED
    BY <1>3, <1>6, <1>7, <2>1, TailPlaced, BehindTail DEF n
<1> HIDE DEF rest, shifted
\* The marks there are then, wherever the rest is said to stand.
<1>9. ASSUME NEW there, Placed(rest, there, messages)
      PROVE  /\ rest # <<>> => there[1] \in Nat /\ rest[1].number \in DOMAIN messages
             /\ cuts'[c] = marks \cup CutAt(rest, IF rest = <<>> THEN 0 ELSE there[1])
  <2>1. CutBefore(c, rest) =
          IF rest # <<>> /\ there[1] > 1 THEN {<<rest[1].number, there[1] - 1>>} ELSE {}
    BY <1>3, <1>7, <1>9, CutIs
  <2>2. rest # <<>> => there[1] \in Nat /\ rest[1].number \in DOMAIN messages
    <3> SUFFICES ASSUME rest # <<>> PROVE there[1] \in Nat /\ rest[1].number \in DOMAIN messages
      OBVIOUS
    <3>1. Len(rest) # 0 /\ DOMAIN rest = 1 .. Len(rest) /\ Len(rest) \in Nat
      BY <1>7
    <3>2. 1 \in DOMAIN rest
      BY <3>1
    <3> QED
      BY <1>9, <3>2 DEF Placed
  <2>3. CutBefore(c, rest) = CutAt(rest, IF rest = <<>> THEN 0 ELSE there[1])
    BY <2>1 DEF CutAt
  <2> QED
    BY <1>1, <2>2, <2>3
<1>10. \A cut \in cuts'[c] : cut[1] \in DOMAIN sent'[c] /\ cut[2] \in Nat
  <2> DEFINE r == shifted[1]
             new == <<rest[1].number, r - 1>>
  <2>1. /\ rest # <<>> => r \in Nat /\ rest[1].number \in DOMAIN messages
        /\ cuts'[c] = marks \cup CutAt(rest, IF rest = <<>> THEN 0 ELSE r)
    BY <1>8, <1>9
  <2>2. \A cut \in CutAt(rest, IF rest = <<>> THEN 0 ELSE r) :
          cut[1] \in DOMAIN messages /\ cut[2] \in Nat
    <3>1. new[1] = rest[1].number /\ new[2] = r - 1
      OBVIOUS
    <3>2. rest # <<>> /\ r > 1 => new[1] \in DOMAIN messages /\ new[2] \in Nat
      <4> HIDE DEF new, messages, r
      <4> QED
        BY <2>1, <3>1
    <3>3. \A cut \in CutAt(rest, IF rest = <<>> THEN 0 ELSE r) : rest # <<>> /\ r > 1 /\ cut = new
      BY DEF CutAt
    <3> HIDE DEF new
    <3> QED
      BY <3>2, <3>3
  <2> HIDE DEF r
  <2> QED
    BY <1>1, <1>4, <2>1, <2>2
<1>11. Standing(rest, shifted, messages, cuts'[c])
  <2>1. Standing(rest, shifted, messages,
                 marks \cup CutAt(rest, IF rest = <<>> THEN 0 ELSE shifted[1]))
    BY <1>8, <1>9, MarkIsBehind
  <2> QED
    BY <1>8, <1>9, <2>1
<1>12. CASE ~ (running' /\ Orderly(c)')
  BY <1>1, <1>10, <1>11, <1>12 DEF Rested
<1>13. CASE running' /\ Orderly(c)'
  <2> DEFINE r == IF rest = <<>> THEN 0 ELSE shifted[1]
  <2>1. /\ \A k \in DOMAIN messages : WellFormed(messages[k])
        /\ \A cut \in cuts'[c] : cut[2] >= HeaderLength(messages[cut[1]])
    BY <1>1, <1>13 DEF Orderly
  <2>2. Orderly(c)
    <3>1. \A cut \in marks : cut[2] >= HeaderLength(messages[cut[1]])
      BY <1>1, <2>1
    <3> QED
      BY <2>1, <3>1 DEF Orderly
  <2>3. AtRest(link, requests, flow, place, messages, marks)
    BY <1>1, <1>5, <2>2
  <2>4. r \in Nat /\ cuts'[c] = marks \cup CutAt(rest, r)
    BY <1>8, <1>9
  <2>5. count + 1 \in DOMAIN flow => place[count + 1] = r
    <3> SUFFICES ASSUME count + 1 \in DOMAIN flow PROVE place[count + 1] = r
      OBVIOUS
    <3> DEFINE last == Len(flow)
    <3>1. count + 1 \in 1 .. last /\ Len(rest) = last - count
      <4>1. DOMAIN flow = 1 .. last
        BY <1>3
      <4>2. Len(rest) = last - count
        BY <1>3, <1>6, TailElements DEF rest
      <4> QED
        BY <4>1, <4>2
    <3>2. 1 \in 1 .. last - count /\ rest # <<>>
      <4>1. 1 \in 1 .. last - count /\ last - count # 0
        <5> HIDE DEF last
        <5> QED
          BY <1>6, <3>1 DEF last
      <4>2. rest = <<>> => Len(rest) = 0
        OBVIOUS
      <4> QED
        BY <3>1, <4>1, <4>2
    <3>3. shifted[1] = place[count + 1]
      BY <3>2 DEF shifted, Shift
    <3> QED
      BY <3>2, <3>3
  <2>6. EndsClean(rest, r, messages)
    <3> SUFFICES ASSUME rest # <<>>, r # 1 PROVE r > HeaderLength(messages[rest[1].number])
      BY DEF EndsClean
    <3> DEFINE k == rest[1].number
               h == HeaderLength(messages[k])
               new == <<k, r - 1>>
    <3>1. r > 1 /\ k \in DOMAIN messages
      <4>1. k \in DOMAIN messages /\ shifted[1] \in DOMAIN messages[k]
        <5>1. 1 \in DOMAIN rest
          <6>1. Len(rest) # 0 /\ DOMAIN rest = 1 .. Len(rest) /\ Len(rest) \in Nat
            BY <1>7
          <6> QED
            BY <6>1
        <5> QED
          BY <1>8, <5>1 DEF Placed
      <4>2. messages[k] \in Messages
        BY <1>3, <4>1
      <4>3. \A x \in Messages : DOMAIN x = 1 .. Len(x) /\ Len(x) \in Nat
        BY MessageFacts
      <4>4. shifted[1] \in 1 .. Len(messages[k]) /\ Len(messages[k]) \in Nat
        BY <4>1, <4>2, <4>3
      <4>5. shifted[1] >= 1
        <5> HIDE DEF k, messages
        <5> QED
          BY <4>4
      <4> HIDE DEF k, messages
      <4> QED
        BY <2>4, <4>1, <4>5
    <3>2. new \in cuts'[c]
      BY <2>4, <3>1 DEF CutAt
    <3>3. new[1] = k /\ new[2] = r - 1
      OBVIOUS
    <3>4. r - 1 >= h
      <4> HIDE DEF new
      <4> QED
        BY <2>1, <3>2, <3>3
    <3>5. h \in Nat
      <4>1. messages[k] \in Messages
        BY <1>3, <3>1
      <4>2. \A x \in Messages : HeaderLength(x) \in 1 .. Len(x) /\ Len(x) \in Nat
        BY MessageFacts
      <4>3. HeaderLength(messages[k]) \in 1 .. Len(messages[k]) /\ Len(messages[k]) \in Nat
        BY <4>1, <4>2
      <4> HIDE DEF k, messages
      <4> QED
        BY <4>3
    <3> HIDE DEF h, r
    <3> QED
      BY <2>4, <3>4, <3>5 DEF h
  <2>7. state = Received(link, flow, count, TRUE, requests, remains) /\ state.running
    <3>1. running = TRUE
      <4>1. running \in BOOLEAN
        BY DEF RestInv, SoundInv
      <4> QED
        BY <1>1, <4>1
    <3>2. state = Received(link, flow, count, TRUE, requests, remains)
      BY <3>1
    <3>3. state.running
      BY <1>2, <1>13
    <3> QED
      BY <3>2, <3>3
  <2> HIDE DEF r, state
  <2>8. \E after : /\ rest # <<>> => after[1] = r
                   /\ Placed(rest, after, messages) /\ Behind(marks, rest, after)
                   /\ AtRest(state.link, state.delivered, rest, after, messages,
                             marks \cup CutAt(rest, r))
    <3>1. \A cut \in marks : cut[1] \in Nat /\ cut[2] \in Nat
      BY <1>4, <1>6
    <3>2. EndsClean(SubSeq(flow, count + 1, Len(flow)), r, messages)
      BY <2>6 DEF rest
    <3>3. Received(link, flow, count, TRUE, requests, remains).running
      BY <2>7
    <3>4. link \in SoundLinks(Len(messages)) /\ flow \in Seq(Pieces(Len(messages)))
          /\ requests \in Seq(Message(0 .. Len(messages)))
      BY <1>3
    <3> HIDE DEF messages, flow, marks, requests, link, n
    <3>5. RestsBefore(Received(link, flow, count, TRUE, requests, remains),
                      SubSeq(flow, count + 1, Len(flow)), r, messages, marks)
      <4>1. /\ messages \in Seq(Messages) /\ \A x \in DOMAIN messages : WellFormed(messages[x])
            /\ count \in 1 .. Len(flow) /\ count <= ReadSize /\ remains \in Leftovers
            /\ Standing(flow, place, messages, marks)
            /\ AtRest(link, requests, flow, place, messages, marks)
            /\ r \in Nat /\ (count + 1 \in DOMAIN flow => place[count + 1] = r)
        BY <1>1, <1>3, <1>5, <2>1, <2>3, <2>4, <2>5
      <4> QED
        BY <3>1, <3>2, <3>3, <3>4, <4>1, ReadKeepsRest
    <3> QED
      BY <2>7, <3>5 DEF rest, RestsBefore
  <2>9. PICK after : /\ rest # <<>> => after[1] = r
                     /\ Placed(rest, after, messages) /\ Behind(marks, rest, after)
                     /\ AtRest(state.link, state.delivered, rest, after, messages,
                               marks \cup CutAt(rest, r))
    BY <2>8
  <2>10. Standing(rest, after, messages, cuts'[c])
    <3>1. Standing(rest, after, messages,
                   marks \cup CutAt(rest, IF rest = <<>> THEN 0 ELSE after[1]))
      BY <1>9, <2>9, MarkIsBehind
    <3> QED
      BY <1>9, <2>9, <3>1
  <2>11. connection'[c] = state.link /\ delivered'[c] = state.delivered
    BY <1>2 DEF state
  <2>12. AtRest(state.link, delivered'[c], stream'[c], after, sent'[c], cuts'[c])
    BY <1>1, <2>4, <2>9, <2>11
  <2>13. Standing(stream'[c], after, sent'[c], cuts'[c])
    BY <1>1, <2>10
  <2> QED
    BY <1>10, <2>11, <2>12, <2>13 DEF Rested
<1> QED
  BY <1>12, <1>13

LEMMA RestStep == RestInv /\ [Next]_vars => RestInv'
<1> SUFFICES ASSUME RestInv, [Next]_vars PROVE RestInv'
  OBVIOUS
<1>1. ForEach /\ SoundInv'
  BY SoundStep DEF RestInv, SoundInv
<1>2. ASSUME NEW c \in Connections, OnTcpConnection(c) PROVE RestInv'
  <2>1. OthersRest(c) /\ running' = running
    BY <1>1, <1>2, NewSteps
  <2>2. Rested(c)'
    BY <1>2, NewIsRested
  <2> QED
    BY <1>1, <2>1, <2>2, OthersStayRested
<1>3. ASSUME NEW c \in Connections, OnTcpEnd(c) PROVE RestInv'
  <2>1. OthersRest(c) /\ running' = running
    BY <1>1, <1>3, EndSteps
  <2>2. Rested(c)'
    BY <1>3, EndIsRested
  <2> QED
    BY <1>1, <2>1, <2>2, OthersStayRested
<1>4. ASSUME NEW c \in Connections, NEW m \in Messages, PeerSends(c, m) PROVE RestInv'
  <2>1. OthersRest(c) /\ running' = running
    BY <1>1, <1>4, SendSteps
  <2>2. Rested(c)'
    BY <1>4, SendIsRested
  <2> QED
    BY <1>1, <2>1, <2>2, OthersStayRested
<1>5. ASSUME NEW c \in Connections, NEW count, OnTcpRecv(c, count) PROVE RestInv'
  <2>1. OthersRest(c) /\ running
    BY <1>1, <1>5, RecvSteps
  <2>2. Rested(c)'
    BY <1>5, RecvIsRested
  <2> QED
    BY <1>1, <2>1, <2>2, OthersStayRested
<1>6. CASE UNCHANGED vars
  BY <1>1, <1>6 DEF vars, RestInv, Rested, Orderly
<1> QED
  BY <1>2, <1>3, <1>4, <1>5, <1>6 DEF Next

LEMMA RestAlways == Spec => []RestInv
<1> QED
  BY RestInit, RestStep, PTL DEF Spec

LEMMA NextOfTypes ==
  ASSUME NEW messages \in Seq(Messages), NEW flow \in Seq(Pieces(Len(messages))), NEW place,
         Placed(flow, place, messages)
  PROVE  NextOf(flow, messages) \in 1 .. Len(messages) + 1 /\ Len(messages) \in Nat
<1> DEFINE n == Len(messages)
<1>1. n \in Nat /\ DOMAIN messages = 1 .. n
  OBVIOUS
<1>2. CASE flow = <<>>
  BY <1>1, <1>2 DEF NextOf
<1>3. CASE flow # <<>>
  <2>1. 1 \in DOMAIN flow
    BY <1>3
  <2>2. flow[1].number \in 1 .. n
    BY <1>1, <2>1 DEF Placed
  <2> HIDE DEF n
  <2> QED
    BY <1>1, <1>3, <2>2 DEF NextOf, n
<1> QED
  BY <1>2, <1>3

\* A message read to its end is behind where the stream stands.
LEMMA BuildableIsBuilt ==
  ASSUME NEW c \in Connections, sent[c] \in Seq(Messages), NEW place,
         stream[c] \in Seq(Pieces(Len(sent[c]))), Placed(stream[c], place, sent[c])
  PROVE  Buildable(FullyRead(c)) = BuiltBelow(sent[c], NextOf(stream[c], sent[c]))
<1> DEFINE messages == sent[c]
           flow == stream[c]
           n == Len(messages)
           f == NextOf(flow, messages)
           read == FullyRead(c)
<1>1. n \in Nat /\ DOMAIN messages = 1 .. n
  OBVIOUS
<1>2. f \in 1 .. n + 1
  BY NextOfTypes
<1>3. DOMAIN read = 1 .. f - 1 /\ \A k \in 1 .. f - 1 : read[k] = messages[k]
  <2>1. CASE flow = <<>>
    <3>1. read = messages /\ f = n + 1
      BY <2>1 DEF FullyRead, NextOf
    <3>2. 1 .. n = 1 .. f - 1
      BY <1>1, <3>1
    <3> QED
      BY <1>1, <3>1, <3>2
  <2>2. CASE flow # <<>>
    <3> DEFINE k == f - 1
    <3>1. read = SubSeq(messages, 1, k)
      <4>1. Head(flow) = flow[1]
        BY <2>2
      <4>2. read = SubSeq(messages, 1, Head(flow).number - 1)
        BY <2>2 DEF FullyRead
      <4>3. f = flow[1].number
        BY <2>2 DEF NextOf
      <4> HIDE DEF read, messages, flow, f
      <4> QED
        BY <4>1, <4>2, <4>3
    <3>2. k \in 0 .. n
      BY <1>1, <1>2
    <3> HIDE DEF k
    <3>3. /\ SubSeq(messages, 1, k) \in Seq(Messages) /\ Len(SubSeq(messages, 1, k)) = k
          /\ \A i \in 1 .. k : SubSeq(messages, 1, k)[i] = messages[i]
      BY <3>2, FrontElements
    <3>4. DOMAIN SubSeq(messages, 1, k) = 1 .. k
      BY <3>3
    <3> QED
      BY <3>1, <3>3, <3>4 DEF k
  <2> QED
    BY <2>1, <2>2
<1>4. \A k \in 1 .. f - 1 : messages[k] \in Messages
  <2>1. \A k \in 1 .. f - 1 : k \in 1 .. n
    BY <1>1, <1>2
  <2> QED
    BY <1>1, <2>1
<1>5. \A k \in 1 .. f - 1 : Headed(messages[k])
  BY <1>4, MessageFacts
<1> HIDE DEF read, f, messages
<1>6. Buildable(read) = BuiltBelow(messages, f)
  BY <1>3, <1>5 DEF Buildable, BuiltBelow
<1> QED
  BY <1>6 DEF read, f, messages

\* However bodies are cut, and whatever old bytes lie in the ring: every request that
\* onTcpRecv has read to its end is delivered, and none before its end, unless a read
\* ended inside a header, or a message is one that loadMessageData does not get over.
THEOREM TcpRequestsSurviveCuts == Spec => []RequestsSurviveCuts
<1>1. RestInv => RequestsSurviveCuts
  <2> SUFFICES ASSUME RestInv, running, NEW c \in Connections, Orderly(c)
               PROVE  Numbers(delivered[c]) = Buildable(FullyRead(c))
    BY DEF RequestsSurviveCuts
  <2>1. ConnectionSound(c) /\ Rested(c)
    BY DEF RestInv, SoundInv
  <2>2. CASE connection[c].status = "none"
    <3>1. delivered[c] = <<>> /\ sent[c] = <<>> /\ stream[c] = <<>>
      BY <2>1, <2>2 DEF ConnectionSound
    <3>2. FullyRead(c) = <<>>
      BY <3>1 DEF FullyRead
    <3> QED
      BY <3>1, <3>2 DEF Numbers, Buildable
  <2>3. CASE connection[c].status # "none"
    <3>1. PICK place :
            /\ Standing(stream[c], place, sent[c], cuts[c])
            /\ AtRest(connection[c], delivered[c], stream[c], place, sent[c], cuts[c])
      BY <2>1, <2>3 DEF Rested
    <3>2. Numbers(delivered[c]) = BuiltBelow(sent[c], NextOf(stream[c], sent[c]))
      BY <3>1 DEF AtRest, Progress
    <3>3. Buildable(FullyRead(c)) = BuiltBelow(sent[c], NextOf(stream[c], sent[c]))
      BY <2>1, <3>1, BuildableIsBuilt DEF ConnectionSound, Standing
    <3> QED
      BY <3>2, <3>3
  <2> QED
    BY <2>2, <2>3
<1> QED
  BY <1>1, RestAlways, PTL

\* The first portion of a body is up to the first end of a read in it.
LEMMA FirstPortionIs ==
  ASSUME NEW c \in Connections, NEW n \in DOMAIN sent[c], sent[c] \in Seq(Messages),
         \A cut \in cuts[c] : cut[2] \in Nat, NEW e \in Nat,
         IsFirstEnd(e, n, sent[c][n], cuts[c])
  PROVE  FirstPortion(c, n) = Portion(n, sent[c][n], e)
<1> DEFINE m == sent[c][n]
           ends == Ends(n, m, cuts[c])
           least == Min(ends)
<1>1. m \in Messages
  BY ElementType
<1>2. Len(m) \in Nat
  BY <1>1, MessageFacts
<1>3. \A x \in ends : x \in Nat
  BY <1>2 DEF Ends
<1>4. e \in ends /\ \A x \in ends : e <= x
  BY DEF IsFirstEnd
<1>5. FirstPortion(c, n) = [i \in 1 .. least - HeaderLength(m) |->
                              [unit |-> m[HeaderLength(m) + i], number |-> n]]
  BY DEF FirstPortion, Ends
<1> HIDE DEF ends, m
<1>6. least \in ends /\ \A x \in ends : least <= x
  BY <1>4 DEF Min
<1> HIDE DEF least
<1>7. least = e
  <2>1. least \in Nat /\ least <= e /\ e <= least
    BY <1>3, <1>4, <1>6
  <2> QED
    BY <2>1
<1> QED
  BY <1>5, <1>7 DEF Portion, m

\* The first SDP that a connection delivers is, up to the size of onTcpRecv's buffer, the
\* body of its own request from its start to the end of the first read that has any of it:
\* parseBodyData takes one chunk for the whole body.
THEOREM TcpSdpIsFirstPortion == Spec => []SdpIsFirstPortion
<1>1. RestInv => SdpIsFirstPortion
  <2> SUFFICES ASSUME RestInv, running, NEW c \in Connections, Orderly(c),
                      NEW i \in DOMAIN delivered[c],
                      delivered[c][i].request.contentType = "SDP",
                      delivered[c][i].request.contentLength > 0,
                      \A j \in 1 .. i - 1 : SdpOf(delivered[c][j]) = Null
               PROVE  Matches(SdpOf(delivered[c][i]), FirstPortion(c, delivered[c][i].number))
    BY DEF SdpIsFirstPortion, Matches
  <2>1. ConnectionSound(c) /\ Rested(c)
    BY DEF RestInv, SoundInv
  <2>2. CASE connection[c].status = "none"
    <3>1. delivered[c] = <<>>
      BY <2>1, <2>2 DEF ConnectionSound
    <3>2. i \in DOMAIN <<>>
      BY <3>1
    <3> QED
      BY <3>2
  <2>3. CASE connection[c].status # "none"
    <3> DEFINE n == delivered[c][i].number
    <3>1. PICK place :
            /\ Standing(stream[c], place, sent[c], cuts[c])
            /\ AtRest(connection[c], delivered[c], stream[c], place, sent[c], cuts[c])
      BY <2>1, <2>3 DEF Rested
    <3>2. SdpMatches(delivered[c][i], sent[c], cuts[c])
      BY <3>1 DEF AtRest, SdpProgress, SdpDone
    <3>3. PICK e \in Nat : /\ IsFirstEnd(e, n, sent[c][n], cuts[c])
                           /\ Matches(SdpOf(delivered[c][i]), Portion(n, sent[c][n], e))
      BY <3>2 DEF SdpMatches
    <3>4. n \in DOMAIN sent[c]
      <4>1. Buildable(FullyRead(c)) = BuiltBelow(sent[c], NextOf(stream[c], sent[c]))
        BY <2>1, <3>1, BuildableIsBuilt DEF ConnectionSound, Standing
      <4>2. n \in Buildable(FullyRead(c))
        BY <3>1, <4>1 DEF AtRest, Progress, Numbers
      <4> QED
        <5>1. n \in BuiltBelow(sent[c], NextOf(stream[c], sent[c]))
          BY <4>1, <4>2
        <5>2. n \in 1 .. NextOf(stream[c], sent[c]) - 1
          BY <5>1 DEF BuiltBelow
        <5>3. NextOf(stream[c], sent[c]) \in 1 .. Len(sent[c]) + 1 /\ Len(sent[c]) \in Nat
          BY <2>1, <3>1, NextOfTypes DEF ConnectionSound, Standing
        <5> DEFINE f == NextOf(stream[c], sent[c])
                   last == Len(sent[c])
        <5>4. DOMAIN sent[c] = 1 .. last
          BY <2>1 DEF ConnectionSound
        <5> HIDE DEF n, f, last
        <5>5. n \in 1 .. last
          BY <5>2, <5>3 DEF f, last
        <5> QED
          BY <5>4, <5>5 DEF n
    <3>5. FirstPortion(c, n) = Portion(n, sent[c][n], e)
      <4>1. sent[c] \in Seq(Messages) /\ \A cut \in cuts[c] : cut[2] \in Nat
        BY <2>1 DEF ConnectionSound, Rested
      <4> HIDE DEF n
      <4> QED
        BY <3>3, <3>4, <4>1, FirstPortionIs
    <3> QED
      BY <3>3, <3>5
  <2> QED
    BY <2>2, <2>3
<1> QED
  BY <1>1, RestAlways, PTL
=============================================================================
