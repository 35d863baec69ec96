---------------------------- MODULE SipUdpProofs ----------------------------
(* Theorems about SipUdp, for all datagrams, whole or cut short, any number  *)
(* of them, every size of the read buffer and all that memory may hold.      *)
EXTENDS SipUdp, DataLemmas

(* Least and greatest members *)

LEMMA MinIsLeast ==
  ASSUME NEW F, F \subseteq Nat, F # {}
  PROVE  Min(F) \in F /\ \A y \in F : Min(F) <= y
<1>1. \E x \in F : \A y \in F : x <= y
  BY LeastExists
<1> QED
  BY <1>1 DEF Min

LEMMA MaxIsGreatest ==
  ASSUME NEW n \in Nat, NEW F, F \subseteq 0 .. n, F # {}
  PROVE  Max(F) \in F
<1>1. \E x \in F : \A y \in F : x >= y
  BY GreatestExists
<1> QED
  BY <1>1 DEF Max

-----------------------------------------------------------------------------
(* The states of a parser, and of the read loop *)

Pieces(n) == [unit : Unit, number : 0 .. n]

Parsers(n) == {p \in [processingMessage : BOOLEAN, sipMessage : Message(0 .. n) \cup {Null},
                      expecting : ContentTypes \cup PartTypes, receivedContentLength : Nat,
                      bodies : Bodies(0 .. n)] : p.processingMessage => p.sipMessage # Null}

LoopStates(n) == [parser : Parsers(n), running : BOOLEAN,
                  delivered : Seq(Message(0 .. n)), rest : Seq(Pieces(n))]

LEMMA ParserTypes ==
  ASSUME NEW p, NEW n \in Nat
  PROVE  ParserTypeOK(p, 0 .. n) <=> p \in Parsers(n)
BY DEF ParserTypeOK, Parsers

LEMMA StampsGrow ==
  ASSUME NEW m \in Nat, NEW n \in Nat, m <= n
  PROVE  /\ Pieces(m) \subseteq Pieces(n)
         /\ Message(0 .. m) \subseteq Message(0 .. n)
         /\ Parsers(m) \subseteq Parsers(n)
<1>1. Pieces(m) \subseteq Pieces(n)
  BY DEF Pieces
<1>2. Seq(Pieces(m)) \subseteq Seq(Pieces(n))
  BY <1>1
<1>3. Bodies(0 .. m) \subseteq Bodies(0 .. n)
  BY <1>2 DEF Bodies, Chunk, Pieces
<1>4. Message(0 .. m) \subseteq Message(0 .. n)
  BY <1>3 DEF Message
<1>5. Parsers(m) \subseteq Parsers(n)
  BY <1>3, <1>4 DEF Parsers
<1> QED
  BY <1>1, <1>4, <1>5

-----------------------------------------------------------------------------
(* What is pulled *)

\* The chunk that the next pull takes out of the rest, and what it leaves.
Pulled(rest) == SubSeq(rest, 1, PulledCount(rest))
Left(rest) == SubSeq(rest, PulledCount(rest) + 1, Len(rest))

LEMMA PulledCountBounds ==
  ASSUME NEW n \in Nat, NEW rest \in Seq(Pieces(n))
  PROVE  /\ PulledCount(rest) \in 0 .. Len(rest)
         /\ rest # <<>> => PulledCount(rest) >= 1
         /\ \A i \in 1 .. Len(rest) : i < PulledCount(rest) => rest[i].unit.kind # "end"
         /\ PulledCount(rest) < Len(rest) => rest[PulledCount(rest)].unit.kind = "end"
<1> DEFINE ends == {i \in DOMAIN rest : rest[i].unit.kind = "end"}
<1>1. DOMAIN rest = 1 .. Len(rest) /\ Len(rest) \in Nat /\ (rest # <<>> => Len(rest) # 0)
  OBVIOUS
<1>2. ends \cup {Len(rest)} \subseteq Nat
  BY <1>1
<1> DEFINE count == Min(ends \cup {Len(rest)})
<1>3. count \in ends \cup {Len(rest)} /\ \A y \in ends \cup {Len(rest)} : count <= y
  <2> HIDE DEF ends
  <2> QED
    BY <1>2, MinIsLeast
<1>4. PulledCount(rest) = count
  BY DEF PulledCount
<1> HIDE DEF count
<1> QED
  BY <1>1, <1>3, <1>4

LEMMA PulledElements ==
  ASSUME NEW n \in Nat, NEW rest \in Seq(Pieces(n))
  PROVE  /\ Pulled(rest) \in Seq(Pieces(n)) /\ Left(rest) \in Seq(Pieces(n))
         /\ Len(Pulled(rest)) = PulledCount(rest)
         /\ Len(Left(rest)) = Len(rest) - PulledCount(rest)
         /\ \A i \in 1 .. PulledCount(rest) : Pulled(rest)[i] = rest[i]
         /\ \A i \in 1 .. Len(rest) - PulledCount(rest) :
              Left(rest)[i] = rest[PulledCount(rest) + i]
BY PulledCountBounds, TailElements, FrontElements DEF Pulled, Left
-----------------------------------------------------------------------------
(* What loadMessageData makes of a parser *)

LEMMA NullIsNoData ==
  ASSUME NEW n \in Nat
  PROVE  Null \notin Seq(Pieces(n)) /\ Null \notin Message(0 .. n)
<1> DEFINE All == [unit : Unit, number : Nat]
<1>1. 0 .. n \subseteq Nat /\ Pieces(n) \subseteq All
  BY DEF Pieces
<1>2. Seq(Pieces(n)) \subseteq Chunk(Nat)
  <2>1. Chunk(Nat) = Seq(All)
    BY DEF Chunk
  <2> HIDE DEF All
  <2> QED
    BY <1>1, <2>1
<1>3. Bodies(0 .. n) \subseteq Bodies(Nat)
  BY <1>2 DEF Bodies, Chunk, Pieces
<1>4. Message(0 .. n) \subseteq Message(Nat)
  BY <1>1, <1>3 DEF Message
<1> QED
  BY <1>2, <1>4, NullAssumption

LEMMA AnnouncedTypes ==
  ASSUME NEW n \in Nat, NEW chunk \in Seq(Pieces(n))
  PROVE  /\ AnnouncedType(chunk) \in PartTypes \cup {"NONE"}
         /\ AnnouncedType(chunk) # "NONE" => \E i \in DOMAIN chunk : chunk[i].unit.kind = "part"
<1> DEFINE parts == {i \in Lines(chunk) : chunk[i].unit.kind = "part"}
<1>1. CASE Lines(chunk) # {} /\ Min(Lines(chunk)) \in parts
  <2>1. Len(chunk) \in Nat /\ DOMAIN chunk = 1 .. Len(chunk)
    OBVIOUS
  <2>2. parts \subseteq 0 .. Len(chunk) /\ parts # {}
    BY <1>1, <2>1 DEF Lines
  <2>3. Max(parts) \in parts
    <3> HIDE DEF parts
    <3> QED
      BY <2>1, <2>2, MaxIsGreatest
  <2>4. Max(parts) \in DOMAIN chunk /\ chunk[Max(parts)].unit.kind = "part"
    BY <2>3 DEF Lines
  <2>5. chunk[Max(parts)] \in Pieces(n)
    BY <2>4, ElementType
  <2>6. chunk[Max(parts)].unit \in Unit
    BY <2>5 DEF Pieces
  <2>7. chunk[Max(parts)].unit.type \in PartTypes
    BY <2>4, <2>6 DEF Unit
  <2>8. AnnouncedType(chunk) = chunk[Max(parts)].unit.type
    BY <1>1 DEF AnnouncedType
  <2> HIDE DEF parts
  <2> QED
    BY <2>4, <2>7, <2>8
<1>2. CASE ~ (Lines(chunk) # {} /\ Min(Lines(chunk)) \in parts)
  BY <1>2 DEF AnnouncedType
<1> QED
  BY <1>1, <1>2

LEMMA BuiltMessages ==
  ASSUME NEW n \in Nat, NEW p \in Parsers(n), NEW chunk \in Seq(Pieces(n))
  PROVE  LET m == BuildMessage(p, chunk)
         IN /\ m # Null <=> /\ StartsWith(chunk, "header")
                            /\ chunk[1].unit.request.method \in BuiltMethods
            /\ m # Null => /\ m \in Message(0 .. n) /\ chunk # <<>>
                           /\ chunk[1] \in Pieces(n)
                           /\ m.request = chunk[1].unit.request
                           /\ m.number = chunk[1].number
                           /\ m.bodies = IF m.request.method = "INVITE" THEN p.bodies ELSE NoBodies
<1> DEFINE m == BuildMessage(p, chunk)
<1>1. CASE StartsWith(chunk, "header") /\ chunk[1].unit.request.method \in BuiltMethods
  <2>1. chunk # <<>> /\ Head(chunk) = chunk[1] /\ 1 \in DOMAIN chunk
    BY <1>1 DEF StartsWith
  <2>2. chunk[1] \in Pieces(n)
    BY <2>1, ElementType
  <2>3. chunk[1].unit \in Unit /\ chunk[1].unit.kind = "header" /\ chunk[1].number \in 0 .. n
    BY <1>1, <2>1, <2>2 DEF Pieces, StartsWith
  <2>4. chunk[1].unit.request \in Request
    BY <2>3 DEF Unit
  <2>5. p.bodies \in Bodies(0 .. n) /\ NoBodies \in Bodies(0 .. n)
    BY DEF Parsers, NoBodies, Bodies
  <2>6. m = [request |-> chunk[1].unit.request, number |-> chunk[1].number,
             bodies |-> IF chunk[1].unit.request.method = "INVITE" THEN p.bodies ELSE NoBodies]
    BY <1>1, <2>1 DEF BuildMessage
  <2>7. m \in Message(0 .. n)
    BY <2>3, <2>4, <2>5, <2>6 DEF Message
  <2>8. m # Null
    BY <2>7, NullIsNoData
  <2> HIDE DEF m
  <2>9. /\ m.request = chunk[1].unit.request /\ m.number = chunk[1].number
        /\ m.bodies = IF m.request.method = "INVITE" THEN p.bodies ELSE NoBodies
    BY <2>6
  <2> QED
    BY <1>1, <2>1, <2>2, <2>7, <2>8, <2>9 DEF m
<1>2. CASE ~ (StartsWith(chunk, "header") /\ chunk[1].unit.request.method \in BuiltMethods)
  <2>1. StartsWith(chunk, "header") => Head(chunk) = chunk[1]
    BY DEF StartsWith
  <2>2. m = Null
    BY <1>2, <2>1 DEF BuildMessage
  <2> QED
    BY <1>2, <2>2
<1> QED
  BY <1>1, <1>2

LEMMA AddedBodies ==
  ASSUME NEW n \in Nat, NEW bodies \in Bodies(0 .. n), NEW type \in PartTypes,
         NEW chunk \in Seq(Pieces(n))
  PROVE  /\ AddBody(bodies, type, chunk) \in Bodies(0 .. n)
         /\ AddBody(bodies, type, chunk)["SDP"] =
              IF type = "SDP" /\ bodies["SDP"] = Null THEN chunk ELSE bodies["SDP"]
<1>1. Seq(Pieces(n)) = Chunk(0 .. n) /\ "SDP" \in PartTypes
  BY DEF Pieces, Chunk, PartTypes
<1> QED
  BY <1>1 DEF AddBody, Bodies

LEMMA ParsedBodies ==
  ASSUME NEW n \in Nat, NEW p \in Parsers(n), p.sipMessage \in Message(0 .. n),
         NEW chunk \in Seq(Pieces(n)), NEW text \in Seq(Pieces(n))
  PROVE  LET q == ParseBodyData(p, chunk, text)
         IN /\ q \in Parsers(n) /\ q.sipMessage \in Message(0 .. n)
            /\ q.processingMessage = p.processingMessage
            /\ q.receivedContentLength = p.receivedContentLength
            /\ q.sipMessage.request = p.sipMessage.request
            /\ q.sipMessage.number = p.sipMessage.number
            /\ q.expecting = IF p.expecting = "BOUNDARY" THEN AnnouncedType(chunk) ELSE "NONE"
            /\ q.bodies["SDP"] =
                 IF p.expecting = "SDP" /\ p.bodies["SDP"] = Null THEN chunk ELSE p.bodies["SDP"]
            /\ SdpOf(q.sipMessage) =
                 IF p.expecting = "SDP" /\ SdpOf(p.sipMessage) = Null THEN text
                 ELSE SdpOf(p.sipMessage)
<1> DEFINE q == ParseBodyData(p, chunk, text)
           m == p.sipMessage
<1>1. /\ p.processingMessage \in BOOLEAN /\ p.receivedContentLength \in Nat
      /\ p.expecting \in ContentTypes \cup PartTypes /\ p.bodies \in Bodies(0 .. n)
      /\ p = [processingMessage |-> p.processingMessage, sipMessage |-> m,
              expecting |-> p.expecting, receivedContentLength |-> p.receivedContentLength,
              bodies |-> p.bodies]
  BY DEF Parsers
<1>2. /\ m.request \in Request /\ m.number \in 0 .. n /\ m.bodies \in Bodies(0 .. n)
      /\ m = [request |-> m.request, number |-> m.number, bodies |-> m.bodies]
  BY DEF Message
<1>3. AnnouncedType(chunk) \in ContentTypes \cup PartTypes
  BY AnnouncedTypes DEF ContentTypes
<1>4. ASSUME NEW bodies \in Bodies(0 .. n), NEW own \in Bodies(0 .. n),
             NEW expecting \in ContentTypes \cup PartTypes,
             q = [processingMessage |-> p.processingMessage,
                  sipMessage |-> [request |-> m.request, number |-> m.number, bodies |-> own],
                  expecting |-> expecting, receivedContentLength |-> p.receivedContentLength,
                  bodies |-> bodies]
      PROVE  /\ q \in Parsers(n) /\ q.sipMessage \in Message(0 .. n)
             /\ q.processingMessage = p.processingMessage
             /\ q.receivedContentLength = p.receivedContentLength
             /\ q.sipMessage.request = m.request /\ q.sipMessage.number = m.number
             /\ q.expecting = expecting
             /\ q.bodies["SDP"] = bodies["SDP"] /\ SdpOf(q.sipMessage) = own["SDP"]
  <2>1. [request |-> m.request, number |-> m.number, bodies |-> own] \in Message(0 .. n)
    BY <1>2 DEF Message
  <2>2. [request |-> m.request, number |-> m.number, bodies |-> own] # Null
    BY <2>1, NullIsNoData
  <2> HIDE DEF q, m
  <2> QED
    BY <1>1, <1>4, <2>1, <2>2 DEF Parsers, SdpOf
<1>5. CASE p.expecting \in {"SDP", "XML"}
  <2> DEFINE bodies == AddBody(p.bodies, p.expecting, chunk)
             own == AddBody(m.bodies, p.expecting, text)
  <2>1. p.expecting \in PartTypes
    BY <1>5 DEF PartTypes
  <2>2. /\ bodies \in Bodies(0 .. n)
        /\ bodies["SDP"] = IF p.expecting = "SDP" /\ p.bodies["SDP"] = Null THEN chunk
                           ELSE p.bodies["SDP"]
    BY <1>1, <2>1, AddedBodies
  <2>3. /\ own \in Bodies(0 .. n)
        /\ own["SDP"] = IF p.expecting = "SDP" /\ m.bodies["SDP"] = Null THEN text
                        ELSE m.bodies["SDP"]
    BY <1>2, <2>1, AddedBodies
  <2>4. q = [p EXCEPT !.bodies = bodies, !.sipMessage = [m EXCEPT !.bodies = own],
                      !.expecting = "NONE"]
    BY <1>5 DEF ParseBodyData
  <2> HIDE DEF bodies, own, q, m
  <2>5. q = [processingMessage |-> p.processingMessage,
             sipMessage |-> [request |-> m.request, number |-> m.number, bodies |-> own],
             expecting |-> "NONE", receivedContentLength |-> p.receivedContentLength,
             bodies |-> bodies]
    BY <1>1, <1>2, <2>4
  <2>6. "NONE" \in ContentTypes \cup PartTypes
    BY DEF ContentTypes
  <2>7. p.expecting # "BOUNDARY"
    BY <1>5
  <2> QED
    BY <1>4, <2>2, <2>3, <2>5, <2>6, <2>7 DEF SdpOf, q, m
<1>6. CASE p.expecting = "OTHER"
  <2> DEFINE bodies == AddBody(p.bodies, "OTHER", chunk)
  <2>1. /\ bodies \in Bodies(0 .. n) /\ bodies["SDP"] = p.bodies["SDP"]
    BY <1>1, AddedBodies DEF PartTypes
  <2>2. q = [p EXCEPT !.bodies = bodies, !.expecting = "NONE"]
    BY <1>6 DEF ParseBodyData
  <2> HIDE DEF bodies, q, m
  <2>3. q = [processingMessage |-> p.processingMessage,
             sipMessage |-> [request |-> m.request, number |-> m.number, bodies |-> m.bodies],
             expecting |-> "NONE", receivedContentLength |-> p.receivedContentLength,
             bodies |-> bodies]
    <3>1. DOMAIN q = {"processingMessage", "sipMessage", "expecting", "receivedContentLength",
                      "bodies"}
      BY <1>1, <2>2
    <3>2. q = [f \in DOMAIN q |-> q[f]]
      BY <2>2
    <3>3. /\ q.processingMessage = p.processingMessage /\ q.sipMessage = p.sipMessage
          /\ q.receivedContentLength = p.receivedContentLength
          /\ q.expecting = "NONE" /\ q.bodies = bodies
      BY <1>1, <2>2
    <3>4. q = [processingMessage |-> p.processingMessage, sipMessage |-> m,
               expecting |-> "NONE", receivedContentLength |-> p.receivedContentLength,
               bodies |-> bodies]
      BY <3>1, <3>2, <3>3 DEF m
    <3> QED
      BY <1>2, <3>4
  <2>4.. "NONE" \in ContentTypes \cup PartTypes /\ p.expecting \notin {"BOUNDARY", "SDP"}
    BY <1>6 DEF ContentTypes
  <2> QED
    BY <1>2, <1>4, <2>1, <2>3, <2>4 DEF SdpOf, q, m
<1>7. CASE p.expecting \notin {"SDP", "XML", "OTHER"}
  <2> DEFINE expecting == IF p.expecting = "BOUNDARY" THEN AnnouncedType(chunk) ELSE "NONE"
  <2>1. q = [p EXCEPT !.expecting = expecting]
    BY <1>7 DEF ParseBodyData
  <2>2. expecting \in ContentTypes \cup PartTypes /\ p.expecting # "SDP"
    BY <1>3, <1>7 DEF ContentTypes
  <2>3. expecting = IF p.expecting = "BOUNDARY" THEN AnnouncedType(chunk) ELSE "NONE"
    OBVIOUS
  <2> HIDE DEF expecting, q, m
  <2>4. q = [processingMessage |-> p.processingMessage,
             sipMessage |-> [request |-> m.request, number |-> m.number, bodies |-> m.bodies],
             expecting |-> expecting, receivedContentLength |-> p.receivedContentLength,
             bodies |-> p.bodies]
    BY <1>1, <1>2, <2>1
  <2> QED
    BY <1>1, <1>2, <1>4, <2>2, <2>3, <2>4 DEF SdpOf, q, m
<1> QED
  BY <1>5, <1>6, <1>7
LEMMA LoopStateTypes ==
  ASSUME NEW n \in Nat, NEW s \in LoopStates(n)
  PROVE  /\ s.parser \in Parsers(n) /\ s.running \in BOOLEAN
         /\ s.delivered \in Seq(Message(0 .. n)) /\ s.rest \in Seq(Pieces(n))
         /\ s.parser.processingMessage \in BOOLEAN /\ s.parser.receivedContentLength \in Nat
         /\ s.parser.processingMessage => s.parser.sipMessage \in Message(0 .. n)
BY DEF LoopStates, Parsers

LEMMA MessageTypes ==
  ASSUME NEW n \in Nat, NEW m \in Message(0 .. n)
  PROVE  /\ m.request \in Request /\ m.request.contentLength \in Nat
         /\ m.request.contentType \in ContentTypes /\ m.number \in 0 .. n /\ m # Null
BY NullIsNoData DEF Message, Request

\* A state whose parser or messages have changed, and a parser of which all but its
\* bodies may have.
StateWith(s, p, messages) == [s EXCEPT !.parser = p, !.delivered = messages]

ParserWith(p, processing, m, expecting, received) ==
  [p EXCEPT !.processingMessage = processing, !.sipMessage = m,
            !.expecting = expecting, !.receivedContentLength = received]

LEMMA StatesMade ==
  ASSUME NEW n \in Nat, NEW s \in LoopStates(n), NEW p \in Parsers(n),
         NEW messages \in Seq(Message(0 .. n))
  PROVE  /\ StateWith(s, p, messages) \in LoopStates(n)
         /\ StateWith(s, p, messages).parser = p
         /\ StateWith(s, p, messages).delivered = messages
         /\ StateWith(s, p, messages).rest = s.rest
         /\ StateWith(s, p, messages).running = s.running
BY DEF LoopStates, StateWith

LEMMA HeaderLoaded ==
  ASSUME NEW n \in Nat, NEW s \in LoopStates(n), NEW chunk \in Seq(Pieces(n)),
         ~ s.parser.processingMessage
  PROVE  LET t == LoadHeader(s, chunk)
             m == BuildMessage(s.parser, chunk)
         IN /\ t \in LoopStates(n) /\ t.running = s.running /\ t.rest = s.rest
            /\ t.parser.bodies = s.parser.bodies
            /\ m = Null =>
                 /\ ~ t.parser.processingMessage
                 /\ t.parser.receivedContentLength = s.parser.receivedContentLength
                 /\ t.delivered = s.delivered
            /\ (m # Null /\ m.request.contentLength = 0) =>
                 /\ ~ t.parser.processingMessage
                 /\ t.parser.receivedContentLength = 0
                 /\ t.delivered = Append(s.delivered, m)
            /\ (m # Null /\ m.request.contentLength # 0) =>
                 /\ t.parser.processingMessage
                 /\ t.parser.receivedContentLength = s.parser.receivedContentLength
                 /\ t.parser.sipMessage = m /\ t.parser.expecting = m.request.contentType
                 /\ t.delivered = s.delivered
<1> DEFINE t == LoadHeader(s, chunk)
           m == BuildMessage(s.parser, chunk)
           p == s.parser
<1>1. m # Null => m \in Message(0 .. n)
  BY LoopStateTypes, BuiltMessages
<1>2. /\ p \in Parsers(n) /\ s.delivered \in Seq(Message(0 .. n))
      /\ p.processingMessage \in BOOLEAN /\ p.receivedContentLength \in Nat
      /\ p.expecting \in ContentTypes \cup PartTypes /\ "NONE" \in ContentTypes
  BY LoopStateTypes DEF Parsers, ContentTypes
<1>3. CASE m = Null
  <2> DEFINE q == ParserWith(p, FALSE, Null, p.expecting, p.receivedContentLength)
  <2>1. t = StateWith(s, q, s.delivered)
    BY <1>3 DEF LoadHeader, LoopStates, Parsers, StateWith, ParserWith
  <2>2. /\ q \in Parsers(n) /\ q.processingMessage = FALSE /\ q.sipMessage = Null
        /\ q.expecting = p.expecting /\ q.receivedContentLength = p.receivedContentLength
        /\ q.bodies = p.bodies
    BY <1>2 DEF ParserWith, Parsers
  <2> HIDE DEF q
  <2>3. /\ t \in LoopStates(n) /\ t.parser = q /\ t.delivered = s.delivered
        /\ t.rest = s.rest /\ t.running = s.running
    <3>1. s.delivered \in Seq(Message(0 .. n))
      BY <1>2
    <3> HIDE DEF t, m
    <3> QED
      BY <2>1, <2>2, <3>1, StatesMade
  <2> QED
    BY <1>3, <2>2, <2>3
<1>4. CASE m # Null /\ m.request.contentLength = 0
  <2> DEFINE q == ParserWith(p, FALSE, m, "NONE", 0)
  <2>1. t = StateWith(s, q, Append(s.delivered, m))
    BY <1>4 DEF LoadHeader, Deliver, LoopStates, Parsers, StateWith, ParserWith
  <2>2. /\ q \in Parsers(n) /\ q.processingMessage = FALSE /\ q.sipMessage = m
        /\ q.expecting = "NONE" /\ q.receivedContentLength = 0
        /\ q.bodies = p.bodies
    BY <1>1, <1>2, <1>4 DEF ParserWith, Parsers
  <2> HIDE DEF q
  <2>3. /\ t \in LoopStates(n) /\ t.parser = q /\ t.delivered = Append(s.delivered, m)
        /\ t.rest = s.rest /\ t.running = s.running
    <3>1. Append(s.delivered, m) \in Seq(Message(0 .. n))
      BY <1>1, <1>2, <1>4
    <3> HIDE DEF t, m
    <3> QED
      BY <2>1, <2>2, <3>1, StatesMade, ZenonT(30)
  <2> QED
    BY <1>4, <2>2, <2>3
<1>5. CASE m # Null /\ m.request.contentLength # 0
  <2> DEFINE q == ParserWith(p, TRUE, m, m.request.contentType, p.receivedContentLength)
  <2>1. t = StateWith(s, q, s.delivered)
    BY <1>5 DEF LoadHeader, LoopStates, Parsers, StateWith, ParserWith
  <2>2. /\ q \in Parsers(n) /\ q.processingMessage = TRUE /\ q.sipMessage = m
        /\ q.expecting = m.request.contentType /\ q.receivedContentLength = p.receivedContentLength
        /\ q.bodies = p.bodies
    BY <1>1, <1>2, <1>5, MessageTypes DEF ParserWith, Parsers
  <2> HIDE DEF q
  <2>3. /\ t \in LoopStates(n) /\ t.parser = q /\ t.delivered = s.delivered
        /\ t.rest = s.rest /\ t.running = s.running
    <3>1. s.delivered \in Seq(Message(0 .. n))
      BY <1>2
    <3> HIDE DEF t, m
    <3> QED
      BY <2>1, <2>2, <3>1, StatesMade
  <2> QED
    BY <1>5, <2>2, <2>3
<1> QED
  BY <1>3, <1>4, <1>5

LEMMA BodyLoaded ==
  ASSUME NEW n \in Nat, NEW s \in LoopStates(n), NEW chunk \in Seq(Pieces(n)),
         NEW text \in Seq(Pieces(n)), s.parser.processingMessage
  PROVE  LET t == LoadBody(s, chunk, text)
             p == s.parser
             m == p.sipMessage
             received == p.receivedContentLength + Len(chunk)
         IN /\ t \in LoopStates(n) /\ t.running = s.running /\ t.rest = s.rest
            /\ t.parser.sipMessage \in Message(0 .. n)
            /\ t.parser.sipMessage.request = m.request
            /\ t.parser.sipMessage.number = m.number
            /\ t.parser.expecting = IF p.expecting = "BOUNDARY" THEN AnnouncedType(chunk) ELSE "NONE"
            /\ t.parser.bodies["SDP"] =
                 IF p.expecting = "SDP" /\ p.bodies["SDP"] = Null THEN chunk ELSE p.bodies["SDP"]
            /\ SdpOf(t.parser.sipMessage) =
                 IF p.expecting = "SDP" /\ SdpOf(m) = Null THEN text ELSE SdpOf(m)
            /\ received >= m.request.contentLength =>
                 /\ ~ t.parser.processingMessage /\ t.parser.receivedContentLength = 0
                 /\ t.delivered = Append(s.delivered, t.parser.sipMessage)
            /\ ~ (received >= m.request.contentLength) =>
                 /\ t.parser.processingMessage /\ t.parser.receivedContentLength = received
                 /\ t.delivered = s.delivered
<1> DEFINE t == LoadBody(s, chunk, text)
           m == s.parser.sipMessage
           received == s.parser.receivedContentLength + Len(chunk)
           p == Counted(s.parser, chunk)
           q == ParseBodyData(p, chunk, text)
<1>1. /\ p \in Parsers(n) /\ p.sipMessage = m /\ p.processingMessage
      /\ p.receivedContentLength = received /\ p.expecting = s.parser.expecting
      /\ p.bodies = s.parser.bodies
  <2>1. received \in Nat
    BY LoopStateTypes
  <2> QED
    BY <2>1, LoopStateTypes DEF Parsers, Counted
<1>2. m \in Message(0 .. n) /\ s.delivered \in Seq(Message(0 .. n))
  BY LoopStateTypes
<1>3. /\ t = LET loaded == [s EXCEPT !.parser = q]
              IN IF q.receivedContentLength >= q.sipMessage.request.contentLength
                 THEN Deliver(loaded) ELSE loaded
  BY DEF LoadBody, LoopStates
<1> HIDE DEF p
<1>4. /\ q \in Parsers(n) /\ q.sipMessage \in Message(0 .. n)
      /\ q.processingMessage = p.processingMessage
      /\ q.receivedContentLength = p.receivedContentLength
      /\ q.sipMessage.request = p.sipMessage.request
      /\ q.sipMessage.number = p.sipMessage.number
      /\ q.expecting = IF p.expecting = "BOUNDARY" THEN AnnouncedType(chunk) ELSE "NONE"
      /\ q.bodies["SDP"] =
           IF p.expecting = "SDP" /\ p.bodies["SDP"] = Null THEN chunk ELSE p.bodies["SDP"]
      /\ SdpOf(q.sipMessage) =
           IF p.expecting = "SDP" /\ SdpOf(p.sipMessage) = Null THEN text
           ELSE SdpOf(p.sipMessage)
  <2>1. p \in Parsers(n) /\ p.sipMessage \in Message(0 .. n)
    BY <1>1, <1>2
  <2> HIDE DEF m, received
  <2> QED
    BY <2>1, ParsedBodies
<1> HIDE DEF q, t, m, received
<1>5. CASE received >= m.request.contentLength
  <2> DEFINE r == ParserWith(q, FALSE, q.sipMessage, q.expecting, 0)
             messages == Append(s.delivered, q.sipMessage)
  <2>1. t = StateWith(s, r, messages)
    BY <1>1, <1>3, <1>4, <1>5 DEF Deliver, LoopStates, Parsers, StateWith, ParserWith
  <2>2. /\ r \in Parsers(n) /\ ~ r.processingMessage /\ r.sipMessage = q.sipMessage
        /\ r.expecting = q.expecting /\ r.receivedContentLength = 0 /\ r.bodies = q.bodies
    BY <1>4 DEF ParserWith, Parsers
  <2>3. messages \in Seq(Message(0 .. n))
    BY <1>2, <1>4
  <2> HIDE DEF r, messages
  <2>4. /\ t \in LoopStates(n) /\ t.parser = r /\ t.delivered = messages
        /\ t.rest = s.rest /\ t.running = s.running
    BY <2>1, <2>2, <2>3, StatesMade
  <2> QED
    BY <1>1, <1>4, <1>5, <2>2, <2>4 DEF t, m, received, messages
<1>6. CASE ~ (received >= m.request.contentLength)
  <2>1. t = StateWith(s, q, s.delivered)
    BY <1>1, <1>3, <1>4, <1>6 DEF LoopStates, StateWith
  <2>2. /\ t \in LoopStates(n) /\ t.parser = q /\ t.delivered = s.delivered
        /\ t.rest = s.rest /\ t.running = s.running
    BY <1>2, <1>4, <2>1, StatesMade
  <2> QED
    BY <1>1, <1>4, <1>6, <2>2 DEF t, m, received
<1> QED
  BY <1>5, <1>6

-----------------------------------------------------------------------------
(* Texts *)

LEMMA PrefixSelf ==
  ASSUME NEW S, NEW u \in Seq(S)
  PROVE  IsPrefix(u, u)
BY DEF IsPrefix

LEMMA PrefixExtended ==
  ASSUME NEW S, NEW u \in Seq(S), NEW v \in Seq(S)
  PROVE  IsPrefix(u, u \o v)
<1>1. /\ u \o v \in Seq(S) /\ Len(u \o v) = Len(u) + Len(v) /\ Len(u) \in Nat /\ Len(v) \in Nat
      /\ \A i \in 1 .. Len(u) : (u \o v)[i] = u[i]
  OBVIOUS
<1> DEFINE w == u \o v
<1> HIDE DEF w
<1>2. /\ SubSeq(u, 1, Len(u)) \in Seq(S) /\ SubSeq(w, 1, Len(u)) \in Seq(S)
      /\ Len(SubSeq(u, 1, Len(u))) = Len(u) /\ Len(SubSeq(w, 1, Len(u))) = Len(u)
      /\ \A i \in 1 .. Len(u) : SubSeq(u, 1, Len(u))[i] = u[i] /\ SubSeq(w, 1, Len(u))[i] = w[i]
  BY <1>1, FrontElements DEF w
<1>3. SubSeq(u, 1, Len(u)) = SubSeq(w, 1, Len(u))
  BY <1>1, <1>2 DEF w
<1> QED
  BY <1>1, <1>3 DEF IsPrefix, w

\* The text that a message is given begins with the chunk that was pulled.
LEMMA TextBegins ==
  ASSUME NEW n \in Nat, NEW chunk \in Seq(Pieces(n)), NEW remains \in Leftovers, NEW size
  PROVE  /\ TextOf(chunk, size, remains) \in Seq(Pieces(n))
         /\ IsPrefix(chunk, TextOf(chunk, size, remains))
<1>1. remains \in Seq(Pieces(n))
  <2>1. remains \in Chunk({0})
    BY LeftoversAssumption
  <2> DEFINE Unstamped == [unit : Unit, number : {0}]
  <2>2. Unstamped \subseteq Pieces(n)
    BY DEF Pieces
  <2>3. Chunk({0}) = Seq(Unstamped)
    BY DEF Chunk
  <2> HIDE DEF Unstamped
  <2> QED
    BY <2>1, <2>2, <2>3
<1>2. chunk \o remains \in Seq(Pieces(n)) /\ IsPrefix(chunk, chunk \o remains)
  BY <1>1, PrefixExtended
<1>3. IsPrefix(chunk, chunk)
  BY PrefixSelf
<1> QED
  BY <1>2, <1>3 DEF TextOf

LEMMA AppendElements ==
  ASSUME NEW S, NEW messages \in Seq(S), NEW m \in S
  PROVE  /\ Append(messages, m) \in Seq(S)
         /\ Len(Append(messages, m)) = Len(messages) + 1 /\ Len(messages) \in Nat
         /\ DOMAIN messages = 1 .. Len(messages)
         /\ DOMAIN Append(messages, m) = 1 .. Len(messages) + 1
         /\ \A i \in 1 .. Len(messages) : Append(messages, m)[i] = messages[i]
         /\ Append(messages, m)[Len(messages) + 1] = m
OBVIOUS

-----------------------------------------------------------------------------
(* Requests are handed on in the order of arrival *)

\* The message that is awaited arrived after all that were handed on.
Ordered(p, messages) ==
  /\ InOrder(messages)
  /\ p.processingMessage => \A i \in DOMAIN messages : messages[i].number < p.sipMessage.number

LEMMA OneMoreInOrder ==
  ASSUME NEW n \in Nat, NEW messages \in Seq(Message(0 .. n)), NEW m \in Message(0 .. n),
         InOrder(messages), \A i \in DOMAIN messages : messages[i].number < m.number
  PROVE  InOrder(Append(messages, m))
<1> DEFINE more == Append(messages, m)
           last == Len(messages) + 1
<1> SUFFICES ASSUME NEW i \in DOMAIN more, NEW j \in DOMAIN more, i < j
             PROVE  more[i].number < more[j].number
  BY DEF InOrder
<1>1. /\ DOMAIN more = 1 .. last /\ DOMAIN messages = 1 .. Len(messages)
      /\ Len(messages) \in Nat
      /\ \A k \in 1 .. Len(messages) : more[k] = messages[k]
      /\ more[last] = m
  BY AppendElements
<1> HIDE DEF more
<1>2. CASE j = last
  BY <1>1, <1>2
<1>3. CASE j # last
  BY <1>1, <1>3 DEF InOrder
<1> QED
  BY <1>2, <1>3

LEMMA HeaderKeepsOrder ==
  ASSUME NEW n \in Nat, NEW s \in LoopStates(n), NEW chunk \in Seq(Pieces(n)),
         ~ s.parser.processingMessage, Ordered(s.parser, s.delivered),
         StartsWith(chunk, "header")
           => \A i \in DOMAIN s.delivered : s.delivered[i].number < chunk[1].number
  PROVE  LET t == LoadHeader(s, chunk) IN Ordered(t.parser, t.delivered)
<1> DEFINE t == LoadHeader(s, chunk)
           m == BuildMessage(s.parser, chunk)
<1> SUFFICES Ordered(t.parser, t.delivered)
  OBVIOUS
<1>1. /\ m = Null => ~ t.parser.processingMessage /\ t.delivered = s.delivered
      /\ (m # Null /\ m.request.contentLength = 0) =>
           ~ t.parser.processingMessage /\ t.delivered = Append(s.delivered, m)
      /\ (m # Null /\ m.request.contentLength # 0) =>
           t.parser.sipMessage = m /\ t.delivered = s.delivered
  BY HeaderLoaded
<1>2. m # Null => m \in Message(0 .. n) /\ m.number = chunk[1].number /\ StartsWith(chunk, "header")
  BY LoopStateTypes, BuiltMessages
<1>3. s.delivered \in Seq(Message(0 .. n)) /\ InOrder(s.delivered)
  BY LoopStateTypes DEF Ordered
<1> HIDE DEF t, m
<1>4. CASE m = Null
  BY <1>1, <1>3, <1>4 DEF Ordered
<1>5. CASE m # Null /\ m.request.contentLength = 0
  <2>1. InOrder(Append(s.delivered, m))
    BY <1>2, <1>3, <1>5, OneMoreInOrder
  <2> QED
    BY <1>1, <1>5, <2>1 DEF Ordered
<1>6. CASE m # Null /\ m.request.contentLength # 0
  BY <1>1, <1>2, <1>3, <1>6 DEF Ordered
<1> QED
  BY <1>4, <1>5, <1>6

LEMMA BodyKeepsOrder ==
  ASSUME NEW n \in Nat, NEW s \in LoopStates(n), NEW chunk \in Seq(Pieces(n)),
         NEW text \in Seq(Pieces(n)), s.parser.processingMessage,
         Ordered(s.parser, s.delivered)
  PROVE  LET t == LoadBody(s, chunk, text) IN Ordered(t.parser, t.delivered)
<1> DEFINE t == LoadBody(s, chunk, text)
           u == t.parser.sipMessage
<1> SUFFICES Ordered(t.parser, t.delivered)
  OBVIOUS
<1>1. /\ u \in Message(0 .. n) /\ u.number = s.parser.sipMessage.number
      /\ \/ ~ t.parser.processingMessage /\ t.delivered = Append(s.delivered, u)
         \/ t.parser.processingMessage /\ t.delivered = s.delivered
  BY BodyLoaded
<1>2. s.delivered \in Seq(Message(0 .. n)) /\ InOrder(s.delivered)
  BY LoopStateTypes DEF Ordered
<1>3. \A i \in DOMAIN s.delivered : s.delivered[i].number < s.parser.sipMessage.number
  BY DEF Ordered
<1> HIDE DEF t, u
<1>4. CASE ~ t.parser.processingMessage /\ t.delivered = Append(s.delivered, u)
  <2>1. InOrder(Append(s.delivered, u))
    BY <1>1, <1>2, <1>3, OneMoreInOrder
  <2> QED
    BY <1>4, <2>1 DEF Ordered
<1>5. CASE t.parser.processingMessage /\ t.delivered = s.delivered
  BY <1>1, <1>2, <1>3, <1>5 DEF Ordered, u
<1> QED
  BY <1>1, <1>4, <1>5

-----------------------------------------------------------------------------
(* Whole datagrams *)

\* What is known of the rest of the n-th datagram behind its first pull.
Behind(rest, n) ==
  \A i \in DOMAIN rest : rest[i].unit.kind # "header" /\ rest[i].number = n

PartsHaveText(rest) ==
  \A i, j \in DOMAIN rest :
    (/\ i < j /\ j < Len(rest) /\ rest[i].unit.kind = "part" /\ rest[j].unit.kind = "end"
     /\ \A k \in i .. j - 1 : rest[k].unit.kind # "end")
      => rest[j + 1].unit.kind = "text"

OwnText(sdp, n) == StartsWith(sdp, "text") /\ \A k \in DOMAIN sdp : sdp[k].number = n

FirstIsOwn(messages) ==
  \A i \in DOMAIN messages :
    (SdpOf(messages[i]) # Null /\ \A j \in 1 .. i - 1 : SdpOf(messages[j]) = Null)
      => OwnText(SdpOf(messages[i]), messages[i].number)

NoneHasSdp(messages) == \A i \in DOMAIN messages : SdpOf(messages[i]) = Null

\* Between messages nothing is awaited, and the SDP that the parser keeps was handed on.
Idle(p, messages, requests) ==
  /\ ~ p.processingMessage /\ p.receivedContentLength = 0
  /\ Numbers(messages) = requests
  /\ p.bodies["SDP"] # Null => ~ NoneHasSdp(messages)

\* The message whose body is awaited is the datagram's own, there is enough left of
\* the datagram, and what comes next is what is expected.
Awaiting(p, messages, rest, n, requests) ==
  /\ p.processingMessage /\ p.sipMessage.number = n
  /\ Numbers(messages) \cup {n} = requests
  /\ p.receivedContentLength < p.sipMessage.request.contentLength
  /\ p.sipMessage.request.contentLength <= p.receivedContentLength + Len(rest)
  /\ p.expecting = "BOUNDARY" => rest[1].unit.kind # "end"
  /\ p.expecting = "SDP" => rest[1].unit.kind = "text"
  /\ NoneHasSdp(messages) =>
       IF SdpOf(p.sipMessage) = Null THEN p.bodies["SDP"] = Null
       ELSE OwnText(SdpOf(p.sipMessage), n)

\* Of these requests one has ended the process, if its logger does that.
Ended(live, requests) == live <=> (logEnds => requests = {})

WholeState(s, n, requests) ==
  /\ Ended(s.running, requests)
  /\ FirstIsOwn(s.delivered)
  /\ Len(s.rest) < BufferSize /\ PartsHaveText(s.rest)
  /\ s.running => \/ Idle(s.parser, s.delivered, requests)
                  \/ Awaiting(s.parser, s.delivered, s.rest, n, requests)

LEMMA LeftKeeps ==
  ASSUME NEW n \in Nat, NEW rest \in Seq(Pieces(n))
  PROVE  /\ Behind(rest, n) => Behind(Left(rest), n)
         /\ PartsHaveText(rest) => PartsHaveText(Left(rest))
<1> DEFINE c == PulledCount(rest)
           left == Left(rest)
<1>1. /\ c \in 0 .. Len(rest) /\ Len(rest) \in Nat /\ DOMAIN rest = 1 .. Len(rest)
      /\ left \in Seq(Pieces(n)) /\ Len(left) = Len(rest) - c
      /\ \A i \in 1 .. Len(rest) - c : left[i] = rest[c + i]
  <2>1. c \in 0 .. Len(rest)
    BY PulledCountBounds
  <2>2. Len(rest) \in Nat /\ DOMAIN rest = 1 .. Len(rest)
    OBVIOUS
  <2>3. /\ left \in Seq(Pieces(n)) /\ Len(left) = Len(rest) - c
        /\ \A i \in 1 .. Len(rest) - c : left[i] = rest[c + i]
    BY PulledElements
  <2> HIDE DEF c, left
  <2> QED
    BY <2>1, <2>2, <2>3
<1> HIDE DEF c, left
<1>2. DOMAIN left = 1 .. Len(rest) - c
  BY <1>1
<1>3. \A i \in DOMAIN left : c + i \in DOMAIN rest
  BY <1>1, <1>2
<1>4. Behind(rest, n) => Behind(left, n)
  BY <1>1, <1>2, <1>3 DEF Behind
<1>5. ASSUME PartsHaveText(rest) PROVE PartsHaveText(left)
  <2> SUFFICES ASSUME NEW i \in DOMAIN left, NEW j \in DOMAIN left, i < j, j < Len(left),
                      left[i].unit.kind = "part", left[j].unit.kind = "end",
                      \A k \in i .. j - 1 : left[k].unit.kind # "end"
               PROVE  left[j + 1].unit.kind = "text"
    BY DEF PartsHaveText
  <2> DEFINE a == c + i
             b == c + j
  <2>1. /\ a \in DOMAIN rest /\ b \in DOMAIN rest /\ a < b /\ b < Len(rest)
        /\ rest[a].unit.kind = "part" /\ rest[b].unit.kind = "end"
    BY <1>1, <1>2, <1>3
  <2>2. ASSUME NEW k \in a .. b - 1 PROVE rest[k].unit.kind # "end"
    <3>1. k - c \in i .. j - 1 /\ k - c \in 1 .. Len(rest) - c /\ c + (k - c) = k
      BY <1>1, <1>2
    <3> QED
      BY <1>1, <3>1
  <2> HIDE DEF a, b
  <2>3. rest[b + 1].unit.kind = "text"
    BY <1>5, <2>1, <2>2 DEF PartsHaveText
  <2>4. j + 1 \in 1 .. Len(rest) - c /\ c + (j + 1) = b + 1
    BY <1>1, <1>2 DEF b
  <2> QED
    BY <1>1, <2>3, <2>4
<1> QED
  BY <1>4, <1>5 DEF left

LEMMA OneMoreMessage ==
  ASSUME NEW n \in Nat, NEW messages \in Seq(Message(0 .. n)), NEW m \in Message(0 .. n)
  PROVE  /\ Numbers(Append(messages, m)) = Numbers(messages) \cup {m.number}
         /\ NoneHasSdp(Append(messages, m)) => NoneHasSdp(messages) /\ SdpOf(m) = Null
         /\ (/\ FirstIsOwn(messages)
             /\ NoneHasSdp(messages) /\ SdpOf(m) # Null => OwnText(SdpOf(m), m.number))
              => FirstIsOwn(Append(messages, m))
<1> DEFINE more == Append(messages, m)
           last == Len(messages) + 1
<1>1. /\ DOMAIN more = 1 .. last /\ DOMAIN messages = 1 .. Len(messages)
      /\ Len(messages) \in Nat
      /\ \A i \in 1 .. Len(messages) : more[i] = messages[i]
      /\ more[last] = m
  BY AppendElements
<1> HIDE DEF more
<1>2. Numbers(more) = Numbers(messages) \cup {m.number}
  BY <1>1 DEF Numbers
<1>3. NoneHasSdp(more) => NoneHasSdp(messages) /\ SdpOf(m) = Null
  BY <1>1 DEF NoneHasSdp
<1>4. ASSUME FirstIsOwn(messages),
             NoneHasSdp(messages) /\ SdpOf(m) # Null => OwnText(SdpOf(m), m.number),
             NEW i \in DOMAIN more, SdpOf(more[i]) # Null,
             \A j \in 1 .. i - 1 : SdpOf(more[j]) = Null
      PROVE  OwnText(SdpOf(more[i]), more[i].number)
  <2>1. CASE i = last
    <3>1. NoneHasSdp(messages)
      BY <1>1, <1>4, <2>1 DEF NoneHasSdp
    <3> QED
      BY <1>1, <1>4, <2>1, <3>1
  <2>2. CASE i # last
    <3>1. i \in DOMAIN messages /\ \A j \in 1 .. i - 1 : j \in 1 .. Len(messages)
      BY <1>1, <2>2
    <3> QED
      BY <1>1, <1>4, <3>1 DEF FirstIsOwn
  <2> QED
    BY <2>1, <2>2
<1>5. (/\ FirstIsOwn(messages)
       /\ NoneHasSdp(messages) /\ SdpOf(m) # Null => OwnText(SdpOf(m), m.number))
        => FirstIsOwn(more)
  BY <1>4 DEF FirstIsOwn
<1> QED
  BY <1>2, <1>3, <1>5 DEF more

LEMMA PulledOfRest ==
  ASSUME NEW n \in Nat, NEW rest \in Seq(Pieces(n)), rest # <<>>, Behind(rest, n),
         PartsHaveText(rest)
  PROVE  LET chunk == Pulled(rest)
         IN /\ chunk # <<>> /\ ~ StartsWith(chunk, "header")
            /\ rest[1].unit.kind = "text" => OwnText(chunk, n)
            /\ rest[1].unit.kind # "end" => Lines(chunk) # {}
            /\ (AnnouncedType(chunk) = "SDP" /\ Left(rest) # <<>>)
                 => Left(rest)[1].unit.kind = "text"
<1> DEFINE c == PulledCount(rest)
           chunk == Pulled(rest)
           left == Left(rest)
<1> SUFFICES /\ chunk # <<>> /\ ~ StartsWith(chunk, "header")
             /\ rest[1].unit.kind = "text" => OwnText(chunk, n)
             /\ rest[1].unit.kind # "end" => Lines(chunk) # {}
             /\ (AnnouncedType(chunk) = "SDP" /\ left # <<>>) => left[1].unit.kind = "text"
  OBVIOUS
<1>1. /\ c \in 1 .. Len(rest)
      /\ \A i \in 1 .. Len(rest) : i < c => rest[i].unit.kind # "end"
      /\ c < Len(rest) => rest[c].unit.kind = "end"
  BY PulledCountBounds
<1>2. Len(rest) \in Nat /\ DOMAIN rest = 1 .. Len(rest)
  OBVIOUS
<1>3. /\ chunk \in Seq(Pieces(n)) /\ Len(chunk) = c /\ left \in Seq(Pieces(n))
      /\ Len(left) = Len(rest) - c
      /\ \A i \in 1 .. c : chunk[i] = rest[i]
      /\ \A i \in 1 .. Len(rest) - c : left[i] = rest[c + i]
  BY PulledElements
<1>4. AnnouncedType(chunk) # "NONE" => \E i \in DOMAIN chunk : chunk[i].unit.kind = "part"
  <2> HIDE DEF chunk
  <2> QED
    BY <1>3, AnnouncedTypes
<1> HIDE DEF c, chunk, left
<1>5. DOMAIN chunk = 1 .. c /\ chunk # <<>> /\ chunk[1] = rest[1] /\ Head(chunk) = rest[1]
  BY <1>1, <1>2, <1>3
<1>6. 1 \in DOMAIN rest
  BY <1>1, <1>2
<1>7. ~ StartsWith(chunk, "header")
  BY <1>5, <1>6 DEF StartsWith, Behind
<1>8. rest[1].unit.kind = "text" => OwnText(chunk, n)
  <2>1. \A k \in DOMAIN chunk : chunk[k].number = n
    BY <1>1, <1>2, <1>3, <1>5 DEF Behind
  <2> QED
    BY <1>5, <2>1 DEF OwnText, StartsWith
<1>9. rest[1].unit.kind # "end" => Lines(chunk) # {}
  <2>1. 1 \in DOMAIN chunk
    BY <1>1, <1>2, <1>5
  <2> QED
    BY <1>5, <2>1 DEF Lines
<1>10. ASSUME AnnouncedType(chunk) = "SDP", left # <<>>
       PROVE  left[1].unit.kind = "text"
  <2>1. c < Len(rest) /\ rest[c].unit.kind = "end" /\ left[1] = rest[c + 1]
    <3>1. Len(left) # 0 /\ Len(left) \in Nat
      BY <1>3, <1>10
    <3> QED
      BY <1>1, <1>2, <1>3, <3>1
  <2>2. PICK i \in 1 .. c : rest[i].unit.kind = "part"
    BY <1>3, <1>4, <1>5, <1>10
  <2>3. i < c /\ i \in DOMAIN rest /\ c \in DOMAIN rest
    BY <1>1, <1>2, <2>1, <2>2
  <2>4. \A k \in i .. c - 1 : rest[k].unit.kind # "end"
    BY <1>1, <1>2, <2>2
  <2>5. rest[c + 1].unit.kind = "text"
    BY <2>1, <2>2, <2>3, <2>4 DEF PartsHaveText
  <2> QED
    BY <2>1, <2>5
<1> QED
  BY <1>5, <1>7, <1>8, <1>9, <1>10

\* A round that finds no body awaited, behind the datagram's first.
LEMMA IdleRound ==
  ASSUME NEW n \in Nat, NEW s \in LoopStates(n), NEW chunk \in Seq(Pieces(n)), NEW requests,
         ~ StartsWith(chunk, "header"), Idle(s.parser, s.delivered, requests)
  PROVE  LET t == LoadHeader(s, chunk)
         IN /\ Idle(t.parser, t.delivered, requests) /\ t.delivered = s.delivered
            /\ Survives(s.parser, chunk)
<1>1. BuildMessage(s.parser, chunk) = Null
  BY LoopStateTypes, BuiltMessages
<1>2. ~ s.parser.processingMessage
  BY DEF Idle
<1> DEFINE t == LoadHeader(s, chunk)
<1>3. /\ t.parser.bodies = s.parser.bodies /\ ~ t.parser.processingMessage
      /\ t.parser.receivedContentLength = s.parser.receivedContentLength
      /\ t.delivered = s.delivered
  BY <1>1, <1>2, HeaderLoaded
<1> HIDE DEF t
<1>4. Idle(t.parser, t.delivered, requests) /\ t.delivered = s.delivered
  BY <1>3 DEF Idle
<1>5. Survives(s.parser, chunk)
  BY <1>1, <1>2 DEF Survives, Constructs
<1> QED
  BY <1>4, <1>5 DEF t

\* A round that takes the next part of the body that is awaited.
LEMMA AwaitingRound ==
  ASSUME NEW n \in Nat, NEW s \in LoopStates(n), NEW requests, Behind(s.rest, n),
         FirstIsOwn(s.delivered), PartsHaveText(s.rest),
         Awaiting(s.parser, s.delivered, s.rest, n, requests)
  PROVE  LET chunk == Pulled(s.rest)
             t == LoadBody(s, chunk, chunk)
         IN /\ FirstIsOwn(t.delivered) /\ Survives(s.parser, chunk)
            /\ \/ Idle(t.parser, t.delivered, requests)
               \/ Awaiting(t.parser, t.delivered, Left(s.rest), n, requests)
<1> DEFINE p == s.parser
           m == p.sipMessage
           rest == s.rest
           chunk == Pulled(rest)
           left == Left(rest)
           t == LoadBody(s, chunk, chunk)
           u == t.parser.sipMessage
           c == PulledCount(rest)
           received == p.receivedContentLength + Len(chunk)
<1> DEFINE Goal == /\ FirstIsOwn(t.delivered) /\ Survives(p, chunk)
                   /\ \/ Idle(t.parser, t.delivered, requests)
                      \/ Awaiting(t.parser, t.delivered, left, n, requests)
<1> SUFFICES Goal
  OBVIOUS
<1>1. /\ p.processingMessage /\ m.number = n /\ Numbers(s.delivered) \cup {n} = requests
      /\ p.receivedContentLength < m.request.contentLength
      /\ m.request.contentLength <= p.receivedContentLength + Len(rest)
      /\ p.expecting = "BOUNDARY" => rest[1].unit.kind # "end"
      /\ p.expecting = "SDP" => rest[1].unit.kind = "text"
      /\ NoneHasSdp(s.delivered) =>
           IF SdpOf(m) = Null THEN p.bodies["SDP"] = Null ELSE OwnText(SdpOf(m), n)
  BY DEF Awaiting
<1>2. /\ p.receivedContentLength \in Nat /\ m \in Message(0 .. n) /\ rest \in Seq(Pieces(n))
      /\ s.delivered \in Seq(Message(0 .. n)) /\ Len(rest) \in Nat
      /\ m.request.contentLength \in Nat
  BY <1>1, LoopStateTypes, MessageTypes
<1>3. rest # <<>>
  BY <1>1, <1>2
<1>4. /\ chunk \in Seq(Pieces(n)) /\ Len(chunk) = c /\ c \in 0 .. Len(rest)
      /\ left \in Seq(Pieces(n)) /\ Len(left) = Len(rest) - c
  BY <1>2, PulledElements, PulledCountBounds
<1>5. /\ rest[1].unit.kind = "text" => OwnText(chunk, n)
      /\ rest[1].unit.kind # "end" => Lines(chunk) # {}
      /\ (AnnouncedType(chunk) = "SDP" /\ left # <<>>) => left[1].unit.kind = "text"
      /\ AnnouncedType(chunk) # "BOUNDARY"
  <2>1. AnnouncedType(chunk) # "BOUNDARY"
    <3> HIDE DEF chunk
    <3> QED
      BY <1>4, AnnouncedTypes DEF PartTypes
  <2> QED
    BY <1>2, <1>3, <2>1, PulledOfRest
<1>6. chunk # Null
  BY <1>4, NullIsNoData
<1> HIDE DEF chunk, left, c
<1>7. /\ u \in Message(0 .. n) /\ u.request = m.request /\ u.number = m.number
      /\ t.parser.expecting = IF p.expecting = "BOUNDARY" THEN AnnouncedType(chunk) ELSE "NONE"
      /\ t.parser.bodies["SDP"] =
           IF p.expecting = "SDP" /\ p.bodies["SDP"] = Null THEN chunk ELSE p.bodies["SDP"]
      /\ SdpOf(u) = IF p.expecting = "SDP" /\ SdpOf(m) = Null THEN chunk ELSE SdpOf(m)
      /\ received >= m.request.contentLength =>
           /\ ~ t.parser.processingMessage /\ t.parser.receivedContentLength = 0
           /\ t.delivered = Append(s.delivered, u)
      /\ ~ (received >= m.request.contentLength) =>
           /\ t.parser.processingMessage /\ t.parser.receivedContentLength = received
           /\ t.delivered = s.delivered
  BY <1>1, <1>4, BodyLoaded
<1>8. Survives(p, chunk)
  BY <1>1, <1>5 DEF Survives, Constructs
<1> HIDE DEF t, u, p, m, rest, received
<1>9. NoneHasSdp(s.delivered) =>
        IF SdpOf(u) = Null THEN t.parser.bodies["SDP"] = Null ELSE OwnText(SdpOf(u), n)
  BY <1>1, <1>5, <1>6, <1>7
<1>10. CASE received >= m.request.contentLength
  <2>1. /\ Numbers(t.delivered) = requests /\ FirstIsOwn(t.delivered)
        /\ NoneHasSdp(t.delivered) => NoneHasSdp(s.delivered) /\ SdpOf(u) = Null
    <3>1. /\ Numbers(Append(s.delivered, u)) = Numbers(s.delivered) \cup {u.number}
          /\ NoneHasSdp(Append(s.delivered, u)) => NoneHasSdp(s.delivered) /\ SdpOf(u) = Null
          /\ (/\ FirstIsOwn(s.delivered)
              /\ NoneHasSdp(s.delivered) /\ SdpOf(u) # Null => OwnText(SdpOf(u), u.number))
               => FirstIsOwn(Append(s.delivered, u))
      BY <1>2, <1>7, OneMoreMessage
    <3>2. t.delivered = Append(s.delivered, u) /\ u.number = n
      BY <1>1, <1>7, <1>10
    <3> QED
      BY <1>1, <1>9, <3>1, <3>2
  <2>2. Idle(t.parser, t.delivered, requests)
    BY <1>7, <1>9, <1>10, <2>1 DEF Idle
  <2> QED
    BY <1>8, <2>1, <2>2
<1>11. CASE ~ (received >= m.request.contentLength)
  <2>1. received < m.request.contentLength /\ m.request.contentLength <= received + Len(left)
    BY <1>1, <1>2, <1>4, <1>11 DEF received
  <2>2. left # <<>>
    BY <1>2, <1>4, <2>1 DEF received
  <2>3. Awaiting(t.parser, t.delivered, left, n, requests)
    BY <1>1, <1>5, <1>7, <1>9, <1>11, <2>1, <2>2 DEF Awaiting, u
  <2> QED
    BY <1>7, <1>8, <1>11, <2>3
<1> QED
  BY <1>10, <1>11

-----------------------------------------------------------------------------
(* The read loop *)

LEMMA RoundForm ==
  ASSUME NEW n \in Nat, NEW s \in LoopStates(n), NEW remains,
         LoadMessageData(s, Pulled(s.rest), TextOf(Pulled(s.rest), BufferSize, remains))
           \in LoopStates(n)
  PROVE  LET loaded == LoadMessageData(s, Pulled(s.rest),
                                       TextOf(Pulled(s.rest), BufferSize, remains))
             t == Round(s, remains)
         IN /\ t \in LoopStates(n) /\ t.rest = Left(s.rest) /\ t.parser = loaded.parser
            /\ t.delivered = loaded.delivered /\ t.running = loaded.running
<1> DEFINE loaded == LoadMessageData(s, Pulled(s.rest),
                                     TextOf(Pulled(s.rest), BufferSize, remains))
           t == Round(s, remains)
<1> SUFFICES /\ t \in LoopStates(n) /\ t.rest = Left(s.rest) /\ t.parser = loaded.parser
             /\ t.delivered = loaded.delivered /\ t.running = loaded.running
  OBVIOUS
<1>1. t = [loaded EXCEPT !.rest = Left(s.rest)]
  BY DEF Round, Pulled, Left
<1>2. Left(s.rest) \in Seq(Pieces(n))
  BY LoopStateTypes, PulledElements
<1> HIDE DEF loaded, t
<1>3. loaded \in LoopStates(n)
  BY DEF loaded
<1> QED
  BY <1>1, <1>2, <1>3 DEF LoopStates

\* The loop ends with nothing left, in a set of states that its rounds do not leave.
LEMMA ReadLoopEnds ==
  ASSUME NEW n \in Nat, NEW V, V \subseteq LoopStates(n), NEW first \in LoopStates(n), NEW remains,
         Round(first, remains) \in V, Round(first, remains).rest = Left(first.rest),
         \A s \in V : s.rest # <<>> => /\ Round(s, remains) \in V
                                       /\ Round(s, remains).rest = Left(s.rest)
  PROVE  ReadLoop(first, remains) \in V /\ ReadLoop(first, remains).rest = <<>>
<1> DEFINE last == Len(first.rest)
           F == [x \in V \X (Nat \ {0}) |-> NextRound(x[1], remains)]
           start == Round(first, remains)
           Equation(g) == g = [k \in 0 .. last |->
                                 IF k = 0 THEN Round(first, remains) ELSE NextRound(g[k - 1], remains)]
           after == CHOOSE g : Equation(g)
<1>1. last \in Nat /\ first.rest \in Seq(Pieces(n)) /\ start \in V
  BY LoopStateTypes
<1>2. \A s \in V : NextRound(s, remains) \in V
  BY DEF NextRound
<1>3. F \in [V \X (Nat \ {0}) -> V]
  BY <1>2
<1>4. PICK g \in [0 .. last -> V] : Computes(g, start, F, last)
  <2> HIDE DEF F, last, start
  <2> QED
    BY <1>1, <1>3, RecursionExists
<1>5. g[0] = start /\ \A k \in 1 .. last : g[k] = F[<<g[k - 1], k>>]
  BY <1>4 DEF Computes
<1>6. ASSUME NEW k \in 0 .. last
      PROVE  g[k] = IF k = 0 THEN Round(first, remains) ELSE NextRound(g[k - 1], remains)
  <2>1. CASE k = 0
    BY <1>5, <2>1
  <2>2. CASE k # 0
    <3>1. k \in 1 .. last /\ k - 1 \in 0 .. last /\ k \in Nat \ {0}
      BY <1>1, <2>2
    <3>2. g[k - 1] \in V
      BY <1>4, <3>1
    <3>3. F[<<g[k - 1], k>>] = NextRound(g[k - 1], remains)
      BY <3>1, <3>2
    <3> QED
      BY <1>5, <2>2, <3>1, <3>3
  <2> QED
    BY <2>1, <2>2
<1> HIDE DEF F, last, start
<1>7. Equation(g)
  BY <1>4, <1>6
<1>8. Equation(after)
  <2> HIDE DEF Equation
  <2> QED
    BY <1>7
<1>9. ReadLoop(first, remains) = after[last]
  BY DEF ReadLoop, last
<1> HIDE DEF after
<1>10. \A k \in 0 .. last :
         after[k] = IF k = 0 THEN Round(first, remains) ELSE NextRound(after[k - 1], remains)
  BY <1>8
<1> HIDE DEF Equation
<1> DEFINE Far(k) == /\ after[k] \in V
                     /\ after[k].rest = <<>> \/ Len(after[k].rest) + k + 1 <= last
           T == {k \in Nat : k <= last => Far(k)}
<1>11. Far(0)
  <2>1. /\ after[0] = Round(first, remains) /\ after[0].rest = Left(first.rest)
    BY <1>1, <1>10
  <2>2. /\ PulledCount(first.rest) \in 0 .. last
        /\ first.rest # <<>> => PulledCount(first.rest) >= 1
        /\ Left(first.rest) \in Seq(Pieces(n))
        /\ Len(Left(first.rest)) = last - PulledCount(first.rest)
    BY <1>1, PulledCountBounds, PulledElements DEF last
  <2>3. CASE first.rest = <<>>
    <3>1. Len(Left(first.rest)) = 0
      BY <2>2, <2>3 DEF last
    <3>2. Left(first.rest) = <<>>
      BY <2>2, <3>1
    <3> QED
      BY <1>1, <2>1, <3>2 DEF start
  <2>4. CASE first.rest # <<>>
    BY <1>1, <2>1, <2>2, <2>4 DEF start
  <2> QED
    BY <2>3, <2>4
<1>12. ASSUME NEW k \in Nat, k + 1 <= last, Far(k) PROVE Far(k + 1)
  <2>1. after[k + 1] = NextRound(after[k], remains)
    <3>1. k + 1 \in 0 .. last /\ k + 1 # 0 /\ (k + 1) - 1 = k
      BY <1>1, <1>12
    <3> QED
      BY <1>10, <3>1
  <2> DEFINE now == after[k]
  <2>2. now \in V /\ now \in LoopStates(n) /\ (now.rest = <<>> \/ Len(now.rest) + k + 1 <= last)
    BY <1>12
  <2> HIDE DEF now
  <2>3. CASE now.rest = <<>>
    BY <2>1, <2>2, <2>3 DEF NextRound, now
  <2>4. CASE now.rest # <<>>
    <3>1. after[k + 1] = Round(now, remains)
      BY <2>1, <2>4 DEF NextRound, now
    <3>2. after[k + 1] \in V /\ after[k + 1].rest = Left(now.rest)
      BY <2>2, <2>4, <3>1
    <3>3. now.rest \in Seq(Pieces(n)) /\ Len(now.rest) \in Nat
      BY <2>2, LoopStateTypes
    <3>4. /\ PulledCount(now.rest) \in 1 .. Len(now.rest)
          /\ Len(Left(now.rest)) = Len(now.rest) - PulledCount(now.rest)
      <4>1. PulledCount(now.rest) \in 0 .. Len(now.rest) /\ PulledCount(now.rest) >= 1
        BY <2>4, <3>3, PulledCountBounds
      <4>2. Len(Left(now.rest)) = Len(now.rest) - PulledCount(now.rest)
        BY <3>3, PulledElements
      <4> QED
        BY <3>3, <4>1, <4>2
    <3>5. Len(after[k + 1].rest) + (k + 1) + 1 <= last
      BY <1>1, <2>2, <2>4, <3>2, <3>3, <3>4
    <3> QED
      BY <3>2, <3>5
  <2> QED
    BY <2>3, <2>4
<1>13. \A k \in Nat : k \in T
  <2>1. 0 \in T
    BY <1>11
  <2>2. ASSUME NEW k \in T PROVE k + 1 \in T
    <3>1. k \in Nat /\ (k + 1 <= last => k <= last)
      BY <1>1
    <3>2. k <= last => Far(k)
      OBVIOUS
    <3>3. k + 1 <= last => Far(k + 1)
      BY <1>12, <3>1, <3>2
    <3> HIDE DEF Far
    <3> QED
      BY <3>1, <3>3
  <2>3. T \subseteq Nat
    OBVIOUS
  <2> HIDE DEF T
  <2> QED
    BY <2>1, <2>2, <2>3, SetInduction
<1>14. Far(last)
  <2>1. last \in T
    BY <1>1, <1>13
  <2> HIDE DEF Far
  <2> QED
    BY <1>1, <2>1
<1>15. after[last].rest = <<>>
  <2>1. after[last] \in LoopStates(n)
    BY <1>14
  <2>2. Len(after[last].rest) \in Nat
    BY <2>1, LoopStateTypes
  <2> QED
    BY <1>1, <1>14, <2>2
<1> QED
  BY <1>9, <1>14, <1>15

-----------------------------------------------------------------------------
(* A round keeps what the states between rounds have in common *)

LEMMA LoadKeepsOrder ==
  ASSUME NEW n \in Nat, NEW s \in LoopStates(n), NEW chunk \in Seq(Pieces(n)),
         NEW text \in Seq(Pieces(n)), Ordered(s.parser, s.delivered),
         StartsWith(chunk, "header")
           => \A i \in DOMAIN s.delivered : s.delivered[i].number < chunk[1].number
  PROVE  LET t == LoadMessageData(s, chunk, text)
         IN t \in LoopStates(n) /\ Ordered(t.parser, t.delivered)
<1> DEFINE t == LoadMessageData(s, chunk, text)
<1> SUFFICES t \in LoopStates(n) /\ Ordered(t.parser, t.delivered)
  OBVIOUS
<1>1. CASE ~ s.running
  BY <1>1 DEF LoadMessageData
<1>2. CASE s.running /\ ~ s.parser.processingMessage /\ Survives(s.parser, chunk)
  <2> DEFINE u == LoadHeader(s, chunk)
  <2>1. t = u
    BY <1>2 DEF LoadMessageData
  <2>2. u \in LoopStates(n)
    BY <1>2, HeaderLoaded
  <2>3. Ordered(u.parser, u.delivered)
    BY <1>2, HeaderKeepsOrder
  <2> HIDE DEF t, u
  <2> QED
    BY <2>1, <2>2, <2>3
<1>3. CASE s.running /\ s.parser.processingMessage /\ Survives(s.parser, chunk)
  <2> DEFINE u == LoadBody(s, chunk, text)
  <2>1. t = u
    BY <1>3 DEF LoadMessageData
  <2>2. u \in LoopStates(n)
    BY <1>3, BodyLoaded
  <2>3. Ordered(u.parser, u.delivered)
    BY <1>3, BodyKeepsOrder
  <2> HIDE DEF t, u
  <2> QED
    BY <2>1, <2>2, <2>3
<1>4. CASE s.running /\ ~ Survives(s.parser, chunk)
  <2>1. t = [s EXCEPT !.running = FALSE]
    BY <1>4 DEF LoadMessageData
  <2>2. t \in LoopStates(n) /\ t.parser = s.parser /\ t.delivered = s.delivered
    BY <2>1 DEF LoopStates
  <2> QED
    BY <2>2
<1> QED
  BY <1>1, <1>2, <1>3, <1>4

\* The states behind the first round of the n-th datagram, and those of them where it
\* and all before it are whole.
SteadyStates(n) == {s \in LoopStates(n) : Behind(s.rest, n) /\ Ordered(s.parser, s.delivered)}
WholeStates(n, requests) == {s \in SteadyStates(n) : WholeState(s, n, requests)}

\* Where the buffer is not filled a message is given the chunk.
LEMMA TextIsChunk ==
  ASSUME NEW n \in Nat, NEW rest \in Seq(Pieces(n)), rest # <<>>, Len(rest) < BufferSize,
         NEW remains
  PROVE  TextOf(Pulled(rest), BufferSize, remains) = Pulled(rest)
<1>1. PulledCount(rest) \in 1 .. Len(rest) /\ Len(rest) \in Nat
  BY PulledCountBounds
<1>2. Len(Pulled(rest)) = PulledCount(rest)
  BY PulledElements
<1>3. Len(Pulled(rest)) \notin {0, BufferSize}
  BY <1>1, <1>2
<1> QED
  BY <1>3 DEF TextOf

\* A pull takes no header behind the datagram's first.
LEMMA LaterChunk ==
  ASSUME NEW n \in Nat, NEW rest \in Seq(Pieces(n)), rest # <<>>, Behind(rest, n)
  PROVE  Pulled(rest) \in Seq(Pieces(n)) /\ ~ StartsWith(Pulled(rest), "header")
<1> DEFINE chunk == Pulled(rest)
<1>1. chunk \in Seq(Pieces(n)) /\ Len(chunk) = PulledCount(rest)
      /\ \A i \in 1 .. PulledCount(rest) : chunk[i] = rest[i]
  BY PulledElements
<1>2. PulledCount(rest) \in 0 .. Len(rest) /\ PulledCount(rest) >= 1
  BY PulledCountBounds
<1> HIDE DEF chunk
<1>3. 1 \in DOMAIN rest /\ Head(chunk) = rest[1]
  BY <1>1, <1>2
<1>4. chunk \in Seq(Pieces(n)) /\ ~ StartsWith(chunk, "header")
  BY <1>1, <1>3 DEF Behind, StartsWith
<1> QED
  BY <1>4 DEF chunk

LEMMA LaterRounds ==
  ASSUME NEW n \in Nat, NEW remains \in Leftovers, NEW s \in SteadyStates(n), s.rest # <<>>
  PROVE  Round(s, remains) \in SteadyStates(n) /\ Round(s, remains).rest = Left(s.rest)
<1> DEFINE chunk == Pulled(s.rest)
           text == TextOf(chunk, BufferSize, remains)
           loaded == LoadMessageData(s, chunk, text)
           t == Round(s, remains)
<1>1. /\ s \in LoopStates(n) /\ s.rest \in Seq(Pieces(n)) /\ Behind(s.rest, n)
      /\ Ordered(s.parser, s.delivered)
  BY LoopStateTypes DEF SteadyStates
<1>2. chunk \in Seq(Pieces(n)) /\ ~ StartsWith(chunk, "header")
  BY <1>1, LaterChunk
<1>3. text \in Seq(Pieces(n)) /\ IsPrefix(chunk, text)
  <2> HIDE DEF chunk
  <2> QED
    BY <1>2, TextBegins
<1>4. loaded \in LoopStates(n) /\ Ordered(loaded.parser, loaded.delivered)
  <2> HIDE DEF chunk, text
  <2> QED
    BY <1>1, <1>2, <1>3, LoadKeepsOrder
<1>5. /\ t \in LoopStates(n) /\ t.rest = Left(s.rest) /\ t.parser = loaded.parser
      /\ t.delivered = loaded.delivered /\ t.running = loaded.running
  BY <1>1, <1>4, RoundForm
<1>6. Behind(Left(s.rest), n)
  BY <1>1, LeftKeeps
<1> HIDE DEF t, loaded
<1>7. t \in SteadyStates(n) /\ t.rest = Left(s.rest)
  BY <1>4, <1>5, <1>6 DEF SteadyStates
<1> QED
  BY <1>7 DEF t

LEMMA LaterWholeRounds ==
  ASSUME NEW n \in Nat, NEW remains \in Leftovers, NEW requests,
         NEW s \in WholeStates(n, requests), s.rest # <<>>
  PROVE  Round(s, remains) \in WholeStates(n, requests)
<1> DEFINE chunk == Pulled(s.rest)
           text == TextOf(chunk, BufferSize, remains)
           loaded == LoadMessageData(s, chunk, text)
           t == Round(s, remains)
<1>1. /\ s \in SteadyStates(n) /\ s \in LoopStates(n) /\ s.rest \in Seq(Pieces(n))
      /\ Behind(s.rest, n) /\ WholeState(s, n, requests)
  BY LoopStateTypes DEF WholeStates, SteadyStates
<1>2. chunk \in Seq(Pieces(n)) /\ ~ StartsWith(chunk, "header")
  BY <1>1, LaterChunk
<1>3. t \in SteadyStates(n)
  BY <1>1, LaterRounds
<1>4. text \in Seq(Pieces(n)) /\ IsPrefix(chunk, text)
  <2> HIDE DEF chunk
  <2> QED
    BY <1>2, TextBegins
<1>5. loaded \in LoopStates(n) /\ Ordered(loaded.parser, loaded.delivered)
  <2> HIDE DEF chunk, text
  <2> QED
    BY <1>1, <1>2, <1>4, LoadKeepsOrder DEF SteadyStates
<1>6. /\ t \in LoopStates(n) /\ t.rest = Left(s.rest) /\ t.parser = loaded.parser
      /\ t.delivered = loaded.delivered /\ t.running = loaded.running
  BY <1>1, <1>5, RoundForm
<1>7. WholeState(t, n, requests)
  <2>1. /\ Ended(s.running, requests) /\ FirstIsOwn(s.delivered) /\ Len(s.rest) < BufferSize
        /\ PartsHaveText(s.rest)
        /\ s.running => \/ Idle(s.parser, s.delivered, requests)
                        \/ Awaiting(s.parser, s.delivered, s.rest, n, requests)
    BY <1>1 DEF WholeState
  <2>2. Len(Left(s.rest)) < BufferSize /\ PartsHaveText(Left(s.rest))
    <3>1. PartsHaveText(Left(s.rest))
      BY <1>1, <2>1, LeftKeeps
    <3>2. PulledCount(s.rest) \in 0 .. Len(s.rest) /\ Len(s.rest) \in Nat
      BY <1>1, PulledCountBounds
    <3>3. Len(Left(s.rest)) = Len(s.rest) - PulledCount(s.rest)
      BY <1>1, PulledElements
    <3>4. Len(Left(s.rest)) < BufferSize
      BY <2>1, <3>2, <3>3, BufferSizeAssumption
    <3> QED
      BY <3>1, <3>4
  <2>3. CASE s.running /\ Idle(s.parser, s.delivered, requests)
    <3> DEFINE u == LoadHeader(s, chunk)
    <3>1. ~ s.parser.processingMessage
      BY <2>3 DEF Idle
    <3>2. /\ Idle(u.parser, u.delivered, requests) /\ u.delivered = s.delivered
          /\ Survives(s.parser, chunk)
      BY <1>1, <1>2, <2>3, IdleRound
    <3>3. loaded = u
      BY <2>3, <3>1, <3>2 DEF LoadMessageData
    <3>4. u.running = s.running
      BY <1>1, <1>2, <3>1, HeaderLoaded
    <3> HIDE DEF u, loaded, t
    <3> QED
      BY <1>6, <2>1, <2>2, <3>2, <3>3, <3>4 DEF WholeState
  <2>4. CASE s.running /\ Awaiting(s.parser, s.delivered, s.rest, n, requests)
    <3> DEFINE u == LoadBody(s, chunk, chunk)
    <3>1. s.parser.processingMessage
      BY <2>4 DEF Awaiting
    <3>2. text = chunk
      BY <1>1, <2>1, TextIsChunk
    <3>3. /\ FirstIsOwn(u.delivered) /\ Survives(s.parser, chunk)
          /\ \/ Idle(u.parser, u.delivered, requests)
             \/ Awaiting(u.parser, u.delivered, Left(s.rest), n, requests)
      BY <1>1, <2>1, <2>4, AwaitingRound
    <3>4. loaded = u
      <4> HIDE DEF text, chunk
      <4> QED
        BY <2>4, <3>1, <3>2, <3>3 DEF LoadMessageData
    <3>5. u.running = s.running
      BY <1>1, <1>2, <3>1, BodyLoaded
    <3> HIDE DEF u, loaded, t
    <3> QED
      BY <1>6, <2>1, <2>2, <3>3, <3>4, <3>5 DEF WholeState
  <2>5. CASE ~ s.running
    <3>1. loaded = s
      BY <2>5 DEF LoadMessageData
    <3> HIDE DEF loaded, t
    <3> QED
      BY <1>6, <2>1, <2>2, <2>5, <3>1 DEF WholeState
  <2> QED
    BY <2>1, <2>3, <2>4, <2>5
<1> HIDE DEF t
<1>8. t \in WholeStates(n, requests)
  BY <1>3, <1>7 DEF WholeStates
<1> QED
  BY <1>8 DEF t

-----------------------------------------------------------------------------
(* The first round of a datagram *)

LEMMA StampedUnits ==
  ASSUME NEW d \in Datagrams, NEW n \in Nat
  PROVE  /\ Stamped(d, n) \in Seq(Pieces(n)) /\ Len(Stamped(d, n)) = Len(d)
         /\ DOMAIN Stamped(d, n) = 1 .. Len(d)
         /\ Len(d) \in Nat \ {0} /\ DOMAIN d = 1 .. Len(d)
         /\ \A i \in 1 .. Len(d) : /\ Stamped(d, n)[i].unit = d[i] /\ Stamped(d, n)[i].number = n
                                   /\ d[i].kind = "header" => i = 1
<1>1. d \in Seq(Unit) /\ d # <<>> /\ \A i \in DOMAIN d : d[i].kind = "header" => i = 1
  BY DatagramsAssumption
<1>2. DOMAIN d = 1 .. Len(d) /\ Len(d) \in Nat \ {0} /\ \A i \in 1 .. Len(d) : d[i] \in Unit
  BY <1>1
<1>3. Stamped(d, n) \in [1 .. Len(d) -> Pieces(n)]
  BY <1>2 DEF Stamped, Pieces
<1>4. Stamped(d, n) \in Seq(Pieces(n)) /\ Len(Stamped(d, n)) = Len(d)
  BY <1>2, <1>3, FunctionIsSeq
<1>5. \A i \in 1 .. Len(d) : Stamped(d, n)[i].unit = d[i] /\ Stamped(d, n)[i].number = n
  BY <1>2 DEF Stamped
<1> QED
  BY <1>1, <1>2, <1>3, <1>4, <1>5

\* A header is at the front of a datagram, so there is none behind its first pull.
LEMMA BehindFirst ==
  ASSUME NEW d \in Datagrams, NEW n \in Nat
  PROVE  Behind(Left(Stored(Stamped(d, n))), n)
<1> DEFINE rest == Stored(Stamped(d, n))
           c == PulledCount(rest)
           left == Left(rest)
<1>1. /\ rest \in Seq(Pieces(n))
      /\ \A i \in 1 .. Len(rest) : rest[i].number = n /\ (rest[i].unit.kind = "header" => i = 1)
  <2> DEFINE stamped == Stamped(d, n)
  <2>1. /\ Stamped(d, n) \in Seq(Pieces(n)) /\ Len(Stamped(d, n)) = Len(d)
        /\ DOMAIN Stamped(d, n) = 1 .. Len(d)
        /\ Len(d) \in Nat \ {0} /\ DOMAIN d = 1 .. Len(d)
        /\ \A i \in 1 .. Len(d) : /\ Stamped(d, n)[i].unit = d[i] /\ Stamped(d, n)[i].number = n
                                  /\ d[i].kind = "header" => i = 1
    BY StampedUnits
  <2> HIDE DEF stamped
  <2>2. rest = stamped \/ rest = <<>>
    BY DEF Stored, stamped
  <2> HIDE DEF rest
  <2>3. CASE rest = stamped
    BY <2>1, <2>3 DEF stamped
  <2>4. CASE rest = <<>>
    BY <2>4
  <2> QED
    BY <2>2, <2>3, <2>4
<1> HIDE DEF rest
<1>2. /\ c \in 0 .. Len(rest) /\ (rest # <<>> => c >= 1)
  BY <1>1, PulledCountBounds
<1>3. /\ left \in Seq(Pieces(n)) /\ Len(left) = Len(rest) - c
      /\ \A i \in 1 .. Len(rest) - c : left[i] = rest[c + i]
  BY <1>1, PulledElements
<1>4. Len(rest) \in Nat /\ (rest = <<>> => Len(rest) = 0)
  BY <1>1
<1> HIDE DEF c, left
<1>5. ASSUME NEW i \in DOMAIN left PROVE left[i].unit.kind # "header" /\ left[i].number = n
  <2>1. i \in 1 .. Len(rest) - c
    BY <1>2, <1>3, <1>4
  <2>2. c + i \in 1 .. Len(rest) /\ c + i # 1
    BY <1>2, <1>4, <2>1
  <2> QED
    BY <1>1, <1>3, <2>1, <2>2
<1> QED
  BY <1>5 DEF Behind, left, rest

\* The header of a message is what is pulled first, and its body is left.
LEMMA BodyIsLeft ==
  ASSUME NEW d \in Datagrams, NEW n \in Nat
  PROVE  LET left == Left(Stamped(d, n))
         IN /\ Len(Body(d)) = Len(left) /\ (Body(d) # <<>> <=> left # <<>>)
            /\ left # <<>> => Head(Body(d)) = left[1].unit
<1> DEFINE rest == Stamped(d, n)
           c == PulledCount(rest)
           left == Left(rest)
<1>1. /\ rest \in Seq(Pieces(n)) /\ Len(rest) = Len(d) /\ Len(d) \in Nat \ {0}
      /\ DOMAIN rest = 1 .. Len(d) /\ DOMAIN d = 1 .. Len(d)
      /\ \A i \in 1 .. Len(d) : rest[i].unit = d[i]
  <2>1. /\ Stamped(d, n) \in Seq(Pieces(n)) /\ Len(Stamped(d, n)) = Len(d)
        /\ DOMAIN Stamped(d, n) = 1 .. Len(d)
        /\ Len(d) \in Nat \ {0} /\ DOMAIN d = 1 .. Len(d)
        /\ \A i \in 1 .. Len(d) : /\ Stamped(d, n)[i].unit = d[i] /\ Stamped(d, n)[i].number = n
                                  /\ d[i].kind = "header" => i = 1
    BY StampedUnits
  <2>2. rest \in Seq(Pieces(n))
    BY <2>1
  <2>3. Len(rest) = Len(d)
    BY <2>1
  <2>4. Len(d) \in Nat \ {0}
    BY <2>1
  <2>5. DOMAIN rest = 1 .. Len(d) /\ DOMAIN d = 1 .. Len(d)
    BY <2>1
  <2>6. \A i \in 1 .. Len(d) : rest[i].unit = d[i]
    BY <2>1
  <2> HIDE DEF rest
  <2> QED
    BY <2>2, <2>3, <2>4, <2>5, <2>6
<1>2. d \in Seq(Unit)
  BY DatagramsAssumption
<1> HIDE DEF rest
<1>3. HeaderLength(d) = c
  <2>1. {i \in DOMAIN d : d[i].kind = "end"} = {i \in DOMAIN rest : rest[i].unit.kind = "end"}
    BY <1>1
  <2> QED
    BY <1>1, <2>1 DEF HeaderLength, PulledCount
<1>4. c \in 0 .. Len(d)
  BY <1>1, PulledCountBounds
<1>5. /\ left \in Seq(Pieces(n)) /\ Len(left) = Len(d) - c
      /\ \A i \in 1 .. Len(d) - c : left[i] = rest[c + i]
  BY <1>1, PulledElements
<1> HIDE DEF c, left
<1>6. /\ Body(d) \in Seq(Unit) /\ Len(Body(d)) = Len(d) - c
      /\ \A i \in 1 .. Len(d) - c : Body(d)[i] = d[c + i]
  BY <1>2, <1>3, <1>4, TailElements DEF Body
<1> DEFINE body == Body(d)
<1> HIDE DEF body
<1>7. (body # <<>> <=> Len(d) - c # 0) /\ (left # <<>> <=> Len(d) - c # 0)
  BY <1>1, <1>4, <1>5, <1>6 DEF body
<1>8. ASSUME left # <<>> PROVE Head(body) = left[1].unit
  <2>1. 1 \in 1 .. Len(d) - c /\ c + 1 \in 1 .. Len(d)
    <3>1. Len(d) - c # 0
      BY <1>7, <1>8
    <3>2. Len(d) \in Nat
      BY <1>1
    <3> HIDE DEF body
    <3> QED
      BY <1>4, <3>1, <3>2
  <2>2. body[1] = d[c + 1] /\ left[1] = rest[c + 1] /\ rest[c + 1].unit = d[c + 1]
    BY <1>1, <1>5, <1>6, <2>1 DEF body
  <2>3. Head(body) = body[1]
    BY <1>6, <1>7, <1>8 DEF body
  <2> QED
    BY <2>2, <2>3
<1> QED
  BY <1>5, <1>6, <1>7, <1>8 DEF body, left, rest

\* The first round of a whole datagram: a message that is built of it is handed on or
\* awaits its own body.
LEMMA FirstWholeRound ==
  ASSUME NEW n \in Nat, NEW s \in LoopStates(n), NEW d \in Datagrams, Whole(d),
         s.rest = Stamped(d, n), NEW before, NEW requests,
         Idle(s.parser, s.delivered, before), FirstIsOwn(s.delivered),
         requests = before \cup (IF Headed(d) /\ d[1].request.method \in BuiltMethods
                                THEN {n} ELSE {})
  PROVE  LET t == LoadHeader(s, Pulled(s.rest))
         IN /\ BuildMessage(s.parser, Pulled(s.rest)) # Null
                 <=> Headed(d) /\ d[1].request.method \in BuiltMethods
            /\ FirstIsOwn(t.delivered)
            /\ \/ Idle(t.parser, t.delivered, requests)
               \/ Awaiting(t.parser, t.delivered, Left(s.rest), n, requests)
<1> DEFINE chunk == Pulled(s.rest)
           left == Left(s.rest)
           t == LoadHeader(s, chunk)
           m == BuildMessage(s.parser, chunk)
           Goal == /\ m # Null <=> Headed(d) /\ d[1].request.method \in BuiltMethods
                   /\ FirstIsOwn(t.delivered)
                   /\ \/ Idle(t.parser, t.delivered, requests)
                      \/ Awaiting(t.parser, t.delivered, left, n, requests)
<1> SUFFICES Goal
  OBVIOUS
<1>1. /\ ~ s.parser.processingMessage /\ s.parser.receivedContentLength = 0
      /\ Numbers(s.delivered) = before
      /\ s.parser.bodies["SDP"] # Null => ~ NoneHasSdp(s.delivered)
  BY DEF Idle
<1>2. /\ s.rest \in Seq(Pieces(n)) /\ Len(s.rest) = Len(d) /\ Len(d) \in Nat \ {0}
      /\ s.rest[1].unit = d[1] /\ s.rest[1].number = n
  <2>1. /\ Stamped(d, n) \in Seq(Pieces(n)) /\ Len(Stamped(d, n)) = Len(d)
        /\ DOMAIN Stamped(d, n) = 1 .. Len(d)
        /\ Len(d) \in Nat \ {0} /\ DOMAIN d = 1 .. Len(d)
        /\ \A i \in 1 .. Len(d) : /\ Stamped(d, n)[i].unit = d[i] /\ Stamped(d, n)[i].number = n
                                  /\ d[i].kind = "header" => i = 1
    BY StampedUnits
  <2> QED
    BY <2>1
<1>3. chunk \in Seq(Pieces(n)) /\ chunk # <<>> /\ chunk[1] = s.rest[1] /\ Head(chunk) = s.rest[1]
  <2>1. PulledCount(s.rest) \in 0 .. Len(s.rest) /\ PulledCount(s.rest) >= 1
    BY <1>2, PulledCountBounds
  <2>2. /\ chunk \in Seq(Pieces(n)) /\ Len(chunk) = PulledCount(s.rest)
        /\ \A i \in 1 .. PulledCount(s.rest) : chunk[i] = s.rest[i]
    BY <1>2, PulledElements
  <2> HIDE DEF chunk
  <2> QED
    BY <1>2, <2>1, <2>2
<1>4. Headed(d) <=> StartsWith(chunk, "header")
  <2>1. d # <<>>
    BY DatagramsAssumption
  <2> QED
    BY <1>2, <1>3, <2>1 DEF Headed, StartsWith
<1>5. /\ s.parser \in Parsers(n) /\ s.delivered \in Seq(Message(0 .. n))
  BY LoopStateTypes
<1> HIDE DEF chunk
<1>6. /\ m # Null <=> Headed(d) /\ d[1].request.method \in BuiltMethods
      /\ m # Null => /\ m \in Message(0 .. n) /\ m.number = n /\ m.request = d[1].request
                     /\ m.bodies = IF m.request.method = "INVITE" THEN s.parser.bodies
                                   ELSE NoBodies
  BY <1>2, <1>3, <1>4, <1>5, BuiltMessages
<1>7. /\ t.parser.bodies = s.parser.bodies
      /\ m = Null => /\ ~ t.parser.processingMessage /\ t.delivered = s.delivered
                     /\ t.parser.receivedContentLength = s.parser.receivedContentLength
      /\ (m # Null /\ m.request.contentLength = 0) =>
           /\ ~ t.parser.processingMessage /\ t.parser.receivedContentLength = 0
           /\ t.delivered = Append(s.delivered, m)
      /\ (m # Null /\ m.request.contentLength # 0) =>
           /\ t.parser.processingMessage
           /\ t.parser.receivedContentLength = s.parser.receivedContentLength
           /\ t.parser.sipMessage = m /\ t.parser.expecting = m.request.contentType
           /\ t.delivered = s.delivered
  BY <1>1, <1>3, HeaderLoaded
<1> HIDE DEF t, m, left
<1>8. m # Null => (NoneHasSdp(s.delivered) => SdpOf(m) = Null)
  BY <1>1, <1>6 DEF SdpOf, NoBodies, PartTypes
<1>9. CASE m = Null
  BY <1>1, <1>6, <1>7, <1>9 DEF Idle
<1>10. CASE m # Null /\ m.request.contentLength = 0
  <2>1. /\ Numbers(t.delivered) = before \cup {n} /\ FirstIsOwn(t.delivered)
        /\ NoneHasSdp(t.delivered) => NoneHasSdp(s.delivered)
    <3>1. /\ Numbers(Append(s.delivered, m)) = Numbers(s.delivered) \cup {m.number}
          /\ NoneHasSdp(Append(s.delivered, m)) => NoneHasSdp(s.delivered) /\ SdpOf(m) = Null
          /\ (/\ FirstIsOwn(s.delivered)
              /\ NoneHasSdp(s.delivered) /\ SdpOf(m) # Null => OwnText(SdpOf(m), m.number))
               => FirstIsOwn(Append(s.delivered, m))
      BY <1>5, <1>6, <1>10, OneMoreMessage
    <3> QED
      BY <1>1, <1>6, <1>7, <1>8, <1>10, <3>1
  <2> QED
    BY <1>1, <1>6, <1>7, <1>10, <2>1 DEF Idle
<1>11. CASE m # Null /\ m.request.contentLength # 0
  <2>1. /\ Len(Body(d)) = Len(left) /\ (Body(d) # <<>> <=> left # <<>>)
        /\ left # <<>> => Head(Body(d)) = left[1].unit
    BY BodyIsLeft DEF left
  <2>2. /\ m.request.contentLength <= Len(Body(d))
        /\ Body(d) # <<>> =>
             /\ m.request.contentType = "BOUNDARY" => Head(Body(d)).kind # "end"
             /\ m.request.contentType = "SDP" => Head(Body(d)).kind = "text"
    BY <1>6, <1>11 DEF Whole
  <2>3. m.request.contentLength \in Nat /\ 0 < m.request.contentLength
    BY <1>6, <1>11, MessageTypes
  <2>4. left # <<>>
    BY <2>1, <2>2, <2>3
  <2>5. Len(left) \in Nat
    BY <1>2, PulledElements DEF left
  <2> QED
    BY <1>1, <1>6, <1>7, <1>8, <1>11, <2>1, <2>2, <2>3, <2>4, <2>5 DEF Awaiting
<1> QED
  BY <1>9, <1>10, <1>11

LEMMA FirstRound ==
  ASSUME NEW n \in Nat, NEW d \in Datagrams, NEW s \in LoopStates(n), NEW remains \in Leftovers,
         s.rest = Stored(Stamped(d, n)), Ordered(s.parser, s.delivered),
         \A i \in DOMAIN s.delivered : s.delivered[i].number < n
  PROVE  Round(s, remains) \in SteadyStates(n) /\ Round(s, remains).rest = Left(s.rest)
<1> DEFINE chunk == Pulled(s.rest)
           text == TextOf(chunk, BufferSize, remains)
           loaded == LoadMessageData(s, chunk, text)
           t == Round(s, remains)
<1>1. s.rest \in Seq(Pieces(n)) /\ \A i \in DOMAIN s.rest : s.rest[i].number = n
  <2>1. s.rest \in Seq(Pieces(n))
    BY LoopStateTypes
  <2>2. CASE s.rest = Stamped(d, n)
    BY <2>2, StampedUnits
  <2>3. CASE s.rest = <<>>
    BY <2>3
  <2> QED
    BY <2>1, <2>2, <2>3 DEF Stored
<1>2. chunk \in Seq(Pieces(n)) /\ (chunk # <<>> => chunk[1].number = n)
  <2>1. chunk \in Seq(Pieces(n)) /\ Len(chunk) = PulledCount(s.rest)
        /\ \A i \in 1 .. PulledCount(s.rest) : chunk[i] = s.rest[i]
    BY <1>1, PulledElements
  <2>2. PulledCount(s.rest) \in 0 .. Len(s.rest)
    BY <1>1, PulledCountBounds
  <2> HIDE DEF chunk
  <2> QED
    BY <1>1, <2>1, <2>2
<1>3. text \in Seq(Pieces(n)) /\ IsPrefix(chunk, text)
  <2> HIDE DEF chunk
  <2> QED
    BY <1>2, TextBegins
<1>4. loaded \in LoopStates(n) /\ Ordered(loaded.parser, loaded.delivered)
  <2>1. StartsWith(chunk, "header")
          => \A i \in DOMAIN s.delivered : s.delivered[i].number < chunk[1].number
    BY <1>2 DEF StartsWith
  <2> HIDE DEF chunk, text
  <2> QED
    BY <1>2, <1>3, <2>1, LoadKeepsOrder
<1>5. /\ t \in LoopStates(n) /\ t.rest = Left(s.rest) /\ t.parser = loaded.parser
      /\ t.delivered = loaded.delivered /\ t.running = loaded.running
  BY <1>1, <1>4, RoundForm
<1>6. Behind(Left(s.rest), n)
  BY BehindFirst
<1> HIDE DEF t, loaded
<1>7. t \in SteadyStates(n) /\ t.rest = Left(s.rest)
  BY <1>4, <1>5, <1>6 DEF SteadyStates
<1> QED
  BY <1>7 DEF t

\* A whole datagram is stored, and less than the buffer's size is left of it.
LEMMA WholeIsStored ==
  ASSUME NEW n \in Nat, NEW d \in Datagrams, Whole(d)
  PROVE  /\ Stored(Stamped(d, n)) = Stamped(d, n)
         /\ Len(Left(Stamped(d, n))) < BufferSize
         /\ PartsHaveText(Left(Stamped(d, n)))
<1> DEFINE rest == Stamped(d, n)
<1>1. /\ Stamped(d, n) \in Seq(Pieces(n)) /\ Len(Stamped(d, n)) = Len(d)
      /\ DOMAIN Stamped(d, n) = 1 .. Len(d)
      /\ Len(d) \in Nat \ {0} /\ DOMAIN d = 1 .. Len(d)
      /\ \A i \in 1 .. Len(d) : /\ Stamped(d, n)[i].unit = d[i] /\ Stamped(d, n)[i].number = n
                                /\ d[i].kind = "header" => i = 1
  BY StampedUnits
<1>2. Len(d) <= BufferSize /\ TextBehindParts(d)
  BY DEF Whole
<1>3. Stored(rest) = rest
  BY <1>1, <1>2 DEF Stored
<1>4. Len(Left(rest)) < BufferSize
  <2>1. PulledCount(rest) \in 0 .. Len(rest) /\ (rest # <<>> => PulledCount(rest) >= 1)
    BY <1>1, PulledCountBounds
  <2>2. Len(Left(rest)) = Len(rest) - PulledCount(rest)
    BY <1>1, PulledElements
  <2> HIDE DEF rest
  <2>3. rest # <<>> /\ Len(rest) = Len(d)
    BY <1>1 DEF rest
  <2> QED
    BY <1>1, <1>2, <2>1, <2>2, <2>3, BufferSizeAssumption
<1>5. PartsHaveText(rest)
  <2> SUFFICES ASSUME NEW i \in DOMAIN rest, NEW j \in DOMAIN rest, i < j, j < Len(rest),
                      rest[i].unit.kind = "part", rest[j].unit.kind = "end",
                      \A k \in i .. j - 1 : rest[k].unit.kind # "end"
               PROVE  rest[j + 1].unit.kind = "text"
    BY DEF PartsHaveText
  <2>1. i \in 1 .. Len(d) /\ j \in 1 .. Len(d) /\ j < Len(d) /\ j + 1 \in 1 .. Len(d)
    BY <1>1
  <2>2. \A k \in 1 .. Len(d) : rest[k].unit = d[k]
    BY <1>1
  <2>3. d[i].kind = "part" /\ d[j].kind = "end" /\ \A k \in i .. j - 1 : d[k].kind # "end"
    <3>1. \A k \in i .. j - 1 : k \in 1 .. Len(d)
      BY <1>1, <2>1
    <3> HIDE DEF rest
    <3> QED
      BY <2>1, <2>2, <3>1
  <2>4. d[j + 1].kind = "text"
    BY <1>1, <1>2, <2>1, <2>3 DEF TextBehindParts
  <2> QED
    BY <2>1, <2>2, <2>4
<1>6. PartsHaveText(Left(rest))
  BY <1>1, <1>5, LeftKeeps
<1> QED
  BY <1>3, <1>4, <1>6

LEMMA FirstRoundOfWhole ==
  ASSUME NEW n \in Nat, NEW d \in Datagrams, NEW s \in LoopStates(n), NEW remains \in Leftovers,
         s.rest = Stored(Stamped(d, n)), Ordered(s.parser, s.delivered),
         \A i \in DOMAIN s.delivered : s.delivered[i].number < n,
         NEW before, NEW requests, Whole(d), FirstIsOwn(s.delivered),
         s.running, Ended(s.running, before),
         Idle(s.parser, s.delivered, before),
         requests = before \cup (IF Headed(d) /\ d[1].request.method \in BuiltMethods
                                THEN {n} ELSE {})
  PROVE  Round(s, remains) \in WholeStates(n, requests)
<1> DEFINE chunk == Pulled(s.rest)
           text == TextOf(chunk, BufferSize, remains)
           loaded == LoadMessageData(s, chunk, text)
           u == LoadHeader(s, chunk)
           t == Round(s, remains)
<1>1. s.rest = Stamped(d, n) /\ Len(Left(s.rest)) < BufferSize /\ PartsHaveText(Left(s.rest))
  BY WholeIsStored
<1>2. ~ s.parser.processingMessage
  BY DEF Idle
<1>3. /\ BuildMessage(s.parser, chunk) # Null
           <=> Headed(d) /\ d[1].request.method \in BuiltMethods
      /\ FirstIsOwn(u.delivered)
      /\ \/ Idle(u.parser, u.delivered, requests)
         \/ Awaiting(u.parser, u.delivered, Left(s.rest), n, requests)
  BY <1>1, FirstWholeRound
<1>4. s.rest \in Seq(Pieces(n)) /\ chunk \in Seq(Pieces(n))
  BY LoopStateTypes, PulledElements
<1>5. u \in LoopStates(n) /\ u.running = s.running
  BY <1>2, <1>4, HeaderLoaded
<1>6. t \in SteadyStates(n)
  BY FirstRound
<1>7. logEnds => before = {}
  BY DEF Ended
<1>8. CASE Survives(s.parser, chunk)
  <2>1. loaded = u
    BY <1>2, <1>8 DEF LoadMessageData
  <2>2. /\ t.rest = Left(s.rest) /\ t.parser = u.parser
        /\ t.delivered = u.delivered /\ t.running
    BY <1>4, <1>5, <2>1, RoundForm
  <2>3. logEnds => requests = {}
    BY <1>2, <1>3, <1>7, <1>8 DEF Survives, Constructs
  <2> HIDE DEF t, loaded, u
  <2>4. t \in WholeStates(n, requests)
    BY <1>1, <1>3, <1>6, <2>2, <2>3 DEF WholeStates, WholeState, Ended
  <2> QED
    BY <2>4 DEF t
<1>9. CASE ~ Survives(s.parser, chunk)
  <2>1. loaded = [s EXCEPT !.running = FALSE]
    BY <1>9 DEF LoadMessageData
  <2>2. loaded \in LoopStates(n) /\ ~ loaded.running /\ loaded.delivered = s.delivered
    BY <2>1 DEF LoopStates
  <2>3. t.rest = Left(s.rest) /\ t.delivered = s.delivered /\ ~ t.running
    BY <1>4, <2>2, RoundForm
  <2>4. logEnds /\ requests # {}
    BY <1>2, <1>3, <1>9 DEF Survives, Constructs
  <2> HIDE DEF t, loaded, u
  <2>5. t \in WholeStates(n, requests)
    BY <1>1, <1>6, <2>3, <2>4 DEF WholeStates, WholeState, Ended
  <2> QED
    BY <2>5 DEF t
<1> QED
  BY <1>8, <1>9

-----------------------------------------------------------------------------
(* All rounds of a datagram *)

LEMMA DatagramRead ==
  ASSUME NEW n \in Nat, NEW d \in Datagrams, NEW s \in LoopStates(n), NEW remains \in Leftovers,
         s.rest = Stored(Stamped(d, n)), Ordered(s.parser, s.delivered),
         \A i \in DOMAIN s.delivered : s.delivered[i].number < n
  PROVE  ReadLoop(s, remains) \in SteadyStates(n)
<1> DEFINE V == SteadyStates(n)
<1>1. V \subseteq LoopStates(n)
  BY DEF SteadyStates
<1>2. Round(s, remains) \in V /\ Round(s, remains).rest = Left(s.rest)
  BY FirstRound
<1>3. \A t \in V : t.rest # <<>> => /\ Round(t, remains) \in V
                                    /\ Round(t, remains).rest = Left(t.rest)
  BY LaterRounds
<1> HIDE DEF V
<1>4. ReadLoop(s, remains) \in V
  BY <1>1, <1>2, <1>3, ReadLoopEnds
<1> QED
  BY <1>4 DEF V

\* No body is awaited behind a whole datagram: what was awaited would still be left.
LEMMA WholeDatagramRead ==
  ASSUME NEW n \in Nat, NEW d \in Datagrams, NEW s \in LoopStates(n), NEW remains \in Leftovers,
         s.rest = Stored(Stamped(d, n)), Ordered(s.parser, s.delivered),
         \A i \in DOMAIN s.delivered : s.delivered[i].number < n,
         NEW before, NEW requests, Whole(d), FirstIsOwn(s.delivered),
         s.running, Ended(s.running, before),
         Idle(s.parser, s.delivered, before),
         requests = before \cup (IF Headed(d) /\ d[1].request.method \in BuiltMethods
                                THEN {n} ELSE {})
  PROVE  LET t == ReadLoop(s, remains)
         IN /\ Ended(t.running, requests) /\ FirstIsOwn(t.delivered)
            /\ t.running => Idle(t.parser, t.delivered, requests)
<1> DEFINE V == WholeStates(n, requests)
           t == ReadLoop(s, remains)
<1>1. V \subseteq LoopStates(n)
  BY DEF WholeStates, SteadyStates
<1>2. Round(s, remains) \in V
  BY FirstRoundOfWhole
<1>3. Round(s, remains).rest = Left(s.rest)
  BY FirstRound
<1>4. ASSUME NEW u \in V, u.rest # <<>>
      PROVE  Round(u, remains) \in V /\ Round(u, remains).rest = Left(u.rest)
  <2>1. Round(u, remains) \in V
    BY <1>4, LaterWholeRounds
  <2>2. u \in SteadyStates(n)
    BY DEF WholeStates
  <2>3. Round(u, remains).rest = Left(u.rest)
    BY <1>4, <2>2, LaterRounds
  <2> QED
    BY <2>1, <2>3
<1> HIDE DEF V
<1>5. t \in V /\ t.rest = <<>>
  BY <1>1, <1>2, <1>3, <1>4, ReadLoopEnds
<1> HIDE DEF t
<1>6. t \in LoopStates(n) /\ WholeState(t, n, requests)
  BY <1>5 DEF V, WholeStates, SteadyStates
<1>7. ~ Awaiting(t.parser, t.delivered, t.rest, n, requests)
  <2> SUFFICES ASSUME Awaiting(t.parser, t.delivered, t.rest, n, requests) PROVE FALSE
    OBVIOUS
  <2> DEFINE length == t.parser.sipMessage.request.contentLength
             received == t.parser.receivedContentLength
  <2>1. t.parser.processingMessage /\ received < length /\ length <= received + Len(t.rest)
    BY DEF Awaiting
  <2>2. received \in Nat /\ length \in Nat
    BY <1>6, <2>1, LoopStateTypes, MessageTypes
  <2>3. Len(t.rest) = 0
    BY <1>5
  <2> HIDE DEF received, length
  <2> QED
    BY <2>1, <2>2, <2>3
<1>8. /\ Ended(t.running, requests) /\ FirstIsOwn(t.delivered)
      /\ t.running => Idle(t.parser, t.delivered, requests)
  BY <1>6, <1>7 DEF WholeState
<1> QED
  BY <1>8 DEF t

-----------------------------------------------------------------------------
(* The inductive invariant: Ordered whatever arrives, and between whole      *)
(* datagrams nothing is awaited                                              *)

UdpInv ==
  /\ TypeOK
  /\ Ordered(parser, delivered)
  /\ AllWhole => /\ Ended(running, Buildable(arrived)) /\ FirstIsOwn(delivered)
                 /\ running => Idle(parser, delivered, Buildable(arrived))

LEMMA UdpInit == Init => UdpInv
<1> SUFFICES ASSUME Init PROVE UdpInv
  OBVIOUS
<1>1. /\ parser = NewParser /\ running = TRUE /\ delivered = <<>> /\ arrived = <<>>
      /\ logEnds \in BOOLEAN
  BY DEF Init
<1>2. TypeOK
  <2>1. Len(arrived) = 0 /\ arrived \in Seq(Datagrams) /\ delivered \in Seq(Message(0 .. 0))
    BY <1>1
  <2>2. NewParser \in Parsers(0)
    BY DEF NewParser, Parsers, NoBodies, Bodies, ContentTypes
  <2> QED
    BY <1>1, <2>1, <2>2, ParserTypes DEF TypeOK
<1>3. Ordered(parser, delivered)
  BY <1>1 DEF Ordered, InOrder, NewParser
<1>4. /\ FirstIsOwn(delivered) /\ Idle(parser, delivered, Buildable(arrived))
      /\ Ended(running, Buildable(arrived))
  <2>1. Numbers(delivered) = {} /\ Buildable(arrived) = {}
    BY <1>1 DEF Numbers, Buildable
  <2>2. /\ ~ parser.processingMessage /\ parser.receivedContentLength = 0
        /\ parser.bodies["SDP"] = Null
    BY <1>1 DEF NewParser, NoBodies, PartTypes
  <2>3. FirstIsOwn(delivered)
    BY <1>1 DEF FirstIsOwn
  <2> QED
    BY <1>1, <2>1, <2>2, <2>3 DEF Idle, Ended
<1> QED
  BY <1>1, <1>2, <1>3, <1>4 DEF UdpInv

LEMMA UdpStep == UdpInv /\ [Next]_vars => UdpInv'
<1> SUFFICES ASSUME UdpInv, [Next]_vars PROVE UdpInv'
  OBVIOUS
<1>1. CASE UNCHANGED vars
  BY <1>1 DEF vars, UdpInv, TypeOK, ParserTypeOK, AllWhole, Ended
<1>2. ASSUME NEW d \in Datagrams, UdpReceive(d) PROVE UdpInv'
  <2> DEFINE n == Len(arrived) + 1
             S == Message(0 .. Len(arrived))
             first == [parser |-> parser, running |-> running, delivered |-> delivered,
                       rest |-> Stored(Stamped(d, n))]
  <2>0. running /\ logEnds' = logEnds
    BY <1>2 DEF UdpReceive
  <2>1. /\ arrived \in Seq(Datagrams) /\ ParserTypeOK(parser, 0 .. Len(arrived))
        /\ running \in BOOLEAN /\ delivered \in Seq(Message(0 .. Len(arrived)))
        /\ Ordered(parser, delivered) /\ logEnds \in BOOLEAN
    BY DEF UdpInv, TypeOK
  <2>2. /\ arrived' = Append(arrived, d) /\ arrived' \in Seq(Datagrams)
        /\ Len(arrived') = n /\ n \in Nat /\ Len(arrived) \in Nat /\ Len(arrived) <= n
        /\ DOMAIN arrived = 1 .. Len(arrived) /\ DOMAIN arrived' = 1 .. n
        /\ arrived'[n] = d /\ \A i \in 1 .. Len(arrived) : arrived'[i] = arrived[i]
    BY <1>2, <2>1, AppendElements DEF UdpReceive
  <2>3. PICK remains \in Leftovers :
          LET state == ReadLoop(first, remains)
          IN parser' = state.parser /\ running' = state.running /\ delivered' = state.delivered
    BY <1>2, <2>2 DEF UdpReceive
  <2> DEFINE last == ReadLoop(first, remains)
  <2>4. first \in LoopStates(n)
    <3>1. Parsers(Len(arrived)) \subseteq Parsers(n) /\ S \subseteq Message(0 .. n)
      BY <2>2, StampsGrow
    <3>2. parser \in Parsers(n)
      BY <2>1, <2>2, <3>1, ParserTypes
    <3>3. delivered \in Seq(Message(0 .. n))
      <4> HIDE DEF S
      <4> QED
        BY <2>1, <3>1 DEF S
    <3>4. Stored(Stamped(d, n)) \in Seq(Pieces(n))
      <4>1. Stamped(d, n) \in Seq(Pieces(n))
        BY <2>2, StampedUnits
      <4> DEFINE stamped == Stamped(d, n)
      <4> HIDE DEF stamped
      <4>2. stamped \in Seq(Pieces(n)) /\ <<>> \in Seq(Pieces(n))
        BY <4>1 DEF stamped
      <4>3. Stored(stamped) \in {stamped, <<>>}
        BY DEF Stored
      <4> QED
        BY <4>2, <4>3 DEF stamped
    <3> QED
      BY <2>1, <3>2, <3>3, <3>4 DEF LoopStates
  <2>5. /\ first.parser = parser /\ first.running = running /\ first.delivered = delivered
        /\ first.rest = Stored(Stamped(d, n))
    OBVIOUS
  <2>6. \A i \in DOMAIN delivered : delivered[i].number < n
    <3> SUFFICES ASSUME NEW i \in DOMAIN delivered PROVE delivered[i].number < n
      OBVIOUS
    <3>1. delivered[i] \in Message(0 .. Len(arrived))
      BY <2>1, ElementType
    <3>2. delivered[i].number \in 0 .. Len(arrived)
      BY <2>2, <3>1, MessageTypes
    <3> QED
      BY <2>2, <3>2
  <2> HIDE DEF first
  <2>7. last \in SteadyStates(n)
    BY <2>1, <2>2, <2>4, <2>5, <2>6, DatagramRead
  <2> HIDE DEF last
  <2>8. parser' = last.parser /\ running' = last.running /\ delivered' = last.delivered
    BY <2>3 DEF last
  <2> HIDE DEF n
  <2>9. TypeOK' /\ Ordered(parser, delivered)'
    <3>1. last \in LoopStates(n) /\ Ordered(last.parser, last.delivered)
      BY <2>7 DEF SteadyStates
    <3>2. parser' \in Parsers(n) /\ running' \in BOOLEAN /\ delivered' \in Seq(Message(0 .. n))
      BY <2>2, <2>8, <3>1, LoopStateTypes
    <3>3. ParserTypeOK(parser', 0 .. n)
      BY <2>2, <3>2, ParserTypes
    <3> QED
      BY <2>0, <2>1, <2>2, <2>8, <3>1, <3>2, <3>3 DEF TypeOK, ParserTypeOK
  <2>10. ASSUME AllWhole'
         PROVE  /\ Ended(running, Buildable(arrived))' /\ FirstIsOwn(delivered)'
                /\ running' => Idle(parser, delivered, Buildable(arrived))'
    <3>1. Whole(d) /\ AllWhole
      BY <2>2, <2>10 DEF AllWhole, n
    <3>2. /\ Ended(running, Buildable(arrived)) /\ FirstIsOwn(delivered)
          /\ Idle(parser, delivered, Buildable(arrived))
      BY <2>0, <3>1 DEF UdpInv
    <3> DEFINE before == Buildable(arrived)
               requests == before \cup (IF Headed(d) /\ d[1].request.method \in BuiltMethods
                                       THEN {n} ELSE {})
    <3>3. Buildable(arrived') = requests
      BY <2>2 DEF Buildable, n
    <3> HIDE DEF before
    <3>4. /\ Ended(last.running, requests) /\ FirstIsOwn(last.delivered)
          /\ last.running => Idle(last.parser, last.delivered, requests)
      BY <2>0, <2>1, <2>2, <2>4, <2>5, <2>6, <3>1, <3>2, WholeDatagramRead DEF last, before
    <3> HIDE DEF requests
    <3> QED
      BY <2>0, <2>8, <3>3, <3>4 DEF Ended
  <2> QED
    BY <2>9, <2>10 DEF UdpInv
<1> QED
  BY <1>1, <1>2 DEF Next

LEMMA UdpAlways == Spec => []UdpInv
BY UdpInit, UdpStep, PTL DEF Spec

-----------------------------------------------------------------------------
(* What the runs check, for every instance *)

\* Whatever datagrams arrive, the one parser and what it delivers stay within their
\* types, and a body is never taken without a message to add it to.
THEOREM UdpTypes == Spec => []TypeOK
<1>1. UdpInv => TypeOK
  BY DEF UdpInv
<1> QED
  BY <1>1, UdpAlways, PTL

\* Of datagrams that are whole, while the process runs, the requests that can be built are delivered, all of
\* them and no others, however many parts their bodies have.
THEOREM UdpDeliversWholeRequests == Spec => []WholeRequestsDelivered
<1>1. UdpInv => WholeRequestsDelivered
  BY DEF UdpInv, WholeRequestsDelivered, Idle
<1> QED
  BY <1>1, UdpAlways, PTL

\* Whole datagrams, a keep-alive's blank line among them, end the process where the
\* first request is built, if a call through its null logger does that, and nowhere else.
THEOREM UdpEndsAtFirstRequest == Spec => []EndsAtFirstRequest
<1>1. UdpInv => EndsAtFirstRequest
  BY DEF UdpInv, Ended, EndsAtFirstRequest
<1> QED
  BY <1>1, UdpAlways, PTL

\* Also when datagrams are cut short, no request is delivered twice or after a later one.
THEOREM UdpDeliversOnceInOrder == Spec => []DeliveredOnceInOrder
<1>1. UdpInv => DeliveredOnceInOrder
  BY DEF UdpInv, Ordered, DeliveredOnceInOrder
<1> QED
  BY <1>1, UdpAlways, PTL

\* Of whole datagrams the first SDP delivered is text of the very request it is delivered with.
THEOREM UdpFirstSdpIsOwn == Spec => []FirstSdpIsOwn
<1>1. UdpInv => FirstSdpIsOwn
  BY DEF UdpInv, FirstIsOwn, OwnText, FirstSdpIsOwn
<1> QED
  BY <1>1, UdpAlways, PTL
=============================================================================
