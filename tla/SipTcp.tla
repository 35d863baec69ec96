------------------------------- MODULE SipTcp -------------------------------
(***************************************************************************)
(* The TCP side of SipInterface: onTcpConnection and onTcpRecv.  Every     *)
(* connection has a parser and a ring buffer of its own.  A peer's stream  *)
(* comes in segments that may end anywhere; what a segment adds is pulled  *)
(* out of the ring up to a blank line while a header is awaited, and by    *)
(* count while a body is.                                                  *)
(***************************************************************************)
EXTENDS SipParser

CONSTANTS
  Connections,  \* the peers' connections
  Messages,     \* what a peer sends on one
  Capacity,     \* of a connection's MessageBuffer: 16192
  BufSize,      \* size of onTcpRecv's own buffer: 1024
  ReadSize,     \* of what alloc_buffer provides: 8192
  Memories      \* what the memory of a new buffer may hold

\* The first line of a header stands nowhere else.  onTcpRecv pulls as much of a body
\* as is pending, whatever its buffer holds.
ASSUME MessagesAssumption ==
  \A m \in Messages : /\ m \in Seq(Unit)
                      /\ Headed(m) /\ \E i \in DOMAIN m : m[i].kind = "end"
                      /\ \A i \in DOMAIN m : m[i].kind = "header" => i = 1
                      /\ m[1].request.contentLength <= BufSize

\* A ring that is empty has room for all that one read provides.
ASSUME SizesAssumption ==
  Capacity \in Nat \ {0} /\ BufSize \in Nat \ {0} /\ ReadSize \in 1 .. Capacity

ASSUME MemoriesAssumption == Memories \subseteq [0 .. Capacity -> [unit : Unit, number : {0}]]

VARIABLES
  connection,  \* each one's SipConnection, and whether it is open
  stream,      \* what its peer has written and onTcpRecv has not read
  running,     \* has the process not ended?
  delivered,   \* history: the messages each connection's parser handed on
  sent,        \* history: the messages its peer has sent
  cuts         \* history: where reads ended within a message of it (never within
               \* the CR LF CR LF of a blank line, which is one unit)

vars == <<connection, stream, running, delivered, sent, cuts, logEnds>>

\* A connection's MessageBuffer.  Stamps are no part of what it compares.
Ring(memory, start, end) ==
  INSTANCE MessageBuffer WITH
    data <- memory, dataStartPos <- start, dataEndPos <- end, reply <- <<>>,
    Delimiter <- <<[kind |-> "end"]>>, Bytes <- {}, Pushes <- {}, Pulls <- {}

Unstamped(memory) == [slot \in DOMAIN memory |-> memory[slot].unit]

\* onTcpConnection.  The buffer's memory is what was there.
NewConnection(memory) ==
  [status |-> "open", memory |-> memory, start |-> 0, end |-> 0,
   pendingMessageBytes |-> 0, parser |-> NewParser]

Init ==
  /\ connection = [c \in Connections |-> [status |-> "none"]]
  /\ stream = [c \in Connections |-> <<>>]
  /\ running = TRUE
  /\ delivered = [c \in Connections |-> <<>>]
  /\ sent = [c \in Connections |-> <<>>]
  /\ cuts = [c \in Connections |-> {}]
  /\ logEnds \in BOOLEAN

OnTcpConnection(c) ==
  /\ running /\ connection[c].status = "none"
  /\ \E memory \in Memories : connection' = [connection EXCEPT ![c] = NewConnection(memory)]
  /\ UNCHANGED <<stream, running, delivered, sent, cuts>>

-----------------------------------------------------------------------------
\* A segment that the ring has no room for disappears.
Push(link, bytes) ==
  IF Ring(link.memory, link.start, link.end)!Fits(Len(bytes))
  THEN [link EXCEPT !.memory = Ring(link.memory, link.start, link.end)!DataWith(bytes),
                    !.end = Ring(link.memory, link.start, link.end)!EndAfter(Len(bytes))]
  ELSE link

\* Mutant: a body is looked through for a blank line, as a header is.
PullCountDelimited(link) ==
  LET units == Unstamped(link.memory)
      found == Ring(units, link.start, link.end)!DelimitedCount
  IN Ring(link.memory, link.start, link.end)!CountAtMost(found)

\* How much the loop's pull returns.
PullCount(link) ==
  IF link.pendingMessageBytes > 0
  THEN Ring(link.memory, link.start, link.end)!CountAtMost(link.pendingMessageBytes)
  ELSE LET units == Unstamped(link.memory)
           found == Ring(units, link.start, link.end)!DelimitedCount
       IN Ring(link.memory, link.start, link.end)!CountAtMost(found)

\* One round of the loop, if it pulls something.
PulledOnce(state, remains) ==
  LET link == state.link
      count == IF state.running THEN PullCount(link) ELSE 0
      chunk == Ring(link.memory, link.start, link.end)!FirstBytes(count)
      loaded == LoadMessageData(
                  [parser |-> link.parser, running |-> state.running, delivered |-> state.delivered],
                  chunk, TextOf(chunk, BufSize, remains))
  IN IF count = 0 THEN state ELSE
     [link |-> [link EXCEPT !.start = Ring(link.memory, link.start, link.end)!StartAfter(count),
                            !.parser = loaded.parser,
                            !.pendingMessageBytes = PendingBytes(loaded.parser)],
      running |-> loaded.running, delivered |-> loaded.delivered]

\* The loop ends with the first pull that returns nothing.
Drained(state, remains) ==
  LET after[k \in 0 .. Capacity] == IF k = 0 THEN state ELSE PulledOnce(after[k - 1], remains)
  IN after[Capacity]

\* Where a read that leaves rest unread has ended: the number of the message it
\* ended in, and how much of that has been read.
CutBefore(c, rest) ==
  LET n == rest[1].number
      unread == Cardinality({i \in DOMAIN rest : rest[i].number = n})
  IN IF rest # <<>> /\ unread < Len(sent[c][n]) THEN {<<n, Len(sent[c][n]) - unread>>} ELSE {}

\* onTcpRecv with the next bytes of the stream.
OnTcpRecv(c, count) ==
  /\ running /\ connection[c].status = "open"
  /\ count \in 1 .. Len(stream[c]) /\ count <= ReadSize
  /\ \E remains \in Leftovers :
       LET rest == SubSeq(stream[c], count + 1, Len(stream[c]))
           state == Drained([link |-> Push(connection[c], SubSeq(stream[c], 1, count)),
                             running |-> running, delivered |-> delivered[c]],
                            remains)
       IN /\ connection' = [connection EXCEPT ![c] = state.link]
          /\ running' = state.running
          /\ delivered' = [delivered EXCEPT ![c] = state.delivered]
          /\ stream' = [stream EXCEPT ![c] = rest]
          /\ cuts' = [cuts EXCEPT ![c] = @ \cup CutBefore(c, rest)]
  /\ UNCHANGED sent

\* onTcpRecv at the end of the stream.  Half a message is left where it is.
OnTcpEnd(c) ==
  /\ running /\ connection[c].status = "open" /\ stream[c] = <<>>
  /\ connection' = [connection EXCEPT ![c].status = "closed"]
  /\ UNCHANGED <<stream, running, delivered, sent, cuts>>

\* The peer writes a message.
PeerSends(c, m) ==
  /\ connection[c].status = "open"
  /\ sent' = [sent EXCEPT ![c] = Append(@, m)]
  /\ stream' = [stream EXCEPT
       ![c] = @ \o [i \in DOMAIN m |-> [unit |-> m[i], number |-> Len(sent'[c])]]]
  /\ UNCHANGED <<connection, running, delivered, cuts>>

Next ==
  /\ UNCHANGED logEnds
  /\ \E c \in Connections :
       \/ OnTcpConnection(c)
       \/ \E count \in 1 .. ReadSize : OnTcpRecv(c, count)
       \/ OnTcpEnd(c)
       \/ \E m \in Messages : PeerSends(c, m)

Spec == Init /\ [][Next]_vars

-----------------------------------------------------------------------------
(* Properties *)

\* Every variable stays within its type, and above all the two positions of every
\* ring within its memory, however often its data goes round.
TypeOK ==
  /\ \A c \in Connections :
       LET stamps == 0 .. Len(sent[c])
       IN /\ connection[c].status # "none" =>
               /\ connection[c] \in
                    [status : {"open", "closed"},
                     memory : [0 .. Capacity -> [unit : Unit, number : stamps]],
                     start : 0 .. Capacity + 1, end : 0 .. Capacity + 1,
                     pendingMessageBytes : Nat, parser : {connection[c].parser}]
               /\ ParserTypeOK(connection[c].parser, stamps)
          /\ stream[c] \in Chunk(stamps)
          /\ delivered[c] \in Seq(Message(stamps))
          /\ sent[c] \in Seq(Messages)
  /\ running \in BOOLEAN /\ logEnds \in BOOLEAN

\* The messages that have been read to their end.
FullyRead(c) ==
  IF stream[c] = <<>> THEN sent[c] ELSE SubSeq(sent[c], 1, Head(stream[c]).number - 1)

WellFormed(m) ==
  /\ m[1].request.contentLength = Len(Body(m))
  /\ HeaderLength(m) < BufSize
  /\ Body(m) # <<>> => m[1].request.method \in BuiltMethods

\* No read has ended inside a header, and no message is one that the connection
\* cannot recover from.
Orderly(c) ==
  /\ \A n \in DOMAIN sent[c] : WellFormed(sent[c][n])
  /\ \A cut \in cuts[c] : cut[2] >= HeaderLength(sent[c][cut[1]])

\* "SIP Messages on TCP can have long running connections that handle blocks of
\* data" (SipInterface's constructor).  However the bodies are cut, and whatever
\* old bytes lie in the ring, every request read to its end is delivered, and none
\* before its end.
RequestsSurviveCuts ==
  running => \A c \in Connections :
    Orderly(c) => Numbers(delivered[c]) = Buildable(FullyRead(c))

\* What the first read that reaches the body of a message holds of it.
FirstPortion(c, n) ==
  LET m == sent[c][n]
      ends == {cut[2] : cut \in {x \in cuts[c] : x[1] = n /\ x[2] > HeaderLength(m)}}
                \cup {Len(m)}
  IN [i \in 1 .. Min(ends) - HeaderLength(m) |->
        [unit |-> m[HeaderLength(m) + i], number |-> n]]

\* A body that comes in portions loses all but the first (the type expected is
\* reset after each): the first SDP of a connection starts with that of its own
\* request, from the start of the body to the end of the first read that has any of
\* it.  It is that and no more, but for a portion that fills the read buffer, behind
\* which it goes on with what lies in the memory there.  (A request that names an SDP
\* and announces no body is handed on at once, without one.)
SdpIsFirstPortion ==
  running => \A c \in Connections :
    Orderly(c) => \A i \in DOMAIN delivered[c] :
      LET sdp == SdpOf(delivered[c][i])
          portion == FirstPortion(c, delivered[c][i].number)
      IN (/\ delivered[c][i].request.contentType = "SDP"
          /\ delivered[c][i].request.contentLength > 0
          /\ \A j \in 1 .. i - 1 : SdpOf(delivered[c][j]) = Null)
           => IF Len(portion) < BufSize THEN sdp = portion ELSE IsPrefix(portion, sdp)

\* Also when headers are cut, segments are rejected and blank lines of earlier
\* messages are found again where the ring goes round, a request is delivered
\* once at most, and never after a later one.
DeliveredOnceInOrder ==
  \A c \in Connections : InOrder(delivered[c])

\* A header is awaited, and so many bytes of it are there that its end can no
\* longer be seen: the search is given up before it looks at the last one.
HeaderTooLong(c) ==
  /\ connection[c].status # "none" /\ connection[c].pendingMessageBytes = 0
  /\ LET link == connection[c]
         stored == Ring(Unstamped(link.memory), link.start, link.end)!Stored
     IN Len(stored) >= BufSize - 1 /\ \A k \in 1 .. BufSize - 1 : stored[k].kind # "end"

\* From then on the connection is deaf: nothing that its peer sends is delivered.
LongHeaderIsTheLast ==
  [][\A c \in Connections : HeaderTooLong(c) => HeaderTooLong(c)' /\ delivered'[c] = delivered[c]]_vars
=============================================================================
