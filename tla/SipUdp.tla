------------------------------- MODULE SipUdp -------------------------------
(***************************************************************************)
(* The UDP read loop of SipInterface.  One parser serves the UDP socket    *)
(* for good, so what it keeps from one call to the next is shared by all   *)
(* peers.                                                                  *)
(***************************************************************************)
EXTENDS SipParser

CONSTANTS
  Datagrams,    \* what peers send, and what of it arrives
  BufferSize    \* size of onUdpRecv's MessageBuffer: 4096

\* What arrives is one message, or some of one: only its first line is a header's first.
ASSUME DatagramsAssumption ==
  \A d \in Datagrams : /\ d \in Seq(Unit) \ {<<>>}
                       /\ \A i \in DOMAIN d : d[i].kind = "header" => i = 1

ASSUME BufferSizeAssumption == BufferSize \in Nat

VARIABLES
  parser,     \* the members of the one SipParser
  running,    \* has the process not ended?
  delivered,  \* history: the messages passed to the event handler
  arrived     \* history: the datagrams that arrived

vars == <<parser, running, delivered, arrived, logEnds>>

Init ==
  /\ parser = NewParser
  /\ running = TRUE
  /\ delivered = <<>>
  /\ arrived = <<>>
  /\ logEnds \in BOOLEAN

-----------------------------------------------------------------------------
\* Units that arrived as part of the n-th datagram.
Stamped(d, n) == [i \in DOMAIN d |-> [unit |-> d[i], number |-> n]]

\* A datagram that the buffer has no room for leaves it empty.
Stored(datagram) == IF Len(datagram) <= BufferSize THEN datagram ELSE <<>>

\* What the next pull takes out of the rest: all up to a blank line, or everything.
PulledCount(rest) ==
  Min({i \in DOMAIN rest : rest[i].unit.kind = "end"} \cup {Len(rest)})

\* A round of the read loop.
Round(state, remains) ==
  LET count == PulledCount(state.rest)
      chunk == SubSeq(state.rest, 1, count)
      loaded == LoadMessageData(state, chunk, TextOf(chunk, BufferSize, remains))
  IN [loaded EXCEPT !.rest = SubSeq(state.rest, count + 1, Len(state.rest))]

\* The loop: a round, and one more as long as there is a rest.  The state has the
\* rest of the datagram beside what loadMessageData changes.
NextRound(state, remains) == IF state.rest = <<>> THEN state ELSE Round(state, remains)

ReadLoop(state, remains) ==
  LET after[k \in 0 .. Len(state.rest)] ==
        IF k = 0 THEN Round(state, remains) ELSE NextRound(after[k - 1], remains)
  IN after[Len(state.rest)]

\* onUdpRecv, with all it calls.
UdpReceive(d) ==
  /\ running
  /\ arrived' = Append(arrived, d)
  /\ \E remains \in Leftovers :
       LET state == ReadLoop([parser |-> parser, running |-> running, delivered |-> delivered,
                              rest |-> Stored(Stamped(d, Len(arrived')))], remains)
       IN parser' = state.parser /\ running' = state.running /\ delivered' = state.delivered
  /\ UNCHANGED logEnds

Next == \E d \in Datagrams : UdpReceive(d)

Spec == Init /\ [][Next]_vars

-----------------------------------------------------------------------------
(* Properties *)

\* Every variable stays within its type, and a message is there to add to
\* whenever body data is taken.
TypeOK ==
  /\ arrived \in Seq(Datagrams)
  /\ ParserTypeOK(parser, 0 .. Len(arrived))
  /\ running \in BOOLEAN /\ logEnds \in BOOLEAN
  /\ delivered \in Seq(Message(0 .. Len(arrived)))

\* The header of a part is followed by the text of the part.
TextBehindParts(d) ==
  \A i, j \in DOMAIN d :
    (/\ i < j /\ j < Len(d)
     /\ d[i].kind = "part" /\ d[j].kind = "end" /\ \A k \in i .. j - 1 : d[k].kind # "end")
      => d[j + 1].kind = "text"

\* The datagram holds all that its Content-Length says, fits the buffer, an SDP in
\* it begins with text, and its parts with a boundary.
Whole(d) ==
  /\ Headed(d) =>
       /\ d[1].request.contentLength <= Len(Body(d))
       /\ Body(d) # <<>> =>
            /\ d[1].request.contentType = "BOUNDARY" => Head(Body(d)).kind # "end"
            /\ d[1].request.contentType = "SDP" => Head(Body(d)).kind = "text"
  /\ TextBehindParts(d)
  /\ Len(d) <= BufferSize

AllWhole == \A n \in DOMAIN arrived : Whole(arrived[n])

\* "we received UDP messages in their totality" (SipInterface's constructor, of
\* its one parser).  As long as that is so and the process runs, the requests that
\* can be built are delivered, all of them and no others, their parts counted out.
WholeRequestsDelivered == AllWhole /\ running => Numbers(delivered) = Buildable(arrived)

\* As long as that is so the one thing that ends the process is the null logger of
\* the first request that is built.  Above all the parser never waits for a part when
\* a datagram begins: the blank line that a peer keeps its path open with (a datagram
\* without lines) is not looked at for a boundary.
EndsAtFirstRequest == AllWhole => (running <=> (logEnds => Buildable(arrived) = {}))

\* Also when datagrams are cut short, and the next one is taken for the rest, a
\* request is delivered once at most and never after a later one.
DeliveredOnceInOrder == InOrder(delivered)

\* The first SDP delivered is text of the very request it comes with, on its own or
\* as a part of several, never with a part's header: of whole datagrams no chunk of
\* a body fills the read buffer, and so no text runs on behind it.
FirstSdpIsOwn ==
  AllWhole => \A i \in DOMAIN delivered :
    LET sdp == SdpOf(delivered[i])
    IN (sdp # Null /\ \A j \in 1 .. i - 1 : SdpOf(delivered[j]) = Null)
         => /\ StartsWith(sdp, "text")
            /\ \A k \in DOMAIN sdp : sdp[k].number = delivered[i].number

\* "if the same type already exists the original is replaced" (SipMessage.h, of
\* addBody), and "We can use a single parser object here" (SipInterface's constructor):
\* a request that brings an SDP is delivered with the one it brings.
SameTypeIsReplaced ==
  AllWhole => \A i \in DOMAIN delivered :
    (delivered[i].request.contentType = "SDP" /\ delivered[i].request.contentLength > 0)
      => \E unit \in ToSet(SdpOf(delivered[i])) : unit.number = delivered[i].number
=============================================================================
