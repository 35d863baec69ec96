----------------------------- MODULE MCSipUdp -----------------------------
(* Instance of SipUdp for TLC:    the datagrams of a few kinds of message,   *)
(* whole and cut short after any unit, and the bound on their number.        *)
EXTENDS SipUdp

CONSTANT MaxArrived   \* bound: datagrams that arrive

End == [kind |-> "end"]
Text == [kind |-> "text"]
Part(type) == [kind |-> "part", type |-> type]

DatagramOf(method, contentType, lines, body) ==
  <<[kind |-> "header", request |-> [method |-> method, contentType |-> contentType,
                                     contentLength |-> Len(body)]]>> \o lines \o <<End>> \o body

TwoParts == <<Part("SDP"), End, Text, End, Part("XML"), End, Text, [kind |-> "closing"]>>

WholeDatagrams ==
  {DatagramOf("INVITE", "SDP", <<Text>>, <<Text>>),
   DatagramOf("INVITE", "BOUNDARY", <<>>, TwoParts),
   DatagramOf("INVITE", "BOUNDARY", <<>>, <<>>),
   DatagramOf("BYE", "NONE", <<>>, <<>>),
   DatagramOf("SUBSCRIBE", "UNKNOWN", <<>>, <<Text, End, Text>>),
   DatagramOf("INFO", "SDP", <<>>, <<Text>>)}

\* What is left of them when the read buffer or a link on the way cuts them short.
CutDatagrams == UNION {{SubSeq(d, 1, n) : n \in 1 .. Len(d) - 1} : d \in WholeDatagrams}

\* A lone blank line, which keeps a path open, text that fills the read buffer (as
\* the rest of a body that was cut short may), and a message too long for it.
OtherDatagrams ==
  {<<End>>, [i \in 1 .. BufferSize |-> Text],
   DatagramOf("INVITE", "XML", <<>>, [i \in 1 .. BufferSize |-> Text])}

SomeDatagrams == WholeDatagrams \cup CutDatagrams \cup OtherDatagrams

\* Memory that starts with a NUL, and memory that holds some text up to it.
SomeLeftovers == {<<>>, [i \in 1 .. 4 |-> [unit |-> Text, number |-> 0]]}

BoundedNext == Next /\ Len(arrived') <= MaxArrived

MCSpec == Init /\ [][BoundedNext]_vars
=============================================================================
