------------------------------ MODULE MCSipTcp ------------------------------
(* Instance of SipTcp for TLC: messages with and without a body, one with a  *)
(* longer header than the read loop's buffer has room for, and the bounds.   *)
EXTENDS SipTcp

CONSTANTS
  MaxSent,   \* bound: messages on all connections together
  MaxCuts    \* bound: reads that end within a message

End == [kind |-> "end"]
Text == [kind |-> "text"]
Part(type) == [kind |-> "part", type |-> type]

MessageOf(method, contentType, lines, body) ==
  <<[kind |-> "header", request |-> [method |-> method, contentType |-> contentType,
                                     contentLength |-> Len(body)]]>> \o lines \o <<End>> \o body

SomeMessages ==
  {MessageOf("INVITE", "SDP", <<Text>>, <<Text, Text>>),
   MessageOf("INVITE", "BOUNDARY", <<>>, <<Part("SDP"), End, Text>>),
   MessageOf("SUBSCRIBE", "BOUNDARY", <<>>, <<End, Text>>),
   MessageOf("INVITE", "SDP", <<>>, <<>>),
   MessageOf("INFO", "UNKNOWN", <<>>, <<Text>>),
   MessageOf("BYE", "NONE", <<Text, Text, Text>>, <<>>)}

\* Memory that was never used, and memory full of old ends of messages.
SomeMemories ==
  {[slot \in 0 .. Capacity |-> [unit |-> unit, number |-> 0]] : unit \in {Text, End}}

\* Memory that starts with a NUL, and memory that holds some text up to it.
SomeLeftovers == {<<>>, [i \in 1 .. 3 |-> [unit |-> Text, number |-> 0]]}

BoundedNext ==
  /\ Next
  /\ FoldSet(LAMBDA c, n : n + Len(sent'[c]), 0, Connections) <= MaxSent
  /\ \A c \in Connections : Cardinality(cuts'[c]) <= MaxCuts

MCSpec == Init /\ [][BoundedNext]_vars
=============================================================================
