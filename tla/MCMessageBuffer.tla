-------------------------- MODULE MCMessageBuffer ---------------------------
(* Instance of MessageBuffer for TLC.                                        *)
EXTENDS MessageBuffer

CONSTANT MaxPush   \* bound: bytes pushed by one call, those of LongPushes apart

CRLF == <<"r", "n">>

\* One push that fills an empty buffer and one that is too long for it.
LongPushes == {[i \in 1 .. Capacity |-> "x"], [i \in 1 .. Capacity + 1 |-> "x"]}

AllPushes == UNION {[1 .. n -> Bytes] : n \in 0 .. MaxPush} \cup LongPushes
=============================================================================
