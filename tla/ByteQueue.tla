----------------------------- MODULE ByteQueue ------------------------------
(***************************************************************************)
(* What MessageBuffer.h promises of a buffer: bytes come out as they went  *)
(* in, a push that does not fit is rejected whole, and no more than the    *)
(* capacity is ever stored.  Where a delimited pull ends is left open.     *)
(***************************************************************************)
EXTENDS Naturals, Sequences

CONSTANTS
  Bytes,     \* byte values
  Capacity,  \* the maximum number of bytes that can be stored at any one time
  Pushes     \* byte sequences that are pushed

VARIABLES
  stored,  \* the bytes that were pushed and not yet pulled
  reply    \* what the last call returned

vars == <<stored, reply>>

Pushed(count) == [call |-> "push", count |-> count]
Pulled(bytes) == [call |-> "pull", bytes |-> bytes]

Init ==
  /\ stored = <<>>
  /\ reply = Pulled(<<>>)

Push(bytes) ==
  IF Len(bytes) <= Capacity - Len(stored)
  THEN stored' = stored \o bytes /\ reply' = Pushed(Len(bytes))
  ELSE UNCHANGED stored /\ reply' = Pushed(0)

\* Any number of the oldest bytes.
Pull ==
  \E count \in 0 .. Len(stored) :
    /\ reply' = Pulled(SubSeq(stored, 1, count))
    /\ stored' = SubSeq(stored, count + 1, Len(stored))

Flush ==
  /\ stored' = <<>>
  /\ UNCHANGED reply

Next ==
  \/ \E bytes \in Pushes : Push(bytes)
  \/ Pull
  \/ Flush

Spec == Init /\ [][Next]_vars
=============================================================================
