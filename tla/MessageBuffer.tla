--------------------------- MODULE MessageBuffer ----------------------------
(***************************************************************************)
(* MessageBuffer: a ring buffer that reassembles SIP messages from the     *)
(* segments of a TCP connection (and splits UDP datagrams).  data has one  *)
(* slot more than the capacity, and both positions may stand one past the  *)
(* last slot.  One thread uses a buffer; every call is one action.         *)
(***************************************************************************)
EXTENDS Naturals, Sequences

CONSTANTS
  Bytes, Capacity, Pushes,
  Delimiter,  \* SipParser::messageDelimiter: CR LF CR LF
  BufSize,    \* size of the caller's buffer: 1024 for TCP, 4096 for UDP
  Pulls       \* numbers of bytes asked for

ASSUME CapacityAssumption == Capacity \in Nat \ {0}
ASSUME PushesAssumption == Pushes \subseteq Seq(Bytes)
ASSUME DelimiterAssumption == Delimiter \in Seq(Bytes) \ {<<>>}
ASSUME PullsAssumption == Pulls \subseteq Nat /\ BufSize \in Nat \ {0}

size == Capacity + 1
Slots == 0 .. size - 1

VARIABLES
  data,
  dataStartPos,
  dataEndPos,
  reply   \* what the last call returned (history)

vars == <<data, dataStartPos, dataEndPos, reply>>

Pushed(count) == [call |-> "push", count |-> count]
Pulled(bytes) == [call |-> "pull", bytes |-> bytes]

\* The constructor leaves the memory as it finds it.
Init ==
  /\ data \in [Slots -> Bytes]
  /\ dataStartPos = 0
  /\ dataEndPos = 0
  /\ reply = Pulled(<<>>)

-----------------------------------------------------------------------------
\* getStoredByteCount
StoredByteCount ==
  IF dataEndPos >= dataStartPos
  THEN dataEndPos - dataStartPos
  ELSE (size - dataStartPos) + dataEndPos

\* A push is accepted when it is no longer than getSpaceAvailableByteCount, an
\* unsigned difference: huge once more is stored than the capacity.
Fits(length) == StoredByteCount > Capacity \/ length <= Capacity - StoredByteCount

\* Mutant: the end position itself is taken for a slot behind.
OffsetPastEnd(slot) ==
  IF slot > dataEndPos THEN slot - dataEndPos ELSE slot + size - dataEndPos

\* Distance of a slot from the end position, going round.
OffsetFromEnd(slot) ==
  IF slot >= dataEndPos THEN slot - dataEndPos ELSE slot + size - dataEndPos

\* The two memcpy of push, and where the end stands after them.
DataWith(bytes) ==
  [slot \in Slots |-> IF OffsetFromEnd(slot) < Len(bytes)
                      THEN bytes[OffsetFromEnd(slot) + 1] ELSE data[slot]]

EndAfter(count) ==
  IF size - dataEndPos < count THEN count - (size - dataEndPos) ELSE dataEndPos + count

Push(bytes) ==
  IF Fits(Len(bytes))
  THEN /\ data' = DataWith(bytes)
       /\ dataEndPos' = EndAfter(Len(bytes))
       /\ reply' = Pushed(Len(bytes))
       /\ UNCHANGED dataStartPos
  ELSE /\ reply' = Pushed(0)
       /\ UNCHANGED <<data, dataStartPos, dataEndPos>>

\* The slot that is i bytes into the stored data.
SlotAt(i) ==
  IF dataStartPos + i >= size THEN dataStartPos + i - size ELSE dataStartPos + i

\* Mutant: what is asked for is copied out, stored or not.
CountAsked(bytes) == bytes

\* No more than is stored is copied out.
CountAtMost(bytes) == IF bytes < StoredByteCount THEN bytes ELSE StoredByteCount

FirstBytes(count) == [i \in 1 .. count |-> data[SlotAt(i - 1)]]

\* Mutant: the start position does not go round.
StartAfterUnwrapped(count) == dataStartPos + count

StartAfter(count) ==
  IF count > size - dataStartPos THEN count - (size - dataStartPos) ELSE dataStartPos + count

\* The end of both pulls.
TakeAtMost(bytes) ==
  /\ reply' = Pulled(FirstBytes(CountAtMost(bytes)))
  /\ dataStartPos' = StartAfter(CountAtMost(bytes))
  /\ UNCHANGED <<data, dataEndPos>>

\* Pull a number of bytes, or, without a delimiter, what fits the caller's buffer.
Pull(bytes) == TakeAtMost(bytes)
PullAll == TakeAtMost(BufSize)

\* Mutant: a byte in between does not end a match.
MatchedAfterKept(count, k) ==
  IF count < Len(Delimiter) /\ data[(dataStartPos + k - 1) % size] = Delimiter[count + 1]
  THEN count + 1 ELSE count

\* The match after the k-th byte, of which count were matched before it; a byte
\* that does not match starts it anew after itself.
MatchedAfter(count, k) ==
  IF count < Len(Delimiter) /\ data[(dataStartPos + k - 1) % size] = Delimiter[count + 1]
  THEN count + 1 ELSE 0

\* How much of the delimiter is matched after each of the bytes that are looked
\* at.  They are taken from the slots in turn, stored or not, round and round.
MatchedCount ==
  LET matched[k \in 0 .. BufSize] == IF k = 0 THEN 0 ELSE MatchedAfter(matched[k - 1], k)
  IN matched

\* Mutant: the match is looked at before the size.
DelimitedCountFull ==
  LET matched == MatchedCount
      ends == {k \in 1 .. BufSize : matched[k] = Len(Delimiter)}
  IN IF StoredByteCount < Len(Delimiter) \/ ends = {} THEN 0
     ELSE CHOOSE k \in ends : \A j \in ends : k <= j

\* The bytes up to and with the delimiter, none if it is not seen to be complete;
\* after BufSize bytes the search has already been given up.
DelimitedCount ==
  LET matched == MatchedCount
      ends == {k \in 1 .. BufSize - 1 : matched[k] = Len(Delimiter)}
  IN IF StoredByteCount < Len(Delimiter) \/ ends = {} THEN 0
     ELSE CHOOSE k \in ends : \A j \in ends : k <= j

PullDelimited == TakeAtMost(DelimitedCount)

Flush ==
  /\ dataStartPos' = 0
  /\ dataEndPos' = 0
  /\ UNCHANGED <<data, reply>>

\* The calls that the program makes.
Next ==
  \/ \E bytes \in Pushes : Push(bytes)
  \/ \E count \in Pulls : Pull(count)
  \/ PullAll
  \/ PullDelimited
  \/ Flush

Spec == Init /\ [][Next]_vars

-----------------------------------------------------------------------------
(* Properties *)

\* Every variable stays within its type.
TypeOK ==
  /\ data \in [Slots -> Bytes]
  /\ dataStartPos \in 0 .. size
  /\ dataEndPos \in 0 .. size
  /\ reply \in [call : {"push"}, count : Nat] \cup [call : {"pull"}, bytes : Seq(Bytes)]

\* The bytes between the two positions.
Stored == FirstBytes(StoredByteCount)

Queue == INSTANCE ByteQueue WITH stored <- Stored

\* The program's calls see a bounded queue of bytes: nothing is lost,
\* duplicated or reordered where the data goes round the end of the memory.
ImplementsQueue == Queue!Spec

EndsWith(bytes, suffix) ==
  /\ Len(bytes) >= Len(suffix)
  /\ SubSeq(bytes, Len(bytes) - Len(suffix) + 1, Len(bytes)) = suffix

\* A delimited pull that returns anything either ends at the delimiter or has
\* drained the buffer, so what is left always starts a new message.
DelimitedOrDrained ==
  [][PullDelimited /\ reply'.bytes # <<>> =>
       EndsWith(reply'.bytes, Delimiter) \/ Stored' = <<>>]_vars
=============================================================================
