------------------------ MODULE MessageBufferProofs -------------------------
(* Theorems about MessageBuffer, for every capacity, every delimiter and     *)
(* every size of the caller's buffer.                                        *)
EXTENDS MessageBuffer, DataLemmas

(* The invariant.  TypeOK alone is not inductive: it allows the start at the *)
(* first slot and the end behind the last one, where more is stored than the *)
(* capacity and any push fits.                                               *)

BufferInv ==
  /\ TypeOK
  /\ StoredByteCount <= Capacity

-----------------------------------------------------------------------------
(* Positions *)

LEMMA PositionsType ==
  ASSUME BufferInv
  PROVE  /\ Capacity \in Nat \ {0} /\ size \in Nat \ {0}
         /\ dataStartPos \in 0 .. size /\ dataEndPos \in 0 .. size
         /\ StoredByteCount \in 0 .. Capacity
BY CapacityAssumption DEF BufferInv, TypeOK, StoredByteCount, size

\* What is stored lies in slots of its own, and the end follows them.
LEMMA SlotPlaces ==
  ASSUME BufferInv, NEW i \in 0 .. StoredByteCount - 1
  PROVE  /\ SlotAt(i) \in Slots
         /\ OffsetFromEnd(SlotAt(i)) = size - StoredByteCount + i
BY PositionsType DEF StoredByteCount, SlotAt, OffsetFromEnd, Slots, size

\* The slots behind what is stored, counted from its start, are those that a push fills.
LEMMA SlotsBehind ==
  ASSUME BufferInv, NEW i \in StoredByteCount .. Capacity
  PROVE  /\ SlotAt(i) \in Slots
         /\ OffsetFromEnd(SlotAt(i)) = i - StoredByteCount
BY PositionsType DEF StoredByteCount, SlotAt, OffsetFromEnd, Slots, size

StoredFits ==
  /\ Stored \in Seq(Bytes)
  /\ Len(Stored) = StoredByteCount
  /\ \A i \in 1 .. StoredByteCount : Stored[i] = data[SlotAt(i - 1)]

LEMMA StoredElements == BufferInv => StoredFits
<1> SUFFICES ASSUME BufferInv PROVE StoredFits
  OBVIOUS
<1>1. StoredByteCount \in Nat
  BY PositionsType
<1>2. \A i \in 1 .. StoredByteCount : data[SlotAt(i - 1)] \in Bytes
  <2>1. data \in [Slots -> Bytes]
    BY DEF BufferInv, TypeOK
  <2> SUFFICES ASSUME NEW i \in 1 .. StoredByteCount PROVE data[SlotAt(i - 1)] \in Bytes
    OBVIOUS
  <2>2. i - 1 \in 0 .. StoredByteCount - 1
    BY <1>1
  <2> QED
    BY <2>1, <2>2, SlotPlaces
<1>3. Stored = [i \in 1 .. StoredByteCount |-> data[SlotAt(i - 1)]]
  BY DEF Stored, FirstBytes
<1> QED
  BY <1>1, <1>2, <1>3 DEF StoredFits

-----------------------------------------------------------------------------
(* A push *)

LEMMA PushPositions ==
  ASSUME BufferInv, NEW c \in Nat, c <= Capacity - StoredByteCount,
         dataStartPos' = dataStartPos, dataEndPos' = EndAfter(c)
  PROVE  /\ dataEndPos' \in 0 .. size
         /\ StoredByteCount' = StoredByteCount + c
         /\ \A i \in 0 .. Capacity : SlotAt(i)' = SlotAt(i)
BY PositionsType DEF StoredByteCount, EndAfter, SlotAt, size

LEMMA PushKeeps ==
  ASSUME BufferInv, NEW bytes \in Seq(Bytes), Push(bytes)
  PROVE  /\ BufferInv'
         /\ IF Len(bytes) <= Capacity - Len(Stored)
            THEN Stored' = Stored \o bytes /\ reply' = Pushed(Len(bytes))
            ELSE UNCHANGED Stored /\ reply' = Pushed(0)
<1>1. Len(bytes) \in Nat /\ Len(Stored) = StoredByteCount /\ StoredByteCount \in 0 .. Capacity
  BY StoredElements, PositionsType DEF StoredFits
<1>2. Capacity \in Nat /\ Pushed(0) \in [call : {"push"}, count : Nat]
  BY CapacityAssumption DEF Pushed
<1>3. Fits(Len(bytes)) <=> Len(bytes) <= Capacity - StoredByteCount
  BY <1>1, <1>2 DEF Fits
<1>4. CASE ~ Fits(Len(bytes))
  <2>1. reply' = Pushed(0) /\ UNCHANGED <<data, dataStartPos, dataEndPos>>
    BY <1>4 DEF Push
  <2>2. UNCHANGED <<Stored, StoredByteCount>>
    BY <2>1 DEF Stored, StoredByteCount, FirstBytes, SlotAt
  <2> QED
    BY <1>1, <1>2, <1>3, <1>4, <2>1, <2>2 DEF BufferInv, TypeOK
<1>5. CASE Fits(Len(bytes))
  <2> DEFINE c == Len(bytes)
  <2>1. /\ data' = DataWith(bytes) /\ dataEndPos' = EndAfter(c)
        /\ reply' = Pushed(c) /\ dataStartPos' = dataStartPos
    BY <1>5 DEF Push
  <2>2. c \in Nat /\ c <= Capacity - StoredByteCount
    BY <1>1, <1>3, <1>5
  <2>3. /\ dataEndPos' \in 0 .. size
        /\ StoredByteCount' = StoredByteCount + c
        /\ \A i \in 0 .. Capacity : SlotAt(i)' = SlotAt(i)
    <3> HIDE DEF c
    <3> QED
      BY <2>1, <2>2, PushPositions
  <2>4. BufferInv'
    <3>1. data' \in [Slots -> Bytes]
      <4>1. \A slot \in Slots : OffsetFromEnd(slot) \in Nat
        BY PositionsType DEF OffsetFromEnd, Slots, size
      <4>2. \A n \in Nat : n < Len(bytes) => bytes[n + 1] \in Bytes
        OBVIOUS
      <4>3. data \in [Slots -> Bytes]
        BY DEF BufferInv, TypeOK
      <4> QED
        BY <2>1, <4>1, <4>2, <4>3 DEF DataWith
    <3>2. reply' \in [call : {"push"}, count : Nat]
      BY <2>1, <2>2 DEF Pushed
    <3>3. StoredByteCount' <= Capacity
      BY <1>1, <1>2, <2>2, <2>3
    <3> QED
      BY <2>1, <2>3, <3>1, <3>2, <3>3 DEF BufferInv, TypeOK
  <2>5. Stored' = Stored \o bytes
    <3>1. StoredFits /\ StoredFits'
      BY <2>4, StoredElements, PTL
    <3>2. /\ Stored \in Seq(Bytes) /\ Stored' \in Seq(Bytes) /\ Stored \o bytes \in Seq(Bytes)
          /\ Len(Stored \o bytes) = StoredByteCount + c
          /\ Len(Stored') = StoredByteCount + c
      BY <2>3, <3>1, ConcatProperties DEF StoredFits
    <3>3. ASSUME NEW i \in 1 .. StoredByteCount + c
          PROVE  Stored'[i] = (Stored \o bytes)[i]
      <4>1. i - 1 \in 0 .. Capacity
        BY <1>1, <1>2, <2>2
      <4>2. Stored'[i] = data'[SlotAt(i - 1)]
        BY <2>3, <3>1, <4>1 DEF StoredFits
      <4>3. CASE i <= StoredByteCount
        <5>1. i - 1 \in 0 .. StoredByteCount - 1 /\ i \in 1 .. StoredByteCount
          BY <1>1, <4>3
        <5>2. /\ SlotAt(i - 1) \in Slots
              /\ OffsetFromEnd(SlotAt(i - 1)) = size - StoredByteCount + (i - 1)
          BY <5>1, SlotPlaces
        <5>3. ~ (OffsetFromEnd(SlotAt(i - 1)) < Len(bytes))
          BY <1>1, <1>2, <2>2, <5>1, <5>2 DEF size
        <5>4. data'[SlotAt(i - 1)] = data[SlotAt(i - 1)]
          BY <2>1, <5>2, <5>3 DEF DataWith
        <5>5. (Stored \o bytes)[i] = Stored[i] /\ Stored[i] = data[SlotAt(i - 1)]
          BY <1>1, <3>1, <5>1, ConcatProperties DEF StoredFits
        <5> QED
          BY <4>2, <5>4, <5>5
      <4>4. CASE ~ (i <= StoredByteCount)
        <5>1. i - 1 \in StoredByteCount .. Capacity
          BY <1>1, <4>1, <4>4
        <5>2. /\ SlotAt(i - 1) \in Slots
              /\ OffsetFromEnd(SlotAt(i - 1)) = (i - 1) - StoredByteCount
          BY <5>1, SlotsBehind
        <5>3. (i - 1) - StoredByteCount < Len(bytes) /\ (i - 1) - StoredByteCount + 1 = i - StoredByteCount
          BY <1>1, <2>2
        <5>4. data'[SlotAt(i - 1)] = bytes[i - StoredByteCount]
          BY <2>1, <5>2, <5>3 DEF DataWith
        <5>5. (Stored \o bytes)[i] = bytes[i - StoredByteCount]
          BY <1>1, <3>1, <4>4, ConcatProperties DEF StoredFits
        <5> QED
          BY <4>2, <5>4, <5>5
      <4> QED
        BY <4>3, <4>4
    <3> QED
      BY <3>2, <3>3, SeqEqual
  <2> QED
    BY <1>1, <1>3, <1>5, <2>1, <2>4, <2>5
<1> QED
  BY <1>4, <1>5

-----------------------------------------------------------------------------
(* Pulls *)

LEMMA PullPositions ==
  ASSUME BufferInv, NEW c \in 0 .. StoredByteCount,
         dataStartPos' = StartAfter(c), dataEndPos' = dataEndPos
  PROVE  /\ dataStartPos' \in 0 .. size
         /\ StoredByteCount' = StoredByteCount - c
         /\ \A i \in 0 .. StoredByteCount - c - 1 : SlotAt(i)' = SlotAt(c + i)
BY PositionsType DEF StoredByteCount, StartAfter, SlotAt, size

\* What a pull of any number returns, and what it leaves.
LEMMA PullKeeps ==
  ASSUME BufferInv, NEW bytes \in Nat, TakeAtMost(bytes)
  PROVE  /\ BufferInv'
         /\ CountAtMost(bytes) \in 0 .. StoredByteCount
         /\ reply' = Pulled(SubSeq(Stored, 1, CountAtMost(bytes)))
         /\ Stored' = SubSeq(Stored, CountAtMost(bytes) + 1, Len(Stored))
<1> DEFINE c == CountAtMost(bytes)
<1>1. StoredFits /\ Len(Stored) = StoredByteCount /\ StoredByteCount \in 0 .. Capacity
  BY StoredElements, PositionsType DEF StoredFits
<1>2. c \in 0 .. StoredByteCount /\ Capacity \in Nat
  BY <1>1, CapacityAssumption DEF CountAtMost
<1>3. /\ reply' = Pulled(FirstBytes(c))
      /\ dataStartPos' = StartAfter(c) /\ data' = data /\ dataEndPos' = dataEndPos
  BY DEF TakeAtMost
<1> HIDE DEF c
<1>4. /\ dataStartPos' \in 0 .. size
      /\ StoredByteCount' = StoredByteCount - c
      /\ \A i \in 0 .. StoredByteCount - c - 1 : SlotAt(i)' = SlotAt(c + i)
  BY <1>2, <1>3, PullPositions
<1>5. FirstBytes(c) = SubSeq(Stored, 1, c)
  <2>1. /\ SubSeq(Stored, 1, c) \in Seq(Bytes) /\ Len(SubSeq(Stored, 1, c)) = c
        /\ \A i \in 1 .. c : SubSeq(Stored, 1, c)[i] = Stored[i]
    BY <1>1, <1>2, FrontElements DEF StoredFits
  <2>2. \A i \in 1 .. c : Stored[i] = data[SlotAt(i - 1)] /\ Stored[i] \in Bytes
    BY <1>1, <1>2 DEF StoredFits
  <2>3. FirstBytes(c) = [i \in 1 .. c |-> data[SlotAt(i - 1)]]
    BY DEF FirstBytes
  <2>4. /\ FirstBytes(c) \in Seq(Bytes) /\ Len(FirstBytes(c)) = c
        /\ \A i \in 1 .. c : FirstBytes(c)[i] = data[SlotAt(i - 1)]
    <3>1. FirstBytes(c) \in [1 .. c -> Bytes]
      BY <2>2, <2>3
    <3>2. c \in Nat
      BY <1>1, <1>2
    <3>3. \A i \in 1 .. c : FirstBytes(c)[i] = data[SlotAt(i - 1)]
      BY <2>3
    <3> QED
      BY <3>1, <3>2, <3>3, FunctionIsSeq
  <2> QED
    BY <2>1, <2>2, <2>4, SeqEqual
<1>6. SubSeq(Stored, 1, c) \in Seq(Bytes)
  BY <1>1, <1>2 DEF StoredFits
<1>7. BufferInv'
  <2>1. reply' \in [call : {"pull"}, bytes : Seq(Bytes)]
    BY <1>3, <1>5, <1>6 DEF Pulled
  <2>2. StoredByteCount' <= Capacity
    BY <1>1, <1>2, <1>4
  <2> QED
    BY <1>3, <1>4, <2>1, <2>2 DEF BufferInv, TypeOK
<1>8. Stored' = SubSeq(Stored, c + 1, Len(Stored))
  <2>1. StoredFits'
    BY <1>7, StoredElements, PTL
  <2>2. /\ SubSeq(Stored, c + 1, Len(Stored)) \in Seq(Bytes)
        /\ Len(SubSeq(Stored, c + 1, Len(Stored))) = StoredByteCount - c
        /\ \A i \in 1 .. StoredByteCount - c :
             SubSeq(Stored, c + 1, Len(Stored))[i] = Stored[c + i]
    BY <1>1, <1>2, TailElements DEF StoredFits
  <2>3. Stored' \in Seq(Bytes) /\ Len(Stored') = StoredByteCount - c
    BY <1>4, <2>1 DEF StoredFits
  <2>4. ASSUME NEW i \in 1 .. StoredByteCount - c
        PROVE  Stored'[i] = Stored[c + i]
    <3>1. /\ i - 1 \in 0 .. StoredByteCount - c - 1 /\ c + i \in 1 .. StoredByteCount
          /\ c + (i - 1) = (c + i) - 1
      BY <1>1, <1>2
    <3>2. Stored'[i] = data'[SlotAt(i - 1)']
      BY <1>4, <2>1 DEF StoredFits
    <3>3. SlotAt(i - 1)' = SlotAt((c + i) - 1)
      BY <1>4, <3>1
    <3>4. Stored[c + i] = data[SlotAt((c + i) - 1)]
      BY <1>1, <3>1 DEF StoredFits
    <3> QED
      BY <1>3, <3>2, <3>3, <3>4
  <2> QED
    BY <2>2, <2>3, <2>4, SeqEqual
<1> QED
  BY <1>2, <1>3, <1>5, <1>7, <1>8 DEF c

-----------------------------------------------------------------------------
(* The search for the delimiter *)

\* The search takes the bytes in turn.
LEMMA MatchedSteps ==
  ASSUME BufferInv
  PROVE  /\ MatchedCount[0] = 0
         /\ \A k \in 1 .. BufSize : MatchedCount[k] = MatchedAfter(MatchedCount[k - 1], k)
<1> DEFINE F == [x \in Nat \X (Nat \ {0}) |-> MatchedAfter(x[1], x[2])]
           Equation(g) == g = [k \in 0 .. BufSize |-> IF k = 0 THEN 0 ELSE MatchedAfter(g[k - 1], k)]
<1>1. BufSize \in Nat
  BY PullsAssumption
<1>2. F \in [Nat \X (Nat \ {0}) -> Nat]
  BY DEF MatchedAfter
<1>3. PICK g \in [0 .. BufSize -> Nat] :
        g[0] = 0 /\ \A k \in 1 .. BufSize : g[k] = F[<<g[k - 1], k>>]
  <2>1. 0 \in Nat
    OBVIOUS
  <2> HIDE DEF F
  <2>2. \E g \in [0 .. BufSize -> Nat] : Computes(g, 0, F, BufSize)
    BY <1>1, <1>2, <2>1, RecursionExists, Zenon
  <2> QED
    BY <2>2 DEF Computes
<1>4. ASSUME NEW k \in 0 .. BufSize
      PROVE  g[k] = IF k = 0 THEN 0 ELSE MatchedAfter(g[k - 1], k)
  <2>1. CASE k = 0
    BY <1>3, <2>1
  <2>2. CASE k # 0
    <3>1. k \in 1 .. BufSize /\ k - 1 \in 0 .. BufSize /\ k \in Nat \ {0}
      BY <1>1, <2>2
    <3>2. g[k - 1] \in Nat
      BY <1>3, <3>1
    <3>3. F[<<g[k - 1], k>>] = MatchedAfter(g[k - 1], k)
      BY <3>1, <3>2
    <3> QED
      BY <1>3, <2>2, <3>1, <3>3
  <2> QED
    BY <2>1, <2>2
<1> HIDE DEF F
<1>5. Equation(g)
  BY <1>3, <1>4
<1>6. Equation(MatchedCount)
  <2>1. MatchedCount = CHOOSE f : Equation(f)
    BY DEF MatchedCount
  <2> HIDE DEF Equation
  <2> QED
    BY <1>5, <2>1
<1> QED
  BY <1>1, <1>6

\* What is matched after n bytes: the last of them are a prefix of the delimiter.
Matches(n) ==
  /\ MatchedCount[n] \in 0 .. n
  /\ MatchedCount[n] <= Len(Delimiter)
  /\ \A i \in 1 .. MatchedCount[n] :
       data[(dataStartPos + (n - MatchedCount[n] + i - 1)) % size] = Delimiter[i]

LEMMA SearchMatches ==
  ASSUME BufferInv, NEW n \in 0 .. BufSize
  PROVE  Matches(n)
<1> DEFINE T == {k \in Nat : k <= BufSize => Matches(k)}
<1>1. BufSize \in Nat /\ Len(Delimiter) \in Nat
  BY PullsAssumption, DelimiterAssumption
<1>2. 0 \in T
  BY <1>1, MatchedSteps DEF Matches
<1>3. ASSUME NEW k \in T, k + 1 <= BufSize PROVE Matches(k + 1)
  <2> DEFINE m == MatchedCount[k]
  <2>1. k \in Nat /\ k <= BufSize /\ Matches(k)
    BY <1>1, <1>3
  <2>2. MatchedCount[k + 1] = MatchedAfter(m, k + 1)
    <3>1. k + 1 \in 1 .. BufSize /\ (k + 1) - 1 = k
      BY <1>1, <1>3, <2>1
    <3> QED
      BY <3>1, MatchedSteps
  <2>3. /\ m \in 0 .. k /\ m <= Len(Delimiter)
        /\ \A i \in 1 .. m : data[(dataStartPos + (k - m + i - 1)) % size] = Delimiter[i]
    BY <2>1 DEF Matches
  <2> HIDE DEF m
  <2>4. CASE m < Len(Delimiter) /\ data[(dataStartPos + (k + 1) - 1) % size] = Delimiter[m + 1]
    <3>1. MatchedCount[k + 1] = m + 1
      BY <2>2, <2>4 DEF MatchedAfter
    <3>2. m + 1 \in 0 .. k + 1 /\ m + 1 <= Len(Delimiter)
      BY <1>1, <2>1, <2>3, <2>4
    <3>3. ASSUME NEW i \in 1 .. m + 1
          PROVE  data[(dataStartPos + ((k + 1) - (m + 1) + i - 1)) % size] = Delimiter[i]
      <4>1. (k + 1) - (m + 1) + i - 1 = k - m + i - 1
        BY <2>1, <2>3
      <4>2. CASE i \in 1 .. m
        BY <2>3, <4>1, <4>2
      <4>3. CASE i = m + 1
        <5>1. k - m + i - 1 = k
          BY <2>1, <2>3, <4>3
        <5>2. dataStartPos + k = dataStartPos + (k + 1) - 1
          BY <2>1, PositionsType
        <5> QED
          BY <2>4, <4>1, <4>3, <5>1, <5>2
      <4> QED
        BY <2>3, <4>2, <4>3
    <3> QED
      BY <3>1, <3>2, <3>3 DEF Matches
  <2>5. CASE ~ (m < Len(Delimiter) /\ data[(dataStartPos + (k + 1) - 1) % size] = Delimiter[m + 1])
    <3>1. MatchedCount[k + 1] = 0
      BY <2>2, <2>5 DEF MatchedAfter
    <3> QED
      BY <1>1, <2>1, <3>1 DEF Matches
  <2> QED
    BY <2>4, <2>5
<1>4. \A k \in Nat : k \in T
  <2>1. ASSUME NEW k \in T PROVE k + 1 \in T
    BY <1>3
  <2>2. T \subseteq Nat
    OBVIOUS
  <2> HIDE DEF T
  <2> QED
    BY <1>2, <2>1, <2>2, SetInduction
<1> QED
  BY <1>1, <1>4

\* The count is of bytes the last of which complete a match.
LEMMA DelimitedCountType ==
  ASSUME BufferInv
  PROVE  \/ DelimitedCount = 0
         \/ DelimitedCount \in 1 .. BufSize - 1 /\ MatchedCount[DelimitedCount] = Len(Delimiter)
<1> DEFINE ends == {k \in 1 .. BufSize - 1 : MatchedCount[k] = Len(Delimiter)}
<1>1. CASE StoredByteCount < Len(Delimiter) \/ ends = {}
  BY <1>1 DEF DelimitedCount
<1>2. CASE ~ (StoredByteCount < Len(Delimiter) \/ ends = {})
  <2>1. DelimitedCount = CHOOSE k \in ends : \A j \in ends : k <= j
    BY <1>2 DEF DelimitedCount
  <2>2. ends \subseteq Nat
    BY PullsAssumption
  <2>3. DelimitedCount \in ends
    <3> HIDE DEF ends
    <3>1. \E k \in ends : \A j \in ends : k <= j
      BY <1>2, <2>2, LeastExists
    <3> QED
      BY <2>1, <3>1
  <2> QED
    BY <2>3
<1> QED
  BY <1>1, <1>2

LEMMA SlotIsRemainder ==
  ASSUME BufferInv, NEW i \in 0 .. StoredByteCount - 1
  PROVE  SlotAt(i) = (dataStartPos + i) % size
<1>1. /\ size \in Nat \ {0} /\ Capacity = size - 1 /\ dataStartPos \in 0 .. size
      /\ StoredByteCount \in 0 .. Capacity
  BY PositionsType DEF size
<1>2. CASE dataStartPos + i >= size
  <2>1. dataStartPos + i \in size .. 2 * size - 1
    BY <1>1, <1>2
  <2> QED
    BY <1>1, <1>2, <2>1, ModRound DEF SlotAt
<1>3. CASE ~ (dataStartPos + i >= size)
  <2>1. dataStartPos + i \in 0 .. size - 1
    BY <1>1, <1>3
  <2> QED
    BY <1>1, <1>3, <2>1, ModOfSmall DEF SlotAt
<1> QED
  BY <1>2, <1>3

\* A delimited pull ends with the delimiter, or nothing is left behind it.
LEMMA DelimitedPull ==
  ASSUME BufferInv, PullDelimited, reply'.bytes # <<>>
  PROVE  EndsWith(reply'.bytes, Delimiter) \/ Stored' = <<>>
<1> DEFINE c == CountAtMost(DelimitedCount)
           b == SubSeq(Stored, 1, c)
           l == Len(Delimiter)
<1>1. /\ StoredByteCount \in Nat /\ BufSize \in Nat /\ l \in Nat
      /\ Delimiter \in Seq(Bytes) /\ DelimitedCount \in Nat
  BY PositionsType, PullsAssumption, DelimiterAssumption, DelimitedCountType
<1>2. /\ c \in 0 .. StoredByteCount /\ reply' = Pulled(b)
      /\ Stored' = SubSeq(Stored, c + 1, Len(Stored))
  BY <1>1, PullKeeps DEF PullDelimited
<1>3. StoredFits
  BY StoredElements
<1>4. b \in Seq(Bytes) /\ Len(b) = c /\ \A i \in 1 .. c : b[i] = Stored[i]
  BY <1>2, <1>3, FrontElements DEF StoredFits
<1>5. reply'.bytes = b
  BY <1>2 DEF Pulled
<1>6. c # 0
  <2>1. ASSUME c = 0 PROVE FALSE
    BY <1>4, <1>5, <2>1, EmptySeq
  <2> QED
    BY <2>1
<1>7. CASE StoredByteCount <= DelimitedCount
  <2>1. c = StoredByteCount
    BY <1>1, <1>7 DEF CountAtMost
  <2> QED
    BY <1>1, <1>2, <1>3, <2>1 DEF StoredFits
<1>8. CASE DelimitedCount < StoredByteCount
  <2>1. c = DelimitedCount
    BY <1>1, <1>8 DEF CountAtMost
  <2> HIDE DEF c, b
  <2>2. c \in 1 .. BufSize - 1 /\ MatchedCount[c] = l /\ c \in 0 .. BufSize
    BY <1>1, <1>6, <2>1, DelimitedCountType
  <2>3. /\ l <= c
        /\ \A i \in 1 .. l : data[(dataStartPos + (c - l + i - 1)) % size] = Delimiter[i]
    <3>1. Matches(c)
      BY <2>2, SearchMatches
    <3> QED
      BY <1>1, <2>2, <3>1 DEF Matches
  <2>4. /\ SubSeq(b, (c - l) + 1, Len(b)) \in Seq(Bytes)
        /\ Len(SubSeq(b, (c - l) + 1, Len(b))) = l
        /\ \A i \in 1 .. l : SubSeq(b, (c - l) + 1, Len(b))[i] = b[(c - l) + i]
    <3>1. c - l \in 0 .. Len(b) /\ Len(b) - (c - l) = l
      BY <1>1, <1>4, <2>2, <2>3
    <3> HIDE DEF l
    <3> QED
      BY <1>4, <3>1, TailElements
  <2>5. ASSUME NEW i \in 1 .. l
        PROVE  b[(c - l) + i] = Delimiter[i]
    <3>1. /\ (c - l) + i \in 1 .. c /\ (c - l) + i \in 1 .. StoredByteCount
          /\ (c - l) + i - 1 \in 0 .. StoredByteCount - 1 /\ (c - l) + i - 1 = c - l + i - 1
      BY <1>1, <1>2, <2>2, <2>3
    <3>2. b[(c - l) + i] = data[SlotAt((c - l) + i - 1)]
      BY <1>3, <1>4, <3>1 DEF StoredFits
    <3>3. SlotAt((c - l) + i - 1) = (dataStartPos + ((c - l) + i - 1)) % size
      BY <3>1, SlotIsRemainder
    <3> QED
      BY <2>3, <3>1, <3>2, <3>3
  <2>6. SubSeq(b, (c - l) + 1, Len(b)) = Delimiter
    BY <1>1, <2>4, <2>5, SeqEqual
  <2>7. Len(b) - Len(Delimiter) + 1 = (c - l) + 1
    BY <1>1, <1>4, <2>2
  <2> QED
    BY <1>4, <1>5, <2>3, <2>6, <2>7 DEF EndsWith
<1> QED
  BY <1>1, <1>7, <1>8

-----------------------------------------------------------------------------
(* The specification *)

LEMMA NothingStored ==
  ASSUME BufferInv, StoredByteCount = 0
  PROVE  Stored = <<>>
<1>1. Stored \in Seq(Bytes) /\ Len(Stored) = 0
  BY StoredElements DEF StoredFits
<1> QED
  BY <1>1, EmptySeq

LEMMA InitEstablishes == Init => BufferInv /\ Queue!Init
<1> SUFFICES ASSUME Init PROVE BufferInv /\ Queue!Init
  OBVIOUS
<1>1. size \in Nat \ {0}
  BY CapacityAssumption DEF size
<1>2. StoredByteCount = 0 /\ reply = Pulled(<<>>)
  BY DEF Init, StoredByteCount
<1>3. reply \in [call : {"pull"}, bytes : Seq(Bytes)]
  BY <1>2, EmptySeq DEF Pulled
<1>4. BufferInv
  BY <1>1, <1>2, <1>3, CapacityAssumption DEF Init, BufferInv, TypeOK
<1> QED
  BY <1>2, <1>4, NothingStored DEF Queue!Init, Pulled, Queue!Pulled

\* A pull, of however many bytes, is a pull of the queue.
LEMMA PullIsPull ==
  ASSUME BufferInv, NEW bytes \in Nat, TakeAtMost(bytes)
  PROVE  BufferInv' /\ Queue!Next
<1> DEFINE count == CountAtMost(bytes)
<1>1. /\ BufferInv' /\ count \in 0 .. StoredByteCount
      /\ reply' = Pulled(SubSeq(Stored, 1, count))
      /\ Stored' = SubSeq(Stored, count + 1, Len(Stored))
  BY PullKeeps
<1>2. Len(Stored) = StoredByteCount
  BY StoredElements DEF StoredFits
<1> HIDE DEF count
<1>3. Queue!Pull
  BY <1>1, <1>2 DEF Queue!Pull, Pulled, Queue!Pulled
<1> QED
  BY <1>1, <1>3 DEF Queue!Next

\* Every step is a step of the queue, or none.
LEMMA StepKeeps ==
  BufferInv /\ [Next]_vars => BufferInv' /\ [Queue!Next]_Queue!vars
<1> SUFFICES ASSUME BufferInv, [Next]_vars
             PROVE  BufferInv' /\ [Queue!Next]_Queue!vars
  OBVIOUS
<1>1. ASSUME NEW bytes \in Pushes, Push(bytes) PROVE BufferInv' /\ Queue!Next
  <2>1. bytes \in Seq(Bytes)
    BY PushesAssumption
  <2>2. BufferInv'
    BY <1>1, <2>1, PushKeeps
  <2>3. Queue!Push(bytes)
    BY <1>1, <2>1, PushKeeps DEF Queue!Push, Pushed, Queue!Pushed
  <2> QED
    BY <2>2, <2>3 DEF Queue!Next
<1>2. ASSUME NEW count \in Pulls, Pull(count) PROVE BufferInv' /\ Queue!Next
  BY <1>2, PullsAssumption, PullIsPull DEF Pull
<1>3. ASSUME PullAll PROVE BufferInv' /\ Queue!Next
  BY <1>3, PullsAssumption, PullIsPull DEF PullAll
<1>4. ASSUME PullDelimited PROVE BufferInv' /\ Queue!Next
  <2>1. DelimitedCount \in Nat
    BY DelimitedCountType, PullsAssumption
  <2> QED
    BY <1>4, <2>1, PullIsPull DEF PullDelimited
<1>5. ASSUME Flush PROVE BufferInv' /\ Queue!Next
  <2>1. size \in Nat \ {0} /\ Capacity \in Nat
    BY CapacityAssumption DEF size
  <2>2. StoredByteCount' = 0
    BY <1>5 DEF Flush, StoredByteCount
  <2>3. BufferInv'
    BY <1>5, <2>1, <2>2 DEF Flush, BufferInv, TypeOK
  <2>4. Stored' = <<>>
    <3>1. StoredFits'
      BY <2>3, StoredElements, PTL
    <3>2. Stored' \in Seq(Bytes) /\ Len(Stored') = 0
      BY <2>2, <3>1 DEF StoredFits
    <3> QED
      BY <3>2, EmptySeq
  <2>5. Queue!Flush
    BY <1>5, <2>4 DEF Flush, Queue!Flush
  <2> QED
    BY <2>3, <2>5 DEF Queue!Next
<1>6. ASSUME UNCHANGED vars PROVE BufferInv' /\ UNCHANGED Queue!vars
  BY <1>6 DEF vars, BufferInv, TypeOK, StoredByteCount, Queue!vars, Stored, FirstBytes, SlotAt
<1> QED
  BY <1>1, <1>2, <1>3, <1>4, <1>5, <1>6 DEF Next

LEMMA BufferInvariance == Spec => []BufferInv
<1>1. Init => BufferInv
  BY InitEstablishes
<1>2. BufferInv /\ [Next]_vars => BufferInv'
  BY StepKeeps
<1> QED
  BY <1>1, <1>2, PTL DEF Spec

\* Every variable stays within its type; above all, the two positions stay where
\* the two memcpy of push and pull remain within the memory.
THEOREM BufferTypeCorrect == Spec => []TypeOK
<1>1. BufferInv => TypeOK
  BY DEF BufferInv
<1> QED
  BY <1>1, BufferInvariance, PTL

\* The ring implements the bounded queue that MessageBuffer.h promises: push and
\* the pulls, with the two halves they copy where the data goes round, lose,
\* repeat and reorder nothing, and a push that does not fit is rejected whole.
THEOREM BufferIsQueue == Spec => ImplementsQueue
<1>1. Init => Queue!Init
  BY InitEstablishes
<1>2. BufferInv /\ [Next]_vars => [Queue!Next]_Queue!vars
  BY StepKeeps
<1> QED
  BY <1>1, <1>2, BufferInvariance, PTL DEF Spec, ImplementsQueue, Queue!Spec

\* A delimited pull that returns anything ends at the delimiter or drains the
\* buffer, although pull looks for the delimiter in slots that hold old bytes, and
\* one that goes round and round.
THEOREM DelimitedPulls == Spec => DelimitedOrDrained
<1>1. BufferInv /\ [Next]_vars =>
        [PullDelimited /\ reply'.bytes # <<>> =>
           EndsWith(reply'.bytes, Delimiter) \/ Stored' = <<>>]_vars
  BY DelimitedPull
<1> QED
  BY <1>1, BufferInvariance, PTL DEF Spec, DelimitedOrDrained
=============================================================================
