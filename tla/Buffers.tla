------------------------------ MODULE Buffers ------------------------------
(* The functions of utilities/buffers.cpp on mapped buffers, which are      *)
(* sequences of units here: separators, words and runs of digits.  Case,    *)
(* which comparisons ignore, is left out.                                   *)
EXTENDS Integers, Sequences, SequencesExt

Unit(c) == [c |-> c]
Number(n) == [c |-> "number", n |-> n]
Word(w) == <<Unit(w)>>

Spaces == {"space", "tab", "cr", "lf"}

\* The longest pieces of a buffer without a unit that delimits.
Pieces(buffer, Delimits(_)) ==
  LET places == [i \in DOMAIN buffer |-> i]
      Inside(i) == i \in DOMAIN buffer /\ ~Delimits(buffer[i].c)
      starts == SelectSeq(places, LAMBDA i : Inside(i) /\ ~Inside(i - 1))
      ends == SelectSeq(places, LAMBDA i : Inside(i) /\ ~Inside(i + 1))
  IN [k \in DOMAIN starts |-> SubSeq(buffer, starts[k], ends[k])]

\* buffer_split_lines: empty lines are left out.
SplitLines(buffer) == Pieces(buffer, LAMBDA c : c \in {"cr", "lf"})

\* buffer_split: a NUL delimits too, and empty pieces are left out.
Split(buffer, delimiter) == Pieces(buffer, LAMBDA c : c \in {delimiter, "nul"})

\* buffer_split_on_first: always two parts.
SplitOnFirst(buffer, delimiter) ==
  IF Unit(delimiter) \notin Range(buffer) THEN <<buffer, <<>>>>
  ELSE LET i == CHOOSE j \in DOMAIN buffer :
                  buffer[j].c = delimiter /\ Unit(delimiter) \notin Range(SubSeq(buffer, 1, j - 1))
       IN <<SubSeq(buffer, 1, i - 1), SubSeq(buffer, i + 1, Len(buffer))>>

\* buffer_trim, which the program calls for spaces only.
Trim(buffer) ==
  LET kept == {i \in DOMAIN buffer : buffer[i].c \notin Spaces}
  IN IF kept = {} THEN <<>> ELSE
     SubSeq(buffer, CHOOSE i \in kept : \A j \in kept : i <= j,
                    CHOOSE i \in kept : \A j \in kept : j <= i)

BufferEquals(buffer, value) == buffer = value

\* Nothing starts or ends with an empty value, and everything contains it.
BufferStartsWith(buffer, value) == value # <<>> /\ IsPrefix(value, buffer)
BufferEndsWith(buffer, value) == value # <<>> /\ IsSuffix(value, buffer)
BufferContains(buffer, value) ==
  \E i \in 1 .. Len(buffer) - Len(value) + 1 : SubSeq(buffer, i, i + Len(value) - 1) = value

\* strtol and strtoul: spaces are passed over, and what is no number is 0.  They do
\* not stop at the end of the buffer; a separator follows it.
ToLong(buffer) ==
  LET rest == SelectSeq(buffer, LAMBDA u : u.c \notin Spaces)
  IN IF rest # <<>> /\ rest[1].c = "number" THEN rest[1].n ELSE 0
=============================================================================
