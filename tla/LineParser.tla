------------------------------- MODULE LineParser -------------------------------
(***************************************************************************)
(* ptlab.control.LineParser.feed: lines that end in a newline, in a buffer *)
(* that may end, and after an error may begin, anywhere.                    *)
(***************************************************************************)
EXTENDS Naturals, Sequences

CONSTANT MaxLine   \* maximum_line: bytes of a line, its newline not counted

ASSUME LineAssumption == MaxLine \in Nat \ {0}

\* A byte by what feed makes of it, and for the properties the line that it was
\* written for, and its place.
LineByte == [is : {"text", "cr", "binary", "newline"}, of : Nat, at : Nat]

Newlines(b) == {i \in DOMAIN b : b[i].is = "newline"}
Newline(b) == CHOOSE i \in Newlines(b) : \A j \in Newlines(b) : i <= j

\* Seeded fault: the limit itself is refused.
Fits_Strict(n) == n < MaxLine

Fits(n) == n <= MaxLine

\* Seeded fault: only a line that has ended is measured.
Overlong_Ended(b) == Newlines(b) # {} /\ ~Fits(Newline(b) - 1)

Overlong(b) == ~Fits(IF Newlines(b) # {} THEN Newline(b) - 1 ELSE Len(b))

\* A trailing carriage return belongs to the end of the line.
Stripped(raw) ==
    IF raw # <<>> /\ raw[Len(raw)].is = "cr" THEN SubSeq(raw, 1, Len(raw) - 1) ELSE raw

IsText(raw) == \A i \in DOMAIN raw : raw[i].is # "binary"

\* What feed returns, what it leaves in the buffer, and whether it raises: then
\* the lines found before are lost.  Empty lines are skipped.
FeedLines(buffer) ==
    LET Last(left) == SubSeq(buffer, Len(buffer) - left + 1, Len(buffer))
        turn[left \in 0..Len(buffer)] ==
          LET b     == Last(left)
              raw   == Stripped(SubSeq(b, 1, Newline(b) - 1))
              after == left - Newline(b)
              next  == turn[after]
              lines == IF raw = <<>> THEN <<>> ELSE <<[bytes |-> raw]>>
          IN  IF Overlong(b) THEN [found |-> <<>>, rest |-> <<>>, raised |-> TRUE]
              ELSE IF Newlines(b) = {} THEN [found |-> <<>>, rest |-> b, raised |-> FALSE]
              ELSE IF ~IsText(raw) THEN [found |-> <<>>, rest |-> Last(after), raised |-> TRUE]
              ELSE [found  |-> IF next.raised THEN <<>> ELSE lines \o next.found,
                    rest   |-> next.rest, raised |-> next.raised]
    IN  turn[Len(buffer)]

=============================================================================
