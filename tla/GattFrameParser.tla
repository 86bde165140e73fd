----------------------------- MODULE GattFrameParser -----------------------------
(***************************************************************************)
(* ptlab.gatt.GattFrameParser.feed: responses (a status and two bytes of   *)
(* size) and notifications (0xF0, the characteristic, two bytes of size) in *)
(* a buffer that may end, and after an error may begin, anywhere.           *)
(***************************************************************************)
EXTENDS Naturals, Sequences

CONSTANT MaxPayload   \* maximum_payload

ASSUME PayloadAssumption == MaxPayload \in Nat

Byte == 0..255

\* A byte, and for the properties the frame that it was written for, and its place.
GattByte == [is : Byte, of : Nat, at : Nat]

Marker == 240

NotifiesAt(b) == b[1].is = Marker
HeaderSize(b) == IF NotifiesAt(b) THEN 4 ELSE 3
PayloadSize(b) == b[HeaderSize(b) - 1].is + 256 * b[HeaderSize(b)].is

TooLarge(size) == size > MaxPayload

\* Seeded fault: one frame per call.
More_Once(left) == FALSE

\* while self._buffer
More(left) == left > 0

Stops(b) == [found |-> <<>>, rest |-> b, raised |-> FALSE]

\* What feed returns, what it leaves in the buffer, and whether it raises: then
\* the buffer is cleared and the frames found before are lost.
FeedFrames(buffer) ==
    LET Last(left) == SubSeq(buffer, Len(buffer) - left + 1, Len(buffer))
        turn[left \in 0..Len(buffer)] ==
          LET b     == Last(left)
              total == HeaderSize(b) + PayloadSize(b)
              after == left - total
              next  == IF More(after) THEN turn[after] ELSE Stops(Last(after))
              frame == [notifies |-> NotifiesAt(b), characteristic |-> b[2].is,
                        bytes |-> SubSeq(b, 1, total)]
          IN  IF left < HeaderSize(b) THEN Stops(b)
              ELSE IF TooLarge(PayloadSize(b))
                   THEN [found |-> <<>>, rest |-> <<>>, raised |-> TRUE]
              ELSE IF left < total THEN Stops(b)
              ELSE [found  |-> IF next.raised THEN <<>> ELSE <<frame>> \o next.found,
                    rest   |-> next.rest, raised |-> next.raised]
    IN  turn[Len(buffer)]

=============================================================================
