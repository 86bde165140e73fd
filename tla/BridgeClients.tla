------------------------------ MODULE BridgeClients ------------------------------
(***************************************************************************)
(* ptlab's two clients on a TCP connection to InfiniSim:                    *)
(*   gatt     GattClient with its GattFrameParser;                          *)
(*   control  BleControlClient with its LineParser.                         *)
(* Both send a request and then recv, parse and queue until an answer is   *)
(* there; recv cuts the stream anywhere.  Answers carry no number: they are *)
(* taken in the order in which they come.  A call may raise, and the        *)
(* connection be used on.                                                   *)
(***************************************************************************)
EXTENDS GattFrameParser, LineParser, FiniteSets

CONSTANTS
    Sizes,         \* the sizes of payloads that the server may send
    MaxRequests,   \* bound: requests on a connection
    MaxAsides      \* bound: notifications, or empty lines

ASSUME ClientsAssumption ==
    /\ Sizes \subseteq Nat /\ \A size \in Sizes : size < 65536
    /\ MaxRequests \in Nat /\ MaxAsides \in Nat

VARIABLES
    protocol,   \* which of the two
    call,       \* the method in progress: request (command), next_notification
    sent,       \* requests sent so far
    mute,       \* those sent with OP_WRITE_WITHOUT_RESPONSE
    toServer,   \* requests on their way
    written,    \* what the server has written
    wire,       \* bytes of it on their way
    hungUp,     \* the server has closed the connection
    buffer,     \* parser._buffer
    responses,  \* self.responses, self.lines
    notes,      \* self.notifications
    answers,    \* history: the answers that the requests returned with
    heard,      \* history: the notifications returned
    parsed,     \* history: what the parser has returned
    broken,     \* history: the parser has raised
    troubled    \* history: a call has raised

client == <<call, sent, mute, buffer, responses, notes, answers, heard, parsed,
            broken, troubled>>
server == <<toServer, written, wire, hungUp>>
vars == <<protocol, client, server>>

Gatt == protocol = "gatt"

-----------------------------------------------------------------------------
(* What InfiniSim writes.                                                   *)

Known == 7     \* a characteristic that resolve_characteristic accepts
Unknown == 9   \* and one that it does not

\* Only what a frame is cut out of by mistake need look like the start of another.
Payloads == [size : Sizes, fill : {0}] \cup [size : {s \in Sizes : TooLarge(s)}, fill : {Marker}]
Response(k) == [kind : {"response"}, id : {k}, payload : Payloads]
Notification(k) ==
    [kind : {"notification"}, id : {k}, payload : Payloads, characteristic : {Known, Unknown}]

Lines == {"short", "crlf", "full", "full_crlf", "long", "binary"}
Answered(k) == [kind : {"line"}, id : {k}, text : Lines]
Blank(k) == [kind : {"blank"}, id : {k}, text : {"blank"}]

Text(line) ==
    CASE line = "short"  -> <<"text">>
      [] line = "crlf"   -> <<"text", "cr">>
      [] line = "full"   -> [i \in 1..MaxLine |-> "text"]
      [] line = "full_crlf" -> [i \in 1..(MaxLine + 1) |-> IF i > MaxLine THEN "cr" ELSE "text"]
      [] line = "long"   -> [i \in 1..(MaxLine + 1) |-> "text"]
      [] line = "binary" -> <<"binary">>
      [] line = "blank"  -> <<"cr">>

Header(item) ==
    LET low  == item.payload.size % 256
        high == item.payload.size \div 256
    IN  IF item.kind = "response" THEN <<0, low, high>>
        ELSE <<Marker, item.characteristic, low, high>>

Encoded(item) ==
    IF item.kind \in {"line", "blank"} THEN Append(Text(item.text), "newline")
    ELSE Header(item) \o [i \in 1..item.payload.size |-> item.payload.fill]

\* The bytes of the k-th item that is written.
Bytes(item, k) == [i \in DOMAIN Encoded(item) |-> [is |-> Encoded(item)[i], of |-> k, at |-> i]]

\* What the parser should make of it.
Content(k) ==
    LET b == Bytes(written[k], k)
    IN  IF written[k].kind = "line" THEN Stripped(SubSeq(b, 1, Len(b) - 1)) ELSE b

Good(item) ==
    IF item.kind = "line" THEN item.text # "binary" /\ Len(Text(item.text)) <= MaxLine
    ELSE item.payload.size <= MaxPayload

\* Those of the items that have one of the places, in their order.
Chosen(items, places) ==
    LET take[n \in 0..Len(items)] ==
          IF n = 0 THEN <<>>
          ELSE IF n \in places THEN Append(take[n - 1], items[n]) ELSE take[n - 1]
    IN  take[Len(items)]

\* The stream that the parser is to deliver: empty lines are none of it.
Carried == Chosen([k \in DOMAIN written |-> k], {k \in DOMAIN written : written[k].kind # "blank"})

Stream == INSTANCE Framing WITH
    sent <- [i \in DOMAIN Carried |-> [id |-> Carried[i], good |-> Good(written[Carried[i]])]],
    got  <- parsed

\* A frame or line by the item whose byte it begins with, if it is that item.
Item == [id : DOMAIN written, whole : BOOLEAN]
Identify(frame) ==
    LET k == frame.bytes[1].of IN [id |-> k, whole |-> frame.bytes = Content(k)]

TypeOK ==
    /\ protocol \in {"gatt", "control"}
    /\ call \in {"none", "request", "next_notification"}
    /\ sent \in 0..MaxRequests /\ mute \subseteq 1..sent
    /\ toServer \in Seq(1..sent)
    /\ written \in Seq((UNION {Response(k) \cup Answered(k) : k \in 1..sent})
                       \cup (UNION {Notification(k) \cup Blank(k) : k \in 1..MaxAsides}))
    /\ hungUp \in BOOLEAN
    /\ wire \in Seq(IF Gatt THEN GattByte ELSE LineByte)
    /\ buffer \in Seq(IF Gatt THEN GattByte ELSE LineByte)
    /\ ~broken => Len(buffer) <= IF Gatt THEN 3 + MaxPayload ELSE MaxLine
    /\ {responses, notes, heard, parsed} \subseteq Seq(Item)
    /\ answers \in Seq([request : 1..sent, item : Item])
    /\ broken \in BOOLEAN /\ troubled \in BOOLEAN

Init ==
    /\ protocol \in {"gatt", "control"}
    /\ call = "none" /\ sent = 0 /\ mute = {}
    /\ toServer = <<>> /\ written = <<>> /\ wire = <<>> /\ hungUp = FALSE
    /\ buffer = <<>> /\ responses = <<>> /\ notes = <<>>
    /\ answers = <<>> /\ heard = <<>> /\ parsed = <<>>
    /\ broken = FALSE /\ troubled = FALSE

-----------------------------------------------------------------------------
(* The client.                                                              *)

\* Seeded fault: an acknowledged write does not wait for its response.
Request_Early ==
    /\ call = "none" /\ sent < MaxRequests
    /\ sent' = sent + 1
    /\ toServer' = Append(toServer, sent')
    /\ call' \in {"request", "none"}
    /\ UNCHANGED <<protocol, mute, written, wire, hungUp, buffer, responses, notes,
                   answers, heard, parsed, broken, troubled>>

\* GattClient.request; validations that precede it raise before anything is sent.
Request ==
    /\ Gatt
    /\ call = "none" /\ sent < MaxRequests
    /\ sent' = sent + 1
    /\ toServer' = Append(toServer, sent')
    /\ \/ call' = "request" /\ UNCHANGED mute
       \/ call' = "none" /\ mute' = mute \cup {sent'}
    /\ UNCHANGED <<protocol, written, wire, hungUp, buffer, responses, notes,
                   answers, heard, parsed, broken, troubled>>

\* BleControlClient.command
Command ==
    /\ ~Gatt
    /\ call = "none" /\ sent < MaxRequests
    /\ sent' = sent + 1
    /\ toServer' = Append(toServer, sent')
    /\ call' = "request"
    /\ UNCHANGED <<protocol, mute, written, wire, hungUp, buffer, responses, notes,
                   answers, heard, parsed, broken, troubled>>

NextNotification ==
    /\ Gatt
    /\ call = "none"
    /\ call' = "next_notification"
    /\ UNCHANGED <<protocol, server, sent, mute, buffer, responses, notes, answers,
                   heard, parsed, broken, troubled>>

Returns ==
    /\ answers' = Append(answers, [request |-> sent, item |-> Head(responses)])
    /\ call' = "none"

\* Seeded fault: the answer is read but not removed.
Complete_Peek ==
    /\ call = "request" /\ responses # <<>>
    /\ Returns
    /\ UNCHANGED <<protocol, server, sent, mute, buffer, responses, notes, heard,
                   parsed, broken, troubled>>

\* The oldest answer is popped, whichever request it is for; a line that
\* parse_control_line then rejects is gone as well.
Complete ==
    /\ call = "request" /\ responses # <<>>
    /\ Returns
    /\ responses' = Tail(responses)
    /\ UNCHANGED <<protocol, server, sent, mute, buffer, notes, heard, parsed,
                   broken, troubled>>

Hear ==
    /\ call = "next_notification" /\ notes # <<>>
    /\ heard' = Append(heard, Head(notes))
    /\ notes' = Tail(notes)
    /\ call' = "none"
    /\ UNCHANGED <<protocol, server, sent, mute, buffer, responses, answers, parsed,
                   broken, troubled>>

Waits ==
    \/ call = "request" /\ responses = <<>>
    \/ call = "next_notification" /\ notes = <<>>

Raises == call' = "none" /\ troubled' = TRUE

\* Frames before the first notification of an unknown characteristic.
Resolved(frames) ==
    {i \in DOMAIN frames :
        \A j \in 1..i : frames[j].notifies => frames[j].characteristic = Known}

Identified(frames) == [i \in DOMAIN frames |-> Identify(frames[i])]

\* Seeded fault: a request ignores the notifications that come with its answer.
Dispatch_Responses(frames) ==
    LET kept == Resolved(frames)
        told == {i \in DOMAIN frames : frames[i].notifies}
        new  == IF call = "next_notification" THEN told ELSE {}
    IN  /\ responses' = responses \o Chosen(Identified(frames), kept \ told)
        /\ notes' = notes \o Chosen(Identified(frames), kept \cap new)
        /\ IF kept = DOMAIN frames THEN UNCHANGED <<call, troubled>> ELSE Raises

\* _receive: each frame goes to its queue; resolve_characteristic may raise, and
\* the rest of the chunk is lost.
Dispatch(frames) ==
    LET kept == Resolved(frames)
        told == {i \in DOMAIN frames : frames[i].notifies}
    IN  /\ responses' = responses \o Chosen(Identified(frames), kept \ told)
        /\ notes' = notes \o Chosen(Identified(frames), kept \cap told)
        /\ IF kept = DOMAIN frames THEN UNCHANGED <<call, troubled>> ELSE Raises

\* _next_line
Extend(lines) ==
    /\ responses' = responses \o Identified(lines)
    /\ UNCHANGED <<notes, call, troubled>>

\* One recv, however many bytes it brings.
Receive ==
    /\ Waits
    /\ \E n \in DOMAIN wire :
          LET chunk == buffer \o SubSeq(wire, 1, n)
              fed   == IF Gatt THEN FeedFrames(chunk) ELSE FeedLines(chunk)
          IN  /\ wire' = SubSeq(wire, n + 1, Len(wire))
              /\ buffer' = fed.rest
              /\ broken' = (broken \/ fed.raised)
              /\ parsed' = parsed \o Identified(fed.found)
              /\ IF fed.raised THEN Raises /\ UNCHANGED <<responses, notes>>
                 ELSE IF Gatt THEN Dispatch(fed.found) ELSE Extend(fed.found)
    /\ UNCHANGED <<protocol, sent, mute, toServer, written, hungUp, answers, heard>>

\* Seeded fault: a timeout is ignored, and recv called again.
TimesOut_Ignored ==
    /\ Waits
    /\ UNCHANGED vars

\* GattTimeout, ControlTimeout: nothing came in time; the socket stays open.
TimesOut ==
    /\ Waits
    /\ Raises
    /\ UNCHANGED <<protocol, server, sent, mute, buffer, responses, notes, answers,
                   heard, parsed, broken>>

\* An empty recv.
SeesClose ==
    /\ Waits
    /\ hungUp /\ wire = <<>>
    /\ Raises
    /\ UNCHANGED <<protocol, server, sent, mute, buffer, responses, notes, answers,
                   heard, parsed, broken>>

\* close, and a new client on a new connection.
Reconnect ==
    /\ call = "none" /\ call' = "none"
    /\ sent' = 0 /\ mute' = {}
    /\ toServer' = <<>> /\ written' = <<>> /\ wire' = <<>> /\ hungUp' = FALSE
    /\ buffer' = <<>> /\ responses' = <<>> /\ notes' = <<>>
    /\ answers' = <<>> /\ heard' = <<>> /\ parsed' = <<>>
    /\ broken' = FALSE /\ troubled' = FALSE
    /\ UNCHANGED protocol

-----------------------------------------------------------------------------
(* The server: one request at a time, notifications whenever the firmware   *)
(* has one.                                                                 *)

Writes(item) ==
    /\ ~hungUp
    /\ written' = Append(written, item)
    /\ wire' = wire \o Bytes(item, Len(written'))
    /\ UNCHANGED <<protocol, client, hungUp>>

Answer ==
    /\ toServer # <<>>
    /\ Head(toServer) \notin mute
    /\ toServer' = Tail(toServer)
    /\ \E item \in IF Gatt THEN Response(Head(toServer)) ELSE Answered(Head(toServer)) :
          Writes(item)

Obey ==
    /\ toServer # <<>> /\ ~hungUp
    /\ Head(toServer) \in mute
    /\ toServer' = Tail(toServer)
    /\ UNCHANGED <<protocol, client, written, wire, hungUp>>

Asides == Cardinality({k \in DOMAIN written : written[k].kind \in {"notification", "blank"}})

Notify ==
    /\ Asides < MaxAsides
    /\ \E item \in IF Gatt THEN Notification(Asides + 1) ELSE Blank(Asides + 1) :
          Writes(item)
    /\ UNCHANGED toServer

HangUp ==
    /\ ~hungUp
    /\ hungUp' = TRUE
    /\ UNCHANGED <<protocol, client, toServer, written, wire>>

-----------------------------------------------------------------------------

Client == \/ Request \/ Command \/ NextNotification \/ Complete \/ Hear
          \/ TimesOut \/ SeesClose \/ Receive

Server == Answer \/ Obey \/ Notify \/ HangUp

Next == Client \/ Server \/ Reconnect

Spec == Init /\ [][Next]_vars

\* The client runs, and its socket has a timeout; the server owes nothing.
FairSpec == Spec /\ WF_vars(Client)

-----------------------------------------------------------------------------
(* Properties.                                                              *)

\* As long as no call on the connection has raised, every answer is the one that
\* was written for the request it is returned for, whole, however requests
\* without response, notifications and empty lines are mixed in and wherever
\* recv cuts the stream.
MatchedUntilTrouble ==
    ~troubled => \A i \in DOMAIN answers :
        LET item == answers[i].item
        IN  /\ item.whole /\ written[item.id].kind \in {"response", "line"}
            /\ written[item.id].id = answers[i].request

\* Even after timeouts an answer is never returned twice, never overtakes an
\* earlier one and never answers a request still to come: a late answer makes
\* the client fall behind, for good, but it does not shuffle.  The line parser
\* finds back to this after an error of its own, the frame parser does not.
NeverShuffled ==
    ~(Gatt /\ broken) =>
        /\ \A i, j \in DOMAIN answers : i < j => answers[i].item.id < answers[j].item.id
        /\ \A i \in DOMAIN answers : written[answers[i].item.id].id <= answers[i].request

\* No request swallows a notification: until a call raises, what the caller has
\* heard and what is queued are all that has come.
NotesKept ==
    ~troubled =>
        heard \o notes =
            Chosen(parsed, {i \in DOMAIN parsed : written[parsed[i].id].kind = "notification"})

\* However the stream is cut, in a header, in a payload, between \r and \n, feed
\* returns what was sent, whole and in order; it raises only where a payload or
\* a line is longer than the limit, never at the limit, or a line is not UTF-8.
ParsesTheStream == Stream!Spec

\* No complete frame or line waits in the parser when feed returns: a call whose
\* answer has arrived does not block in recv.
NothingWithheld ==
    ~broken /\ buffer # <<>> =>
        LET k == buffer[1].of
            b == Bytes(written[k], k)
        IN  Len(buffer) < Len(b) /\ buffer = SubSeq(b, 1, Len(buffer))

\* Every call returns or raises although no answer may ever come.  The timeout is
\* one per recv: it takes that the server does not send for ever.
EveryCallEnds == call # "none" ~> call = "none"

=============================================================================
