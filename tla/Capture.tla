------------------------------- MODULE Capture -------------------------------
(***************************************************************************)
(* The capture proxy of a discovery (src/src/discovery_capture.rs).  Each  *)
(* connection has a thread: read a whole request, send it on, read a whole *)
(* response, send it back, write one line of evidence.  TCP delivers a     *)
(* message in pieces of any size, and the peer may go away in the middle   *)
(* of it; read_message() has to find out where it ends.                    *)
(*                                                                         *)
(* A stream is "head" for the header lines, "end" for the empty line, and  *)
(* then the bytes of the encoded body: "r" and "n" are CR and LF, and the  *)
(* size of a chunk is one symbol.  A definition named X_Slip is a slip     *)
(* that the specification does not use.                                    *)
(***************************************************************************)
EXTENDS Naturals, Sequences, SequencesExt

CONSTANTS
    Connection,  \* the connections
    Framing,     \* how messages on each are framed: sets of "length", "chunked", "none"
    Payload,     \* payloads on each: sets of sequences of chunks, a chunk is of bytes
    Breaking,    \* the connections whose peers may go away in a message
    Type,        \* content types, "json" and others
    Trailers,    \* what follows the last chunk: sequences of bytes
    Limit,       \* --max-body-bytes
    Byte,        \* the bytes
    MaxChunk,    \* bound: bytes in a chunk
    Numeral      \* how the size of a chunk is written

CRLF == <<"r", "n">>

ASSUME NumeralAssumption ==
    /\ MaxChunk \in Nat /\ CRLF \in Seq(Byte)
    /\ Numeral \in [0..MaxChunk -> Byte \ {"r"}] /\ IsInjective(Numeral)
\* A chunk of the payload is not empty: that would be the last one.
ASSUME PayloadAssumption ==
    \A c \in Connection : \A p \in Payload[c] :
        p \in Seq(Seq(Byte)) /\ \A k \in DOMAIN p : Len(p[k]) \in 1..MaxChunk
ASSUME FramingAssumption == \A c \in Connection : Framing[c] \subseteq {"length", "chunked", "none"}
\* A trailer has whole lines, none of them empty.
ASSUME TrailersAssumption ==
    \A x \in Trailers :
        /\ x \in Seq(Byte)
        /\ x # <<>> => /\ Len(x) >= 2 /\ SubSeq(x, 1, 2) # CRLF
                      /\ SubSeq(x, Len(x) - 1, Len(x)) = CRLF
                      /\ \A k \in 1..Len(x) - 3 : SubSeq(x, k, k + 3) # CRLF \o CRLF

VARIABLES
    thread,    \* what each thread does next
    message,   \* what each connection's client or server sends now
    got,       \* how much of it the thread has read
    exchange,  \* the thread's messages so far, by side
    client,    \* what each client was sent
    evidence   \* stdout: <<connection, half, record>>, a line is two halves

proxy_vars == <<thread, message, got, exchange, client, evidence>>

Side == {"request", "response"}
Value == [d \in {Numeral[n] : n \in 0..MaxChunk} |-> CHOOSE n \in 0..MaxChunk : Numeral[n] = d]
From(b, i) == SubSeq(b, i, Len(b))

-----------------------------------------------------------------------------
(* What peers send                                                         *)

Chunk(b) == <<Numeral[Len(b)]>> \o CRLF \o b \o CRLF
LastChunk(trailer) == <<Numeral[0]>> \o CRLF \o trailer \o CRLF

\* The chunks of a payload and what follows them.
Encoded(p, trailer) == FlattenSeq([k \in DOMAIN p |-> Chunk(p[k])]) \o LastChunk(trailer)

Stream(body) == <<"head", "end">> \o body

\* A message sent whole, of which the first cut symbols are.
WholeMessage(framing, type, p, body) ==
    [framing |-> framing, type |-> type, payload |-> FlattenSeq(p), stream |-> Stream(body),
     cut |-> Len(body) + 2]

\* Without a length a request has no body and a response ends with the connection.
Messages(c, side, framing) ==
    CASE framing = "length" ->
            {WholeMessage(framing, t, p, FlattenSeq(p)) : t \in Type, p \in Payload[c]}
      [] framing = "chunked" ->
            {WholeMessage(framing, "json", p, Encoded(p, x)) : p \in Payload[c], x \in Trailers}
      [] OTHER -> {WholeMessage(framing, "json", p, FlattenSeq(p)) :
                    p \in IF side = "request" THEN {<<>>} ELSE Payload[c]}

Sendable(c, side) ==
    LET M == UNION {Messages(c, side, f) : f \in Framing[c]}
    IN M \cup IF c \in Breaking
              THEN UNION {{[m EXCEPT !.cut = n] : n \in 0..m.cut} : m \in {m \in M : m.framing # "none"}}
              ELSE {}

-----------------------------------------------------------------------------
(* read_message()                                                          *)

\* Where the first CRLF from i on is.
LineEnd(b, i) ==
    LET ends == {k \in i..Len(b) - 1 : b[k] = "r" /\ b[k + 1] = "n"}
    IN IF ends = {} THEN 0 ELSE CHOOSE k \in ends : \A j \in ends : k <= j

\* The size of the chunk at i is complete and is a number.
HasSize(b, i) == LineEnd(b, i) = i + 1 /\ b[i] \in DOMAIN Value

\* Slip: the chunk of size 0 is the end.
Ended_Slip(rest) == TRUE

\* What follows the chunk of size 0 has come to its empty line.
Ended(rest) ==
    \/ Len(rest) >= 2 /\ SubSeq(rest, 1, 2) = CRLF
    \/ \E k \in 1..Len(rest) - 3 : SubSeq(rest, k, k + 3) = CRLF \o CRLF

\* Where the chunk behind the one at i begins: 0 if that is not whole or is the last.
Behind(b, i) ==
    IF HasSize(b, i) /\ Value[b[i]] # 0 /\ i + 4 + Value[b[i]] <= Len(b)
    THEN i + 5 + Value[b[i]] ELSE 0

\* chunked_complete()
ChunkedComplete(b) ==
    LET last[i \in 1..Len(b) + 1] == IF Behind(b, i) = 0 THEN i ELSE last[Behind(b, i)]
    IN HasSize(b, last[1]) /\ Value[b[last[1]]] = 0 /\ Ended(From(b, last[1] + 3))

\* Slip: the CRLF behind a chunk is taken for data.
Decode_Slip(b) ==
    LET decode[i \in 1..Len(b) + 1] ==
            IF Behind(b, i) = 0 THEN <<>>
            ELSE SubSeq(b, i + 3, i + 4 + Value[b[i]]) \o decode[Behind(b, i)]
    IN decode[1]

\* decode_chunked(), of a body that is complete.
Decode(b) ==
    LET decode[i \in 1..Len(b) + 1] ==
            IF Behind(b, i) = 0 THEN <<>>
            ELSE SubSeq(b, i + 3, i + 2 + Value[b[i]]) \o decode[Behind(b, i)]
    IN decode[1]

Raw(m, n) == SubSeq(m.stream, 1, n)
Body(raw) == From(raw, 3)

\* With n symbols of m read, there is nothing more to read.
MessageEnds(m, side, n) ==
    /\ n >= 2
    /\ CASE m.framing = "chunked" -> ChunkedComplete(Body(Raw(m, n)))
         [] m.framing = "length" -> Len(Body(Raw(m, n))) >= Len(m.payload)
         [] OTHER -> side = "request"

\* What the thread has of m when it stops after n symbols.
Taken(m, n) ==
    [raw |-> Raw(m, n), type |-> m.type, sent |-> m,
     body |-> IF m.framing = "chunked" THEN Decode(Body(Raw(m, n))) ELSE Body(Raw(m, n))]

Go(c, step) == thread' = [thread EXCEPT ![c] = step]
After(side) == IF side = "request" THEN "forward" ELSE "answer"

Received(c, side, n) ==
    /\ exchange' = [exchange EXCEPT ![c] = Append(@, Taken(message[c], n))]
    /\ Go(c, After(side))

Read(c, side, n) ==
    /\ thread[c] = side /\ n \in got[c] + 1..message[c].cut
    /\ got' = [got EXCEPT ![c] = n]
    /\ IF MessageEnds(message[c], side, n) THEN Received(c, side, n) ELSE UNCHANGED <<thread, exchange>>
    /\ UNCHANGED <<message, client, evidence>>

\* The peer is gone: a body with a length is taken as it is.
Eof(c, side) ==
    /\ thread[c] = side /\ got[c] = message[c].cut
    /\ message[c].cut < Len(message[c].stream) \/ side = "response"
    /\ IF got[c] >= 2 /\ message[c].framing # "chunked"
       THEN Received(c, side, got[c])
       ELSE Go(c, "failed") /\ UNCHANGED exchange
    /\ UNCHANGED <<message, got, client, evidence>>

-----------------------------------------------------------------------------
(* handle()                                                                *)

Accept(c) ==
    /\ thread[c] = "idle"
    /\ \E m \in Sendable(c, "request") : message' = [message EXCEPT ![c] = m]
    /\ Go(c, "request")
    /\ UNCHANGED <<got, exchange, client, evidence>>

\* forward_request(): the server gets the body as it came and answers.
Forward(c) ==
    /\ thread[c] = "forward"
    /\ \E m \in Sendable(c, "response") : message' = [message EXCEPT ![c] = m]
    /\ got' = [got EXCEPT ![c] = 0]
    /\ Go(c, "response")
    /\ UNCHANGED <<exchange, client, evidence>>

SendBack(c) ==
    /\ thread[c] = "answer"
    /\ client' = [client EXCEPT ![c] = exchange[c][2].raw]
    /\ Go(c, "evidence")
    /\ UNCHANGED <<message, got, exchange, evidence>>

\* connect(), or a write to the server or to the client.
Fail(c) ==
    /\ thread[c] \in {"forward", "answer"}
    /\ Go(c, "failed")
    /\ UNCHANGED <<message, got, exchange, client, evidence>>

\* body_evidence()
BodyEvidence(m) ==
    IF Len(m.body) > Limit THEN [omitted |-> "too_large", body |-> <<>>]
    ELSE IF m.type # "json" THEN [omitted |-> "unsupported_content_type", body |-> <<>>]
    ELSE [omitted |-> "no", body |-> m.body]

Line(c) == [request |-> BodyEvidence(exchange[c][1]), response |-> BodyEvidence(exchange[c][2])]

\* Slip: `output` is not locked.
BeginLine_Slip(c) ==
    /\ thread[c] = "evidence"
    /\ evidence' = Append(evidence, <<c, "begin", Line(c)>>)
    /\ Go(c, "writing")
    /\ UNCHANGED <<message, got, exchange, client>>

\* A line may go out in several writes, but `output` is locked.
BeginLine(c) ==
    /\ thread[c] = "evidence" /\ \A d \in Connection : thread[d] # "writing"
    /\ evidence' = Append(evidence, <<c, "begin", Line(c)>>)
    /\ Go(c, "writing")
    /\ UNCHANGED <<message, got, exchange, client>>

EndLine(c) ==
    /\ thread[c] = "writing"
    /\ evidence' = Append(evidence, <<c, "end", Line(c)>>)
    /\ Go(c, "done")
    /\ UNCHANGED <<message, got, exchange, client>>

ProxyInit ==
    /\ thread = [c \in Connection |-> "idle"]
    /\ message = [c \in Connection |-> WholeMessage("none", "json", <<>>, <<>>)]
    /\ got = [c \in Connection |-> 0]
    /\ exchange = [c \in Connection |-> <<>>]
    /\ client = [c \in Connection |-> <<>>]
    /\ evidence = <<>>

ProxyNext ==
    \E c \in Connection :
        \/ Accept(c) \/ Forward(c) \/ SendBack(c) \/ Fail(c) \/ BeginLine(c) \/ EndLine(c)
        \/ \E side \in Side : Eof(c, side) \/ \E n \in 1..Len(message[c].stream) : Read(c, side, n)

ProxySpec == ProxyInit /\ [][ProxyNext]_proxy_vars

-----------------------------------------------------------------------------
(* Properties                                                              *)

Whole(m) == m.cut = Len(m.stream)

\* However the bytes come, a message that its peer sent whole is read to its
\* end and not further: what was read is the message, its body the payload,
\* and the thread does not wait for a byte after the last (read_message).
MessagesWhole ==
    \A c \in Connection :
        /\ \A i \in DOMAIN exchange[c] :
            Whole(exchange[c][i].sent) =>
                /\ exchange[c][i].raw = exchange[c][i].sent.stream
                /\ exchange[c][i].body = exchange[c][i].sent.payload
        /\ \A side \in Side :
            thread[c] = side /\ got[c] = Len(message[c].stream)
            => side = "response" /\ message[c].framing = "none"

\* A line of evidence is whole and is that of one exchange: it is there for
\* a client that has its answer, byte for byte what the server sent, and the
\* bodies in it are those of its own request and response (handle).
EvidenceWhole ==
    /\ \A i \in DOMAIN evidence :
        evidence[i][2] = "end" =>
            /\ i > 1 /\ evidence[i - 1] = <<evidence[i][1], "begin", evidence[i][3]>>
            /\ LET x == exchange[evidence[i][1]] IN
                \A side \in Side : LET m == x[IF side = "request" THEN 1 ELSE 2].sent IN
                    Whole(m) /\ evidence[i][3][side].omitted = "no" => evidence[i][3][side].body = m.payload
            /\ client[evidence[i][1]] = exchange[evidence[i][1]][2].raw
    /\ \A c \in Connection : thread[c] = "done" => \E i \in DOMAIN evidence : evidence[i][1] = c

\* The evidence has each exchange whole, in one piece (discovery_capture.rs:151).
ExchangesRecorded == MessagesWhole /\ EvidenceWhole
=============================================================================
