--------------------------- MODULE RequestAssembly ---------------------------
(***************************************************************************)
(* How an HttpRequest (include/data_types.h) is put together by the llhttp *)
(* callbacks, in the server (include/connection_types.h) and in the        *)
(* demonstration program (main.cpp). The stream arrives in buffers cut     *)
(* anywhere; llhttp reports the pieces of each field that lie in a buffer, *)
(* and the callbacks append them to one request object.                    *)
(*                                                                         *)
(* A stream is a sequence of symbols [kind, byte]. A kind that is a field  *)
(* of the request stands for one byte of that field, "line" for the end of *)
(* a header (or trailer) line, "end" for the end of a message and "bad"    *)
(* for input that llhttp rejects. Delimiters, which no callback is told    *)
(* of, are left out.                                                       *)
(***************************************************************************)
EXTENDS Integers, Sequences, FiniteSets

CONSTANTS
  Byte,           \* what a symbol carries
  ServerStreams,  \* what peers send to the server
  DemoStreams,    \* the literal of main.cpp
  BufMax          \* bound: symbols in one buffer

TextFields == {"method", "URL", "version", "key", "value"}
Symbols    == [kind : TextFields \cup {"body", "line", "end", "bad"}, byte : Byte]

\* A peer may send anything; the demonstration's chunks are one message.
ASSUME AssemblyAssumption ==
  /\ BufMax \in Nat \ {0}
  /\ \A s \in ServerStreams \cup DemoStreams : s \in Seq(Symbols)
  /\ \A s \in DemoStreams :
       s # <<>> /\ \A i \in DOMAIN s : s[i].kind = "end" <=> i = Len(s)

VARIABLES
  program,    \* "server" or "demo"
  stream,     \* everything the peer sends
  filled,     \* symbols received so far
  parsed,     \* symbols that llhttp has consumed
  request,
  delivered,  \* what the application read, or the demonstration printed
  status      \* "open", "closed" (object deleted) or "printed"

vars == <<program, stream, filled, parsed, request, delivered, status>>

EmptyRequest ==
  [method |-> <<>>, URL |-> <<>>, version |-> <<>>, key |-> <<>>,
   value |-> <<>>, headers |-> <<>>, body |-> <<>>]

\* The object, with its parser, exists before the first byte is read.
Init ==
  /\ \/ program = "server" /\ stream \in ServerStreams
     \/ program = "demo" /\ stream \in DemoStreams
  /\ filled = 0 /\ parsed = 0
  /\ request = EmptyRequest
  /\ delivered = <<>>
  /\ status = "open"

-----------------------------------------------------------------------------
(* llhttp_execute and the callbacks it makes, one per step.                *)

Parsing == status = "open" /\ parsed < filled
Symbol  == stream[parsed + 1]

\* llhttp reports the bytes of one field up to the end of the field or of the
\* buffer, whichever is first.
SpanEnd ==
  CHOOSE n \in (parsed + 1)..filled :
    /\ \A i \in (parsed + 1)..n : stream[i].kind = Symbol.kind
    /\ n = filled \/ stream[n + 1].kind # Symbol.kind
Span == [i \in 1..(SpanEnd - parsed) |-> stream[parsed + i].byte]

\* Mutant: the piece replaces what an earlier buffer brought.
AssignSpan(field) == [request EXCEPT ![field] = Span]

\* append(at, length).
AppendSpan(field) == [request EXCEPT ![field] = @ \o Span]

\* on_method, on_url, on_version, on_header_field and on_header_value.
OnText ==
  /\ Parsing /\ Symbol.kind \in TextFields
  /\ request' = AppendSpan(Symbol.kind)
  /\ parsed' = SpanEnd
  /\ UNCHANGED <<program, stream, filled, delivered, status>>

\* on_body: one call per chunk and buffer.
OnBody ==
  /\ Parsing /\ Symbol.kind = "body"
  /\ request' = AppendSpan("body")
  /\ parsed' = SpanEnd
  /\ UNCHANGED <<program, stream, filled, delivered, status>>

\* headers[key] = value: an entry that is there is overwritten.
Assigned(headers, key, value) ==
  [name \in DOMAIN headers \cup {key} |->
     IF name = key THEN value ELSE headers[name]]

\* Mutant: key and value are not cleared.
StoreHeaderOnly ==
  [request EXCEPT !.headers = Assigned(@, request.key, request.value)]

\* headers[key] = value; key.clear(); value.clear().
StoreHeader ==
  [request EXCEPT !.headers = Assigned(@, request.key, request.value),
                  !.key = <<>>, !.value = <<>>]

OnHeaderValueComplete ==
  /\ Parsing /\ Symbol.kind = "line"
  /\ request' = StoreHeader
  /\ parsed' = parsed + 1
  /\ UNCHANGED <<program, stream, filled, delivered, status>>

\* Mutant: the user's callback is not called.
OnMessageSilent ==
  /\ Parsing /\ Symbol.kind = "end"
  /\ parsed' = parsed + 1
  /\ UNCHANGED <<program, stream, filled, request, delivered, status>>

\* The server's callback lets the application read the request; the one of
\* the demonstration does nothing. Neither makes a new request.
OnMessageComplete ==
  /\ Parsing /\ Symbol.kind = "end"
  /\ delivered' = IF program = "server" THEN Append(delivered, request)
                  ELSE delivered
  /\ parsed' = parsed + 1
  /\ UNCHANGED <<program, stream, filled, request, status>>

\* llhttp_execute fails: the connection, or the demonstration's request, is
\* deleted.
Reject ==
  /\ Parsing /\ Symbol.kind = "bad"
  /\ status' = "closed"
  /\ UNCHANGED <<program, stream, filled, parsed, request, delivered>>

-----------------------------------------------------------------------------
(* The two programs around the parser.                                     *)

Buffer(n) ==
  /\ status = "open" /\ parsed = filled
  /\ filled + n <= Len(stream)
  /\ filled' = filled + n
  /\ UNCHANGED <<program, stream, parsed, request, delivered, status>>

\* recv() returns data. The read loop goes on after a request is answered, as
\* long as there is input: how that ends is in ClientConnection.
Recv == program = "server" /\ \E n \in 1..BufMax : Buffer(n)

\* recv() returns 0: whatever has been assembled is deleted.
RecvEof ==
  /\ program = "server" /\ status = "open" /\ parsed = filled
  /\ status' = "closed"
  /\ UNCHANGED <<program, stream, filled, parsed, request, delivered>>

\* The next of the chunks.
DemoChunk == program = "demo" /\ \E n \in 1..BufMax : Buffer(n)

\* After the last chunk the request is printed, whether or not it is complete.
DemoPrint ==
  /\ program = "demo" /\ status = "open" /\ parsed = Len(stream)
  /\ delivered' = <<request>>
  /\ status' = "printed"
  /\ UNCHANGED <<program, stream, filled, parsed, request>>

Next ==
  \/ OnText \/ OnBody \/ OnHeaderValueComplete \/ OnMessageComplete \/ Reject
  \/ Recv \/ RecvEof
  \/ DemoChunk \/ DemoPrint

Spec == Init /\ [][Next]_vars

-----------------------------------------------------------------------------
(* What an interval I of a stream s says, read as a whole.                 *)

\* The positions of one kind, the n-th of them, and the bytes at them in order.
Of(s, kind, I) == {i \in I : s[i].kind = kind}
Nth(P, n)      == CHOOSE i \in P : Cardinality({j \in P : j <= i}) = n
Bytes(s, P)    == [n \in 1..Cardinality(P) |-> s[Nth(P, n)].byte]

\* The header line that ends before i: what no end of a line separates from it.
Line(s, I, i)  == {j \in I : j < i /\ \A m \in j..(i - 1) : s[m].kind # "line"}
Name(s, I, i)  == Bytes(s, Of(s, "key", Line(s, I, i)))
Value(s, I, i) == Bytes(s, Of(s, "value", Line(s, I, i)))

\* Of two lines with the same name the later one counts.
Lines(s, I, name) == {i \in Of(s, "line", I) : Name(s, I, i) = name}
LastLine(s, I, name) ==
  CHOOSE i \in Lines(s, I, name) : \A j \in Lines(s, I, name) : j <= i
Headers(s, I) ==
  [name \in {Name(s, I, i) : i \in Of(s, "line", I)} |->
     Value(s, I, LastLine(s, I, name))]

\* first..last, of which the part behind the last end of a line is one line
\* more, unfinished.
Parse(s, first, last) ==
  LET I == first..last
  IN  [method  |-> Bytes(s, Of(s, "method", I)),
       URL     |-> Bytes(s, Of(s, "URL", I)),
       version |-> Bytes(s, Of(s, "version", I)),
       key     |-> Name(s, I, last + 1),
       value   |-> Value(s, I, last + 1),
       headers |-> Headers(s, I),
       body    |-> Bytes(s, Of(s, "body", I))]

\* Where the n-th message of the stream ends, and the message.
EndOf(s, n)   == Nth(Of(s, "end", DOMAIN s), n)
Message(s, n) == Parse(s, IF n = 1 THEN 1 ELSE EndOf(s, n - 1) + 1, EndOf(s, n))

-----------------------------------------------------------------------------
(* Properties.                                                             *)

\* Every variable has its type; the parser is never ahead of the input, and
\* the server's application has read one request per complete message.
TypeOK ==
  /\ program \in {"server", "demo"}
  /\ filled \in 0..Len(stream) /\ parsed \in 0..filled
  /\ DOMAIN request = DOMAIN EmptyRequest
  /\ status \in {"open", "closed", "printed"}
  /\ program = "server" =>
       Len(delivered) = Cardinality(Of(stream, "end", 1..parsed))

\* However the stream is cut into buffers, the request object says what the
\* stream consumed so far says when it is read as a whole: no piece of a
\* field is lost, doubled, or attributed to another header line.
SplitIndependent == request = Parse(stream, 1, parsed)

\* The first request that the application reads, or that the demonstration
\* prints, is the first message of the stream and nothing else.
FirstRequestExact ==
  delivered # <<>> => delivered[1] = Message(stream, 1)

\* api.cpp:65: reading "returns fully formed http request struct": the n-th
\* request that the application reads is the n-th message.
EachRequestExact ==
  \A n \in DOMAIN delivered : delivered[n] = Message(stream, n)
=============================================================================
