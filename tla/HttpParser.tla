----------------------------- MODULE HttpParser -----------------------------
(***************************************************************************)
(* The incremental HTTP request parser, with the coroutine serve_http() of  *)
(* the HTTP example that drives it: parse, answer or read more, and start   *)
(* again with the bytes that remain.                                        *)
(*                                                                          *)
(* A line is a sequence of bytes.  What matters of its text is in single    *)
(* bytes: a request line is well formed when all its bytes are Good, and    *)
(* the first byte of a header line says which header it is.                 *)
(***************************************************************************)
EXTENDS Buffer

CONSTANTS
  Good,            \* a byte of a well-formed request line
  Length, Encoding, OtherKey,  \* Content-Length:, Transfer-Encoding:, others
  Identity,        \* the value "identity"
  Digits,          \* the numerals of parse_size(), each one byte
  Value(_),        \* their values
  request_line_bytes, header_bytes, body_bytes,  \* Limits
  Initial,         \* initial size of the Buffer
  MaxRead,         \* max_bytes of read_some()
  Streams          \* what the peer may send

ASSUME ParserAssumption ==
  /\ Digits \subseteq Bytes
  /\ \A d \in Digits : Value(d) \in Nat
  /\ {request_line_bytes, header_bytes, body_bytes, Initial} \subseteq Nat
  /\ MaxRead \in Nat \ {0}
  /\ Streams \subseteq Seq(Bytes)

VARIABLES
  input,    \* the Buffer of serve_http()
  parser,   \* the HttpParser
  pc,       \* where serve_http() is
  wire,     \* bytes sent by the peer and not received yet
  answers   \* the responses written, in order

vars == <<input, parser, pc, wire, answers>>

\* reset()
Fresh == [state |-> "REQUEST_LINE", path |-> <<>>, body |-> <<>>,
          content_length |-> 0, header_bytes |-> 0,
          content_length_seen |-> FALSE]

Start(bytes) ==
  /\ input = NewBuffer(Initial)
  /\ parser = Fresh
  /\ pc = "parse"
  /\ wire = bytes
  /\ answers = <<>>

----------------------------------------------------------------------------
(* HttpParser::parse(), one state or one header line at a time.            *)

\* The n bytes from read_ptr().
Taken(n) == SubSeq(Contents(input), 1, n)

WellFormed(line) == line # <<>> /\ \A i \in DOMAIN line : line[i] = Good

\* parse() returns INCOMPLETE or ERROR, with nothing consumed.
Wait(tooMuch) ==
  /\ pc' = IF tooMuch THEN "bad" ELSE "read"
  /\ UNCHANGED <<input, parser>>

\* No end of line yet, and already more bytes than a request line may have.
RequestLineTooLong == readable(input) > request_line_bytes

LineAtLimit(end) == end >= request_line_bytes

\* A line that has come as a whole, and is longer than one may be.
LineTooLong(end) == end > request_line_bytes

parse_request_line ==
  /\ pc = "parse"
  /\ parser.state = "REQUEST_LINE"
  /\ \/ /\ find_crlf(input) = {}
        /\ Wait(RequestLineTooLong)
     \/ \E end \in find_crlf(input) :
          \/ LineTooLong(end) /\ Wait(TRUE)
          \/ /\ ~LineTooLong(end)
             /\ input' = consume(input, end + 2)
             /\ IF WellFormed(Taken(end))
                  THEN /\ parser' = [parser EXCEPT !.state = "HEADERS",
                                                   !.path = Taken(end)]
                       /\ UNCHANGED pc
                  ELSE pc' = "bad" /\ UNCHANGED parser
  /\ UNCHANGED <<wire, answers>>

\* The value of a Content-Length line is a number.
parse_size(line) == Len(line) = 2 /\ line[2] \in Digits

\* A header line that is not a known key, a colon and a value it may have.
BadHeader(line) ==
  \/ line[1] \notin {Length, Encoding, OtherKey}
  \/ /\ line[1] = Length
     /\ \/ ~parse_size(line)
        \/ Value(line[2]) > body_bytes
        \/ parser.content_length_seen /\ Value(line[2]) # parser.content_length
  \/ line[1] = Encoding /\ line # <<Encoding, Identity>>

\* header_bytes_ after a line.
Counted(line) == parser.header_bytes + Len(line) + 2

\* One header line, or the empty line that ends them.
parse_header(line) ==
  LET counted == [parser EXCEPT !.header_bytes = Counted(line)] IN
  /\ input' = consume(input, Len(line) + 2)
  /\ IF line # <<>> /\ BadHeader(line)
       THEN pc' = "bad" /\ parser' = counted
       ELSE /\ UNCHANGED pc
            /\ parser' =
                 IF line = <<>>
                   THEN [counted EXCEPT !.state = IF parser.content_length = 0
                                                    THEN "DONE" ELSE "BODY"]
                 ELSE IF line[1] = Length
                   THEN [counted EXCEPT !.content_length = Value(line[2]),
                                        !.content_length_seen = TRUE]
                   ELSE counted

parse_headers ==
  /\ pc = "parse"
  /\ parser.state = "HEADERS"
  /\ \/ /\ find_crlf(input) = {}
        /\ Wait(parser.header_bytes + readable(input) > header_bytes)
     \/ \E end \in find_crlf(input) :
          IF parser.header_bytes + end + 2 > header_bytes
            THEN Wait(TRUE)
            ELSE parse_header(Taken(end))
  /\ UNCHANGED <<wire, answers>>

parse_body ==
  /\ pc = "parse"
  /\ parser.state = "BODY"
  /\ IF parser.content_length > body_bytes \/ readable(input) < parser.content_length
       THEN Wait(parser.content_length > body_bytes)
       ELSE /\ parser' = [parser EXCEPT !.state = "DONE",
                                        !.body = Taken(parser.content_length)]
            /\ input' = consume(input, parser.content_length)
            /\ UNCHANGED pc
  /\ UNCHANGED <<wire, answers>>

----------------------------------------------------------------------------
(* serve_http()                                                            *)

RespondThenRead ==
  /\ pc = "parse"
  /\ parser.state = "DONE"
  /\ answers' = Append(answers, <<"ok", parser.path, parser.body>>)
  /\ parser' = Fresh
  /\ pc' = "read"
  /\ UNCHANGED <<input, wire>>

\* COMPLETE: the response goes out and the parser is reset, or the write
\* fails and the coroutine ends.
Respond ==
  /\ pc = "parse"
  /\ parser.state = "DONE"
  /\ \/ /\ answers' = Append(answers, <<"ok", parser.path, parser.body>>)
        /\ parser' = Fresh
        /\ UNCHANGED pc
     \/ /\ pc' = "gone"
        /\ UNCHANGED <<parser, answers>>
  /\ UNCHANGED <<input, wire>>

\* ERROR: a last response, if it can be written.
send_bad_request ==
  /\ pc = "bad"
  /\ pc' = "gone"
  /\ answers' \in {answers, Append(answers, <<"bad">>)}
  /\ UNCHANGED <<input, parser, wire>>

\* read_some(): space for MaxRead bytes, then what the kernel has of them.
Read(n) ==
  /\ pc = "read"
  /\ n <= Len(wire)
  /\ input' = Write(ensure_writable(input, MaxRead), SubSeq(wire, 1, n))
  /\ wire' = SubSeq(wire, n + 1, Len(wire))
  /\ pc' = "parse"
  /\ UNCHANGED <<parser, answers>>

\* The end of the stream, a timeout or an error.
ReadFails ==
  /\ pc = "read"
  /\ pc' = "gone"
  /\ input' = ensure_writable(input, MaxRead)
  /\ UNCHANGED <<parser, wire, answers>>

Next ==
  \/ parse_request_line \/ parse_headers \/ parse_body
  \/ Respond \/ send_bad_request
  \/ \E n \in 1..MaxRead : Read(n)
  \/ ReadFails

Spec == (\E bytes \in Streams : Start(bytes)) /\ [][Next]_vars

----------------------------------------------------------------------------

\* Buffer, parser and coroutine have their types; in particular the cursors
\* of the buffer stay in order and inside its array, as consume() and
\* has_written() demand of their callers.
HttpTypeOK ==
  /\ IsBuffer(input)
  /\ parser \in [state : {"REQUEST_LINE", "HEADERS", "BODY", "DONE"},
                 path : Seq(Bytes), body : Seq(Bytes), content_length : Nat,
                 header_bytes : Nat, content_length_seen : BOOLEAN]
  /\ pc \in {"parse", "read", "bad", "gone"}
  /\ wire \in Seq(Bytes)

\* The most bytes the buffer may hold while parse() asks for more.
Pending ==
  CASE parser.state = "REQUEST_LINE" -> request_line_bytes
    [] parser.state = "HEADERS" -> header_bytes - parser.header_bytes
    [] OTHER -> parser.content_length - 1

\* The limits bound memory: when parse() asks for more bytes, what the buffer
\* holds is within what its state still allows, and a declared body is within
\* the limit for bodies.
IncompleteIsBounded ==
  pc = "read" => readable(input) <= Pending /\ parser.content_length <= body_bytes

\* However the bytes are cut into reads, and however often the buffer moves
\* or grows, its array stays below the largest limit plus two reads.
CapacityBounded ==
  \/ input.size <= Initial
  \/ input.size = 1
  \/ \E limit \in {request_line_bytes, header_bytes, body_bytes} :
       input.size <= limit + 2 * MaxRead

=============================================================================
