----------------------------- MODULE HttpServe -----------------------------
(***************************************************************************)
(* What serve_http() promises a client: a client sends requests, the        *)
(* answers are those the requests deserve, in order, however TCP cuts the   *)
(* bytes into reads and however many requests one read holds.               *)
(***************************************************************************)
EXTENDS HttpParser, FiniteSetsExt, Functions

CONSTANT Workloads   \* sequences of requests: records of line, headers, body

VARIABLE requests    \* what this client sends

serveVars == <<vars, requests>>

\* The sequences of ss after the first n, one after the other.
Joined(ss, n) ==
  LET size == Len(ss)
      rest[i \in 0..size] == IF i = size THEN <<>> ELSE ss[i + 1] \o rest[i + 1] IN
  rest[n]

\* The bytes of a request, and of several.
EncodeOne(r) ==
  LET lines == <<r.line>> \o r.headers \o <<<<>>>> IN
  Joined([i \in DOMAIN lines |-> lines[i] \o <<CR, LF>>], 0) \o r.body

Encode(rs) == Joined([i \in DOMAIN rs |-> EncodeOne(rs[i])], 0)

----------------------------------------------------------------------------
(* The reference: a request is judged as a whole, without its bytes.       *)

HeadersSize(r) == Len(Joined(r.headers, 0)) + 2 * Len(r.headers) + 2

Lengths(r) ==
  {SubSeq(h, 2, Len(h)) : h \in {k \in Range(r.headers) : k[1] = Length}}

Acceptable(r) ==
  /\ WellFormed(r.line)
  /\ Len(r.line) <= request_line_bytes
  /\ HeadersSize(r) <= header_bytes
  /\ \A h \in Range(r.headers) :
       /\ h[1] \in {Length, Encoding, OtherKey}
       /\ h[1] = Encoding => Tail(h) = <<Identity>>
  /\ \A v \in Lengths(r) :
       Len(v) = 1 /\ v[1] \in Digits /\ Value(v[1]) <= body_bytes
  /\ \A v, w \in Lengths(r) : Value(v[1]) = Value(w[1])

\* The answers to rs: up to the first one that is refused.
Expected(rs) ==
  LET refused == {i \in DOMAIN rs : ~Acceptable(rs[i])}
      ok(n) == [i \in 1..n |-> <<"ok", rs[i].line, rs[i].body>>] IN
  IF refused = {} THEN ok(Len(rs)) ELSE Append(ok(Min(refused) - 1), <<"bad">>)

----------------------------------------------------------------------------
(* The client and the server.                                              *)

\* The bytes of a line, which has no CR LF in it.
IsLine(line) ==
  /\ line \in Seq(Bytes)
  /\ \A i \in 1..(Len(line) - 1) : ~(line[i] = CR /\ line[i + 1] = LF)

\* The client frames its requests: a header is not the empty line, and a
\* request that may be answered has a body of the length it declares.
IsRequest(r) ==
  /\ IsLine(r.line)
  /\ r.headers \in Seq(Seq(Bytes))
  /\ \A h \in Range(r.headers) : IsLine(h) /\ h # <<>>
  /\ r.body \in Seq(Bytes)
  /\ Acceptable(r) =>
       IF Lengths(r) = {} THEN r.body = <<>>
                          ELSE \A v \in Lengths(r) : Len(r.body) = Value(v[1])

ASSUME WorkloadsAssumption ==
  \A rs \in Workloads :
    /\ Encode(rs) \in Streams
    /\ rs \in Seq(Range(rs)) /\ \A r \in Range(rs) : IsRequest(r)

ServeInit ==
  /\ requests \in Workloads
  /\ Start(Encode(requests))

ServeNext ==
  \/ parse_request_line /\ UNCHANGED requests
  \/ parse_headers /\ UNCHANGED requests
  \/ parse_body /\ UNCHANGED requests
  \/ Respond /\ UNCHANGED requests
  \/ send_bad_request /\ UNCHANGED requests
  \/ \E n \in 1..MaxRead : Read(n) /\ UNCHANGED requests
  \/ ReadFails /\ UNCHANGED requests

ServeSpec == ServeInit /\ [][ServeNext]_serveVars

----------------------------------------------------------------------------

\* The answers are those the requests deserve, in their order: no request
\* skipped, answered twice, mixed with its neighbour or given another body.
\* Limits included: a request line of exactly request_line_bytes is accepted
\* (tests/test_http.cpp, ConfiguredLimitsAcceptExactBoundaries).
AnswersMatch ==
  LET expected == Expected(requests) IN
  \E n \in 0..Len(expected) : answers = SubSeq(expected, 1, n)

\* The line of r has exactly the allowed length, and a read has ended between
\* the CR and the LF after it.
CutAtLimit(r) ==
  /\ Len(r.line) = request_line_bytes
  /\ Contents(input) = Append(r.line, CR)

\* However the bytes are cut into reads, the answers are those the requests
\* deserve, but for one cut: the line at the limit that is refused had come up
\* to its CR and no further.
OnlyCutRefused ==
  LET expected == Expected(requests) IN
  \E n \in 0..Len(expected) :
    \/ answers = SubSeq(expected, 1, n)
    \/ /\ n < Len(requests) /\ CutAtLimit(requests[n + 1])
       /\ answers = Append(SubSeq(expected, 1, n), <<"bad">>)

\* No byte is lost, repeated or changed between the wire and the parser: what
\* is in the buffer and on the wire is the end of what was sent.
NothingLost ==
  LET sent == Encode(requests)
      left == Contents(input) \o wire IN
  /\ Len(left) <= Len(sent)
  /\ left = SubSeq(sent, Len(sent) - Len(left) + 1, Len(sent))

\* serve_http() never waits for bytes while a request it could answer is in
\* the buffer, nor after one it must refuse.
NoneForgotten ==
  pc = "read" /\ wire = <<>> => answers = Expected(requests)

=============================================================================
