------------------------------- MODULE Buffer -------------------------------
(***************************************************************************)
(* The contiguous byte buffer between the sockets and the parsers: an array *)
(* with a read and a write cursor.  A buffer is a record, an operation an   *)
(* operator on it; positions count from 0 as in the code.                   *)
(***************************************************************************)
EXTENDS Integers, Sequences

CONSTANTS
  Bytes,   \* the values of a char
  Zero,    \* what resize() fills new space with
  CR, LF   \* '\r' and '\n'

ASSUME BytesAssumption == {Zero, CR, LF} \subseteq Bytes /\ CR # LF

\* A buffer whose array has the given size.
BuffersOfSize(size) ==
  [buf : [0..(size - 1) -> Bytes], size : {size}, read_idx : 0..size,
   write_idx : 0..size]

IsBuffer(b) ==
  /\ b.size \in Nat \ {0}
  /\ b \in BuffersOfSize(b.size)
  /\ b.read_idx <= b.write_idx

NewBuffer(initial) ==
  LET size == IF initial = 0 THEN 1 ELSE initial IN
  [buf |-> [i \in 0..(size - 1) |-> Zero], size |-> size,
   read_idx |-> 0, write_idx |-> 0]

readable(b) == b.write_idx - b.read_idx

writable(b) == b.size - b.write_idx

\* The byte i places after read_ptr(), and the bytes that can be read.
Peek(b, i) == b.buf[b.read_idx + i]
Contents(b) == [i \in 1..readable(b) |-> Peek(b, i - 1)]

\* data is copied to write_ptr() and committed: has_written() after a recv(),
\* or the end of append().
Write(b, data) ==
  [b EXCEPT !.buf = [i \in 0..(b.size - 1) |->
                       IF i \in b.write_idx..(b.write_idx + Len(data) - 1)
                         THEN data[i - b.write_idx + 1] ELSE b.buf[i]],
            !.write_idx = @ + Len(data)]

\* The cursors go back to the front when everything has been read.
consume(b, n) ==
  IF b.read_idx + n = b.write_idx
    THEN [b EXCEPT !.read_idx = 0, !.write_idx = 0]
    ELSE [b EXCEPT !.read_idx = @ + n]

\* Where the first line ends: the place of its CR, or nothing for npos.
find_crlf(b) ==
  LET ends == {i \in 0..(readable(b) - 2) :
                 Peek(b, i) = CR /\ Peek(b, i + 1) = LF} IN
  {i \in ends : \A j \in ends : i <= j}

\* memmove() of what can be read to the front of the array.
compact_from_front(b) ==
  [b EXCEPT !.read_idx = 0, !.write_idx = readable(b)]

compact(b) ==
  [b EXCEPT !.buf = [i \in 0..(b.size - 1) |->
                       IF i < readable(b) THEN Peek(b, i) ELSE b.buf[i]],
            !.read_idx = 0, !.write_idx = readable(b)]

resize(b, size) ==
  [b EXCEPT !.buf = [i \in 0..(size - 1) |->
                       IF i < b.size THEN b.buf[i] ELSE Zero],
            !.size = size]

always_grows(b, len) ==
  IF writable(b) >= len THEN b ELSE resize(b, b.write_idx + len)

\* Space for len more bytes: by moving what is there, or by growing.
ensure_writable(b, len) ==
  IF writable(b) >= len THEN b
  ELSE IF b.read_idx + writable(b) >= len THEN compact(b)
  ELSE resize(b, b.write_idx + len)

=============================================================================
