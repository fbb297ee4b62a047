----------------------------- MODULE HttpProofs -----------------------------
(***************************************************************************)
(* The buffer keeps its bytes and its cursors, serve_http() keeps its       *)
(* memory bounded, and its answers are those the requests deserve, for any  *)
(* bytes, limits and sizes.                                                 *)
(***************************************************************************)
EXTENDS HttpServe, WellFoundedInduction, TLAPS

----------------------------------------------------------------------------
(* Sequences                                                               *)

LEMMA ElementOfSeq ==
  ASSUME NEW S, NEW s \in Seq(S), NEW i \in 1..Len(s)
  PROVE  s[i] \in S
  OBVIOUS

LEMMA EmptySeq ==
  ASSUME NEW S
  PROVE  /\ <<>> \in Seq(S) /\ Len(<<>>) = 0
         /\ \A s \in Seq(S) : s # <<>> => Len(s) \in Nat \ {0}
         /\ \A s \in Seq(S) : Len(s) = 0 => s = <<>>
  OBVIOUS

LEMMA LenProperties ==
  ASSUME NEW S, NEW s \in Seq(S)
  PROVE  Len(s) \in Nat /\ s \in [1..Len(s) -> S] /\ DOMAIN s = 1..Len(s)
  OBVIOUS

LEMMA FunctionIsSeq ==
  ASSUME NEW S, NEW n \in Nat, NEW f \in [1..n -> S]
  PROVE  f \in Seq(S) /\ Len(f) = n /\ DOMAIN f = 1..n
  OBVIOUS

\* Two sequences of the same length and the same elements are equal.
LEMMA SameSeq ==
  ASSUME NEW S, NEW s \in Seq(S), NEW t \in Seq(S), Len(s) = Len(t),
         \A i \in 1..Len(s) : s[i] = t[i]
  PROVE  s = t
  OBVIOUS

LEMMA ConcatProperties ==
  ASSUME NEW S, NEW s \in Seq(S), NEW t \in Seq(S)
  PROVE  /\ s \o t \in Seq(S) /\ Len(s \o t) = Len(s) + Len(t)
         /\ \A i \in 1..Len(s) : (s \o t)[i] = s[i]
         /\ \A i \in 1..Len(t) : (s \o t)[Len(s) + i] = t[i]
  OBVIOUS

LEMMA AppendProperties ==
  ASSUME NEW S, NEW s \in Seq(S), NEW e \in S
  PROVE  /\ Append(s, e) \in Seq(S) /\ Len(Append(s, e)) = Len(s) + 1
         /\ Append(s, e)[Len(s) + 1] = e
         /\ \A i \in 1..Len(s) : Append(s, e)[i] = s[i]
  OBVIOUS

LEMMA ConcatEmptySeq ==
  ASSUME NEW S, NEW s \in Seq(S)
  PROVE  s \o <<>> = s /\ <<>> \o s = s
<1>1. /\ s \o <<>> \in Seq(S) /\ Len(s \o <<>>) = Len(s)
      /\ <<>> \o s \in Seq(S) /\ Len(<<>> \o s) = Len(s)
      /\ \A i \in 1..Len(s) : (s \o <<>>)[i] = s[i] /\ (<<>> \o s)[i] = s[i]
  OBVIOUS
<1> QED
  BY <1>1, SameSeq

LEMMA ConcatAssociative ==
  ASSUME NEW S, NEW s \in Seq(S), NEW t \in Seq(S), NEW u \in Seq(S)
  PROVE  (s \o t) \o u = s \o (t \o u)
<1> DEFINE Concat(p, q, r) ==
             /\ r = p \o q /\ Len(r) = Len(p) + Len(q)
             /\ \A i \in 1..Len(p) : r[i] = p[i]
             /\ \A i \in 1..Len(q) : r[Len(p) + i] = q[i]
<1>1. ASSUME NEW p \in Seq(S), NEW q \in Seq(S)
      PROVE  \E r \in Seq(S) : Concat(p, q, r)
  <2>1. p \o q \in Seq(S) /\ Concat(p, q, p \o q)
    BY ConcatProperties
  <2> QED
    BY <2>1, Zenon
<1> HIDE DEF Concat
<1>2. PICK a \in Seq(S) : Concat(s, t, a)
  BY <1>1, Zenon
<1>3. PICK b \in Seq(S) : Concat(t, u, b)
  BY <1>1, Zenon
<1>4. PICK x \in Seq(S) : Concat(a, u, x)
  BY <1>1, <1>2, Zenon
<1>5. PICK y \in Seq(S) : Concat(s, b, y)
  BY <1>1, <1>3, Zenon
<1>6. /\ Len(s) \in Nat /\ Len(t) \in Nat /\ Len(u) \in Nat
      /\ Len(a) = Len(s) + Len(t) /\ Len(b) = Len(t) + Len(u)
      /\ Len(x) = Len(a) + Len(u) /\ Len(y) = Len(s) + Len(b)
  BY <1>2, <1>3, <1>4, <1>5, LenProperties, Zenon DEF Concat
<1>7. ASSUME NEW i \in 1..Len(x)
      PROVE  x[i] = y[i]
  <2>1. CASE i <= Len(s)
    <3>1. i \in 1..Len(s) /\ i \in 1..Len(a)
      BY <1>6, <2>1
    <3> QED
      BY <1>2, <1>4, <1>5, <3>1, Zenon DEF Concat
  <2>2. CASE i > Len(s) /\ i <= Len(a)
    <3> DEFINE j == i - Len(s)
    <3>1. j \in 1..Len(t) /\ j \in 1..Len(b) /\ i = Len(s) + j /\ i \in 1..Len(a)
      BY <1>6, <2>2
    <3> HIDE DEF j
    <3>2. x[i] = a[i] /\ a[Len(s) + j] = t[j] /\ b[j] = t[j] /\ y[Len(s) + j] = b[j]
      BY <1>2, <1>3, <1>4, <1>5, <3>1, Zenon DEF Concat
    <3> QED
      BY <3>1, <3>2, Zenon
  <2>3. CASE i > Len(a)
    <3> DEFINE j == i - Len(a)
    <3>1. j \in 1..Len(u) /\ Len(t) + j \in 1..Len(b)
          /\ i = Len(a) + j /\ i = Len(s) + (Len(t) + j)
      BY <1>6, <2>3
    <3> HIDE DEF j
    <3>2. /\ x[Len(a) + j] = u[j] /\ b[Len(t) + j] = u[j]
          /\ y[Len(s) + (Len(t) + j)] = b[Len(t) + j]
      BY <1>3, <1>4, <1>5, <3>1, Zenon DEF Concat
    <3> QED
      BY <3>1, <3>2, Zenon
  <2> QED
    BY <1>6, <2>1, <2>2, <2>3
<1>8. Len(x) = Len(y)
  BY <1>6
<1>9. x = y
  BY <1>7, <1>8, SameSeq, Zenon
<1> QED
  BY <1>2, <1>3, <1>4, <1>5, <1>9, Zenon DEF Concat

LEMMA SubSeqProperties ==
  ASSUME NEW S, NEW s, NEW m \in Int, NEW n \in Int, \A i \in m..n : s[i] \in S
  PROVE  /\ SubSeq(s, m, n) \in Seq(S)
         /\ Len(SubSeq(s, m, n)) = IF m <= n THEN n - m + 1 ELSE 0
         /\ \A i \in 1..(n - m + 1) : SubSeq(s, m, n)[i] = s[m + i - 1]
  OBVIOUS

LEMMA SubSeqEmpty ==
  ASSUME NEW s, NEW m \in Int, NEW n \in Int, n < m
  PROVE  SubSeq(s, m, n) = <<>>
  OBVIOUS

LEMMA SubSeqFull ==
  ASSUME NEW S, NEW s \in Seq(S)
  PROVE  SubSeq(s, 1, Len(s)) = s
<1>1. /\ SubSeq(s, 1, Len(s)) \in Seq(S) /\ Len(SubSeq(s, 1, Len(s))) = Len(s)
      /\ \A i \in 1..Len(s) : SubSeq(s, 1, Len(s))[i] = s[i]
  BY ElementOfSeq, LenProperties
<1> QED
  BY <1>1, SameSeq, Zenon

\* What is left after the first of two joined sequences.
LEMMA DropConcat ==
  ASSUME NEW S, NEW s \in Seq(S), NEW t \in Seq(S)
  PROVE  SubSeq(s \o t, Len(s) + 1, Len(s \o t)) = t /\ SubSeq(s \o t, 1, Len(s)) = s
<1>0. /\ s \o t \in Seq(S) /\ Len(s \o t) = Len(s) + Len(t)
      /\ (\A i \in 1..Len(s) : (s \o t)[i] = s[i]) /\ (\A i \in 1..Len(t) : (s \o t)[Len(s) + i] = t[i])
  BY ConcatProperties
<1>1. PICK a \in Seq(S) : a = s \o t /\ Len(a) = Len(s) + Len(t)
        /\ (\A i \in 1..Len(s) : a[i] = s[i]) /\ (\A i \in 1..Len(t) : a[Len(s) + i] = t[i])
  BY <1>0, Zenon
<1>2. Len(s) \in Nat /\ Len(t) \in Nat
  BY LenProperties
<1>3. SubSeq(a, 1, Len(s)) = s
  <2>1. /\ SubSeq(a, 1, Len(s)) \in Seq(S) /\ Len(SubSeq(a, 1, Len(s))) = Len(s)
        /\ \A i \in 1..Len(s) : SubSeq(a, 1, Len(s))[i] = a[i]
    BY <1>1, <1>2
  <2>2. \A i \in 1..Len(s) : a[i] = s[i]
    BY <1>1, <1>2
  <2> QED
    BY <2>1, <2>2, SameSeq, Zenon
<1>4. SubSeq(a, Len(s) + 1, Len(a)) = t
  <2>1. /\ SubSeq(a, Len(s) + 1, Len(a)) \in Seq(S) /\ Len(SubSeq(a, Len(s) + 1, Len(a))) = Len(t)
        /\ \A i \in 1..Len(t) : SubSeq(a, Len(s) + 1, Len(a))[i] = a[Len(s) + i]
    BY <1>1, <1>2
  <2>2. \A i \in 1..Len(t) : a[Len(s) + i] = t[i]
    BY <1>1, <1>2
  <2> QED
    BY <2>1, <2>2, SameSeq, Zenon
<1> QED
  BY <1>1, <1>3, <1>4, Zenon

LEMMA CutInTwo ==
  ASSUME NEW S, NEW s \in Seq(S), NEW n \in Nat, n <= Len(s)
  PROVE  SubSeq(s, 1, n) \o SubSeq(s, n + 1, Len(s)) = s
<1>1. Len(s) \in Nat /\ \A i \in 1..Len(s) : s[i] \in S
  BY LenProperties, ElementOfSeq
<1>2. /\ SubSeq(s, 1, n) \in Seq(S) /\ Len(SubSeq(s, 1, n)) = n
      /\ \A i \in 1..n : SubSeq(s, 1, n)[i] = s[i]
  BY <1>1
<1>3. /\ SubSeq(s, n + 1, Len(s)) \in Seq(S) /\ Len(SubSeq(s, n + 1, Len(s))) = Len(s) - n
      /\ \A i \in 1..(Len(s) - n) : SubSeq(s, n + 1, Len(s))[i] = s[n + i]
  BY <1>1
<1>4. PICK a \in Seq(S), b \in Seq(S) :
        /\ a = SubSeq(s, 1, n) /\ Len(a) = n /\ \A i \in 1..n : a[i] = s[i]
        /\ b = SubSeq(s, n + 1, Len(s)) /\ Len(b) = Len(s) - n
        /\ \A i \in 1..(Len(s) - n) : b[i] = s[n + i]
  BY <1>2, <1>3, Zenon
<1>0. /\ a \o b \in Seq(S) /\ Len(a \o b) = Len(a) + Len(b)
      /\ (\A i \in 1..Len(a) : (a \o b)[i] = a[i]) /\ (\A i \in 1..Len(b) : (a \o b)[Len(a) + i] = b[i])
  BY ConcatProperties
<1>5. PICK c \in Seq(S) : c = a \o b /\ Len(c) = Len(a) + Len(b)
        /\ (\A i \in 1..Len(a) : c[i] = a[i]) /\ (\A i \in 1..Len(b) : c[Len(a) + i] = b[i])
  BY <1>0, Zenon
<1>a. Len(a) = n /\ Len(b) = Len(s) - n /\ Len(c) = Len(a) + Len(b) /\ Len(s) \in Nat
  BY <1>1, <1>4, <1>5, Zenon
<1>6. Len(c) = Len(s)
  BY <1>a
<1>7. ASSUME NEW i \in 1..Len(c)
      PROVE  c[i] = s[i]
  <2>1. CASE i <= n
    <3>1. i \in 1..n
      BY <1>6, <2>1
    <3> QED
      BY <1>4, <1>5, <3>1, Zenon
  <2>2. CASE i > n
    <3>1. PICK j \in 1..(Len(s) - n) : n + j = i /\ j \in 1..Len(b)
      BY <1>a, <1>6, <2>2
    <3> QED
      BY <1>4, <1>5, <3>1, Zenon
  <2> QED
    BY <1>6, <2>1, <2>2
<1>8. c = s
  BY <1>6, <1>7, SameSeq, Zenon
<1> QED
  BY <1>4, <1>5, <1>8, Zenon

----------------------------------------------------------------------------
(* Induction over the numbers, on the set of those that have a property.   *)

LEMMA LeastNatural ==
  ASSUME NEW N, N \subseteq Nat, N # {}
  PROVE  \E x \in N : \A y \in N : x <= y
<1>1. PICK R : R = OpToRel(<, Nat)
  BY Zenon
<1>2. IsWellFoundedOn(R, Nat)
  BY <1>1, NatLessThanWellFounded, Zenon
<1>3. PICK x \in N : \A y \in N : ~(<<y, x>> \in R)
  BY <1>2, WFMin, Zenon
<1>4. \A i, j \in Nat : <<i, j>> \in R <=> i < j
  BY <1>1, SMT DEF OpToRel
<1>5. \A y \in N : ~(y < x) /\ y \in Nat /\ x \in Nat
  BY <1>3, <1>4, Zenon
<1>6. \A y \in N : x <= y
  BY <1>5
<1> QED
  BY <1>6, Zenon

LEMMA Induction ==
  ASSUME NEW N, 0 \in N, \A n \in Nat : n \in N => n + 1 \in N
  PROVE  Nat \subseteq N
<1> SUFFICES ASSUME Nat \ N # {}
             PROVE  FALSE
  BY Zenon
<1>1. PICK x \in Nat \ N : \A y \in Nat \ N : x <= y
  BY LeastNatural, Zenon
<1>2. x - 1 \in Nat /\ x - 1 + 1 = x /\ ~(x <= x - 1)
  BY <1>1
<1>3. x - 1 \in N
  BY <1>1, <1>2, Zenon
<1> QED
  BY <1>1, <1>2, <1>3, Zenon

----------------------------------------------------------------------------
(* Buffer                                                                  *)

\* IsBuffer field by field.
LEMMA BufferFields ==
  ASSUME NEW b, IsBuffer(b)
  PROVE  /\ b = [buf |-> b.buf, size |-> b.size, read_idx |-> b.read_idx,
                 write_idx |-> b.write_idx]
         /\ b.buf \in [0..(b.size - 1) -> Bytes]
         /\ b.size \in Nat \ {0}
         /\ b.read_idx \in 0..b.write_idx
         /\ b.write_idx \in 0..b.size
  BY DEF IsBuffer, BuffersOfSize

\* A record with such fields is a buffer.
LEMMA FieldsBuffer ==
  ASSUME NEW size \in Nat \ {0}, NEW buf \in [0..(size - 1) -> Bytes],
         NEW w \in 0..size, NEW r \in 0..w
  PROVE  IsBuffer([buf |-> buf, size |-> size, read_idx |-> r, write_idx |-> w])
  BY DEF IsBuffer, BuffersOfSize

\* What can be read is a sequence of as many bytes.
LEMMA ContentsType ==
  ASSUME NEW b, IsBuffer(b)
  PROVE  /\ readable(b) \in Nat
         /\ writable(b) \in Nat
         /\ Contents(b) \in Seq(Bytes)
         /\ Len(Contents(b)) = readable(b)
         /\ DOMAIN Contents(b) = 1..readable(b)
         /\ \A i \in 1..readable(b) : Contents(b)[i] = b.buf[b.read_idx + i - 1]
<1>1. readable(b) \in Nat /\ writable(b) \in Nat
  BY BufferFields DEF readable, writable
<1>2. \A i \in 1..readable(b) : b.buf[b.read_idx + (i - 1)] \in Bytes
  BY BufferFields DEF readable
<1>3. Contents(b) \in [1..readable(b) -> Bytes]
  BY <1>1, <1>2, Zenon DEF Contents, Peek
<1> QED
  BY <1>1, <1>3, BufferFields, FunctionIsSeq DEF Contents, Peek

\* consume() takes the first n bytes.
LEMMA ConsumeCorrect ==
  ASSUME NEW b, IsBuffer(b), NEW n \in 0..readable(b)
  PROVE  /\ IsBuffer(consume(b, n))
         /\ consume(b, n).size = b.size
         /\ Contents(consume(b, n)) = SubSeq(Contents(b), n + 1, Len(Contents(b)))
<1> DEFINE c == consume(b, n)
           rest == SubSeq(Contents(b), n + 1, Len(Contents(b)))
<1>1. n \in Nat /\ b.read_idx + n <= b.write_idx
  BY BufferFields, ContentsType DEF readable
<1>2. c = [buf |-> b.buf, size |-> b.size,
           read_idx |-> IF b.read_idx + n = b.write_idx THEN 0 ELSE b.read_idx + n,
           write_idx |-> IF b.read_idx + n = b.write_idx THEN 0 ELSE b.write_idx]
  <2>1. CASE b.read_idx + n = b.write_idx
    BY <2>1, Zenon DEF consume, IsBuffer, BuffersOfSize
  <2>2. CASE b.read_idx + n # b.write_idx
    BY <2>2, Zenon DEF consume, IsBuffer, BuffersOfSize
  <2> QED BY <2>1, <2>2, Zenon
<1>3. IsBuffer(c) /\ c.size = b.size
  <2>1. CASE b.read_idx + n = b.write_idx
    BY <1>1, <1>2, <2>1, BufferFields, FieldsBuffer
  <2>2. CASE b.read_idx + n # b.write_idx
    BY <1>1, <1>2, <2>2, BufferFields, FieldsBuffer
  <2> QED BY <2>1, <2>2, Zenon
<1>4. readable(c) = readable(b) - n
  BY <1>1, <1>2, BufferFields DEF readable
<1>5. rest \in Seq(Bytes) /\ Len(rest) = readable(b) - n
      /\ \A i \in 1..(readable(b) - n) : rest[i] = Contents(b)[n + i]
  BY <1>1, ContentsType, SubSeqProperties, SMTT(30)
<1>6. \A i \in 1..readable(c) : Contents(c)[i] = rest[i]
  <2> SUFFICES ASSUME NEW i \in 1..readable(c) PROVE Contents(c)[i] = rest[i]
    BY Zenon
  <2>1. b.read_idx + n # b.write_idx
    BY <1>1, <1>4, BufferFields DEF readable
  <2>2. Contents(c)[i] = b.buf[b.read_idx + n + i - 1]
    BY <1>2, <1>3, <2>1, ContentsType
  <2>3. n + i \in 1..readable(b) /\ i \in 1..(readable(b) - n)
    BY <1>1, <1>4, ContentsType
  <2>4. rest[i] = Contents(b)[n + i]
    BY <1>5, <2>3, Zenon
  <2>5. Contents(b)[n + i] = b.buf[b.read_idx + (n + i) - 1]
    BY <2>3, ContentsType, Zenon
  <2>6. b.read_idx + n + i - 1 = b.read_idx + (n + i) - 1
    BY <1>1, <2>3, BufferFields
  <2> HIDE DEF c, rest
  <2> QED BY <2>2, <2>4, <2>5, <2>6, Zenon
<1>7. Contents(c) \in Seq(Bytes) /\ Len(Contents(c)) = readable(c)
  BY <1>3, ContentsType, Zenon
<1>8. Contents(c) = rest
  <2> HIDE DEF c, rest
  <2> QED BY <1>4, <1>5, <1>6, <1>7, SameSeq, Zenon
<1> QED BY <1>3, <1>8, Zenon

\* memmove() keeps the bytes, and all the free space is behind them.
LEMMA CompactCorrect ==
  ASSUME NEW b, IsBuffer(b)
  PROVE  /\ IsBuffer(compact(b))
         /\ compact(b).size = b.size
         /\ writable(compact(b)) = b.read_idx + writable(b)
         /\ Contents(compact(b)) = Contents(b)
<1> DEFINE c == compact(b)
           moved == [i \in 0..(b.size - 1) |->
                       IF i < readable(b) THEN Peek(b, i) ELSE b.buf[i]]
<1>1. readable(b) \in 0..b.size
  BY BufferFields DEF readable
<1>2. c = [buf |-> moved, size |-> b.size, read_idx |-> 0, write_idx |-> readable(b)]
  <2>1. c = [b EXCEPT !.buf = moved, !.read_idx = 0, !.write_idx = readable(b)]
    BY Zenon DEF compact
  <2> HIDE DEF c, moved
  <2> QED BY <2>1, Zenon DEF IsBuffer, BuffersOfSize
<1>3. moved \in [0..(b.size - 1) -> Bytes]
  <2> SUFFICES ASSUME NEW i \in 0..(b.size - 1)
               PROVE (IF i < readable(b) THEN Peek(b, i) ELSE b.buf[i]) \in Bytes
    BY Zenon
  <2>1. i < readable(b) => b.read_idx + i \in 0..(b.size - 1)
    BY BufferFields DEF readable
  <2> QED BY <2>1, BufferFields, Zenon DEF Peek
<1>4. IsBuffer(c)
  <2> HIDE DEF moved
  <2> QED BY <1>1, <1>2, <1>3, BufferFields, FieldsBuffer
<1>5. readable(c) = readable(b) /\ writable(c) = b.read_idx + writable(b)
  BY <1>1, <1>2, BufferFields DEF readable, writable
<1>6. \A i \in 1..readable(b) : Contents(c)[i] = Contents(b)[i]
  <2> SUFFICES ASSUME NEW i \in 1..readable(b) PROVE Contents(c)[i] = Contents(b)[i]
    BY Zenon
  <2>1. i - 1 \in 0..(b.size - 1) /\ i - 1 < readable(b)
    BY <1>1, BufferFields
  <2>2. moved[i - 1] = b.buf[b.read_idx + (i - 1)]
    BY <2>1, Zenon DEF Peek
  <2>3. Contents(c)[i] = c.buf[c.read_idx + i - 1]
    BY <1>4, <1>5, ContentsType, Zenon
  <2>4. Contents(b)[i] = b.buf[b.read_idx + i - 1]
    BY ContentsType, Zenon
  <2>5. c.buf = moved /\ c.read_idx + i - 1 = i - 1
    BY <1>2
  <2>6. b.read_idx + i - 1 = b.read_idx + (i - 1)
    BY BufferFields, Zenon
  <2> HIDE DEF c, moved
  <2> QED BY <2>2, <2>3, <2>4, <2>5, <2>6, Zenon
<1>7. Contents(c) = Contents(b)
  <2> HIDE DEF c
  <2> QED BY <1>4, <1>5, <1>6, ContentsType, SameSeq, Zenon
<1> QED BY <1>2, <1>4, <1>5, <1>7

\* Growing keeps the bytes too.
LEMMA ResizeCorrect ==
  ASSUME NEW b, IsBuffer(b), NEW size \in Nat, size >= b.size
  PROVE  /\ IsBuffer(resize(b, size))
         /\ resize(b, size).size = size
         /\ writable(resize(b, size)) = size - b.write_idx
         /\ Contents(resize(b, size)) = Contents(b)
<1> DEFINE c == resize(b, size)
           grown == [i \in 0..(size - 1) |-> IF i < b.size THEN b.buf[i] ELSE Zero]
<1>2. c = [buf |-> grown, size |-> size, read_idx |-> b.read_idx,
           write_idx |-> b.write_idx]
  <2>1. c = [b EXCEPT !.buf = grown, !.size = size]
    BY Zenon DEF resize
  <2> HIDE DEF c, grown
  <2> QED BY <2>1, Zenon DEF IsBuffer, BuffersOfSize
<1>3. grown \in [0..(size - 1) -> Bytes]
  BY BufferFields, BytesAssumption
<1>4. IsBuffer(c)
  <2>1. size \in Nat \ {0} /\ b.write_idx \in 0..size /\ b.read_idx \in 0..b.write_idx
    BY BufferFields
  <2> HIDE DEF grown
  <2> QED BY <1>2, <1>3, <2>1, FieldsBuffer, Zenon
<1>5. readable(c) = readable(b) /\ writable(c) = size - b.write_idx
  BY <1>2 DEF readable, writable
<1>6. \A i \in 1..readable(b) : Contents(c)[i] = Contents(b)[i]
  <2> SUFFICES ASSUME NEW i \in 1..readable(b) PROVE Contents(c)[i] = Contents(b)[i]
    BY Zenon
  <2>1. b.read_idx + i - 1 \in 0..(b.size - 1)
    BY BufferFields DEF readable
  <2>2. grown[b.read_idx + i - 1] = b.buf[b.read_idx + i - 1]
    BY <2>1, BufferFields
  <2>3. Contents(c)[i] = c.buf[c.read_idx + i - 1]
    BY <1>4, <1>5, ContentsType, Zenon
  <2>4. Contents(b)[i] = b.buf[b.read_idx + i - 1]
    BY ContentsType, Zenon
  <2>5. c.buf = grown /\ c.read_idx = b.read_idx
    BY <1>2
  <2> HIDE DEF c, grown
  <2> QED BY <2>2, <2>3, <2>4, <2>5, Zenon
<1>7. Contents(c) = Contents(b)
  <2> HIDE DEF c
  <2> QED BY <1>4, <1>5, <1>6, ContentsType, SameSeq, Zenon
<1> QED BY <1>2, <1>4, <1>5, <1>7

\* ensure_writable() makes room and keeps the bytes; when it must grow, what
\* is held lies less than one request for space from the front of the array.
LEMMA EnsureCorrect ==
  ASSUME NEW b, IsBuffer(b), NEW len \in Nat
  PROVE  /\ IsBuffer(ensure_writable(b, len))
         /\ writable(ensure_writable(b, len)) >= len
         /\ Contents(ensure_writable(b, len)) = Contents(b)
         /\ \/ ensure_writable(b, len).size = b.size
            \/ ensure_writable(b, len).size < readable(b) + 2 * len
<1>1. CASE writable(b) >= len
  BY <1>1, Zenon DEF ensure_writable
<1>2. CASE writable(b) < len /\ b.read_idx + writable(b) >= len
  <2>1. ensure_writable(b, len) = compact(b)
    BY <1>2, ContentsType DEF ensure_writable
  <2> QED BY <1>2, <2>1, CompactCorrect, Zenon
<1>3. CASE writable(b) < len /\ b.read_idx + writable(b) < len
  <2>1. ensure_writable(b, len) = resize(b, b.write_idx + len)
    BY <1>3, ContentsType, BufferFields DEF ensure_writable
  <2>2. b.write_idx + len \in Nat /\ b.write_idx + len >= b.size
    BY <1>3, BufferFields DEF writable
  <2>3. b.write_idx + len < readable(b) + 2 * len
    BY <1>3, BufferFields DEF writable, readable
  <2>4. (b.write_idx + len) - b.write_idx = len
    BY BufferFields
  <2> QED BY <2>1, <2>2, <2>3, <2>4, ResizeCorrect
<1> QED BY <1>1, <1>2, <1>3, ContentsType, BufferFields

\* Writing appends.
LEMMA WriteCorrect ==
  ASSUME NEW b, IsBuffer(b), NEW data \in Seq(Bytes), Len(data) <= writable(b)
  PROVE  /\ IsBuffer(Write(b, data))
         /\ Write(b, data).size = b.size
         /\ Contents(Write(b, data)) = Contents(b) \o data
<1> DEFINE c == Write(b, data)
           n == Len(data)
           filled == [i \in 0..(b.size - 1) |->
                        IF i \in b.write_idx..(b.write_idx + n - 1)
                          THEN data[i - b.write_idx + 1] ELSE b.buf[i]]
<1>1. n \in Nat /\ b.write_idx + n <= b.size
  BY BufferFields, LenProperties DEF writable
<1>2. c = [buf |-> filled, size |-> b.size, read_idx |-> b.read_idx,
           write_idx |-> b.write_idx + n]
  <2>1. c = [b EXCEPT !.buf = filled, !.write_idx = b.write_idx + n]
    BY Zenon DEF Write
  <2> HIDE DEF c, filled, n
  <2> QED BY <2>1, Zenon DEF IsBuffer, BuffersOfSize
<1>3. filled \in [0..(b.size - 1) -> Bytes]
  <2> SUFFICES ASSUME NEW i \in 0..(b.size - 1)
               PROVE (IF i \in b.write_idx..(b.write_idx + n - 1)
                          THEN data[i - b.write_idx + 1] ELSE b.buf[i]) \in Bytes
    BY Zenon
  <2>1. CASE i \in b.write_idx..(b.write_idx + n - 1)
    <3>1. i - b.write_idx + 1 \in 1..n
      BY <1>1, <2>1, BufferFields, SMTT(30)
    <3> QED BY <2>1, <3>1, ElementOfSeq, Zenon
  <2>2. CASE i \notin b.write_idx..(b.write_idx + n - 1)
    BY <2>2, BufferFields, Zenon
  <2> QED BY <2>1, <2>2, Zenon
<1>4. IsBuffer(c)
  <2>1. /\ b.size \in Nat \ {0}
        /\ b.write_idx + n \in 0..b.size
        /\ b.read_idx \in 0..(b.write_idx + n)
    BY <1>1, BufferFields
  <2> HIDE DEF filled, n, c
  <2> QED BY <1>2, <1>3, <2>1, FieldsBuffer, Zenon
<1>5. readable(c) = readable(b) + n
  BY <1>1, <1>2, BufferFields DEF readable
<1>6. ASSUME NEW i \in 1..readable(c)
      PROVE  Contents(c)[i] = (Contents(b) \o data)[i]
  <2>1. Contents(c)[i] = filled[b.read_idx + i - 1]
    <3>1. Contents(c)[i] = c.buf[c.read_idx + i - 1]
      BY <1>4, ContentsType, Zenon
    <3>2. c.buf = filled /\ c.read_idx = b.read_idx
      BY <1>2
    <3> HIDE DEF c, filled
    <3> QED BY <3>1, <3>2, Zenon
  <2>2. b.read_idx + i - 1 \in 0..(b.size - 1) /\ i \in 1..(readable(b) + n)
    BY <1>1, <1>5, BufferFields, SMTT(30) DEF readable
  <2>3. /\ \A j \in 1..readable(b) : (Contents(b) \o data)[j] = Contents(b)[j]
        /\ \A j \in 1..n : (Contents(b) \o data)[readable(b) + j] = data[j]
    <3> DEFINE held == Contents(b)
    <3>1. held \in Seq(Bytes) /\ Len(held) = readable(b)
      BY ContentsType, Zenon
    <3> HIDE DEF held
    <3>2. /\ \A j \in 1..Len(held) : (held \o data)[j] = held[j]
          /\ \A j \in 1..n : (held \o data)[Len(held) + j] = data[j]
      BY <3>1, ConcatProperties
    <3> QED BY <3>1, <3>2, Zenon DEF held
  <2>4. CASE i <= readable(b)
    <3>1. b.read_idx + i - 1 < b.write_idx
      BY <2>2, <2>4, BufferFields DEF readable
    <3>2. filled[b.read_idx + i - 1] = b.buf[b.read_idx + i - 1]
      BY <1>1, <2>2, <3>1, BufferFields
    <3>3. i \in 1..readable(b)
      BY <2>2, <2>4, ContentsType
    <3>4. Contents(b)[i] = b.buf[b.read_idx + i - 1]
      BY <3>3, ContentsType, Zenon
    <3> QED BY <2>1, <2>3, <3>2, <3>3, <3>4, Zenon
  <2>5. CASE i > readable(b)
    <3>1. b.read_idx + i - 1 \in b.write_idx..(b.write_idx + n - 1)
      BY <1>1, <2>2, <2>5, BufferFields DEF readable
    <3>2. filled[b.read_idx + i - 1] = data[(b.read_idx + i - 1) - b.write_idx + 1]
      BY <2>2, <3>1, Zenon
    <3>3. (b.read_idx + i - 1) - b.write_idx + 1 = i - readable(b)
      BY <2>2, BufferFields DEF readable
    <3>4. i - readable(b) \in 1..n /\ readable(b) + (i - readable(b)) = i
      BY <1>1, <2>2, <2>5, ContentsType
    <3> HIDE DEF c, filled, n
    <3> QED BY <2>1, <2>3, <3>2, <3>3, <3>4, Zenon
  <2> QED BY <2>2, <2>4, <2>5, ContentsType, SMTT(30)
<1>7. Contents(c) = Contents(b) \o data
  <2>1. Contents(b) \o data \in Seq(Bytes) /\ Len(Contents(b) \o data) = readable(b) + n
    BY ContentsType, ConcatProperties, ZenonT(30)
  <2> HIDE DEF c, n
  <2> QED BY <1>4, <1>5, <1>6, <2>1, ContentsType, SameSeq, ZenonT(30)
<1> QED BY <1>2, <1>4, <1>7

\* A new buffer is empty.
LEMMA NewBufferCorrect ==
  /\ IsBuffer(NewBuffer(Initial))
  /\ Contents(NewBuffer(Initial)) = <<>>
  /\ NewBuffer(Initial).size = IF Initial = 0 THEN 1 ELSE Initial
<1> DEFINE b == NewBuffer(Initial)
           size == IF Initial = 0 THEN 1 ELSE Initial
           zeros == [i \in 0..(size - 1) |-> Zero]
<1>1. size \in Nat \ {0} /\ zeros \in [0..(size - 1) -> Bytes]
  BY ParserAssumption, BytesAssumption
<1>2. b = [buf |-> zeros, size |-> size, read_idx |-> 0, write_idx |-> 0]
  BY Zenon DEF NewBuffer
<1>3. IsBuffer(b)
  <2> HIDE DEF zeros, size, b
  <2> QED BY <1>1, <1>2, FieldsBuffer
<1>4. Len(Contents(b)) = 0 /\ Contents(b) \in Seq(Bytes)
  <2>1. readable(b) = 0
    BY <1>2 DEF readable
  <2> HIDE DEF b
  <2> QED BY <1>3, <2>1, ContentsType, Zenon
<1>5. Contents(b) = <<>>
  <2> HIDE DEF b
  <2> QED BY <1>4, EmptySeq, Zenon
<1> QED BY <1>2, <1>3, <1>5

----------------------------------------------------------------------------
(* The parser and serve_http()                                             *)

\* A line lies in the buffer with its two end bytes.
LEMMA LineInBuffer ==
  ASSUME IsBuffer(input), NEW end \in find_crlf(input)
  PROVE  /\ end \in Nat
         /\ end + 2 \in 0..readable(input)
         /\ Taken(end) \in Seq(Bytes)
         /\ Len(Taken(end)) = end
<1>1. readable(input) \in Nat /\ Contents(input) \in Seq(Bytes)
      /\ Len(Contents(input)) = readable(input)
  BY ContentsType, Zenon
<1>2. end \in 0..(readable(input) - 2)
  BY Zenon DEF find_crlf
<1>3. end \in Nat /\ end + 2 \in 0..readable(input) /\ end \in 0..readable(input)
  BY <1>1, <1>2
<1> QED BY <1>1, <1>3, SubSeqProperties DEF Taken

ParserType ==
  [state : {"REQUEST_LINE", "HEADERS", "BODY", "DONE"},
   path : Seq(Bytes), body : Seq(Bytes), content_length : Nat,
   header_bytes : Nat, content_length_seen : BOOLEAN]

\* The types with the limits: a declared length has passed its test when it
\* is stored.
HttpInv ==
  /\ HttpTypeOK
  /\ parser.content_length <= body_bytes
  /\ IncompleteIsBounded
  /\ CapacityBounded

\* HttpInv when the array is not grown.
LEMMA InvFrom ==
  ASSUME HttpInv,
         IsBuffer(input'), input'.size = input.size,
         parser' \in ParserType, parser'.content_length <= body_bytes,
         pc' \in {"parse", "read", "bad", "gone"}, wire' \in Seq(Bytes),
         pc' = "read" => readable(input)' <= Pending'
  PROVE  HttpInv'
<1>1. HttpTypeOK' BY Zenon DEF HttpTypeOK, ParserType
<1>2. CapacityBounded' BY Zenon DEF HttpInv, CapacityBounded
<1>3. IncompleteIsBounded' BY Zenon DEF IncompleteIsBounded
<1> QED BY <1>1, <1>2, <1>3, Zenon DEF HttpInv

\* parse() that ends without a request: within the bounds, or an ERROR.
LEMMA WaitKeeps ==
  ASSUME HttpInv, NEW tooMuch \in BOOLEAN, Wait(tooMuch), UNCHANGED wire,
         ~tooMuch => readable(input) <= Pending
  PROVE  HttpInv'
<1>1. /\ UNCHANGED <<input, parser, wire>>
      /\ pc' \in {"read", "bad"}
      /\ pc' = "read" => ~tooMuch
  BY Zenon DEF Wait
<1>2. readable(input)' = readable(input) /\ Pending' = Pending
  BY <1>1, Zenon DEF readable, Pending
<1> QED BY <1>1, <1>2, InvFrom, Zenon DEF HttpInv, HttpTypeOK, ParserType

LEMMA RequestLineKeeps == HttpInv /\ parse_request_line => HttpInv'
<1> SUFFICES ASSUME HttpInv, parse_request_line PROVE HttpInv'
  BY Zenon
<1>0. IsBuffer(input) /\ parser \in ParserType /\ UNCHANGED wire /\ wire \in Seq(Bytes)
      /\ parser.content_length <= body_bytes
      /\ pc = "parse" /\ parser.state = "REQUEST_LINE"
  BY Zenon DEF HttpInv, HttpTypeOK, ParserType, parse_request_line
<1>1. CASE find_crlf(input) = {} /\ Wait(RequestLineTooLong)
  <2>1. RequestLineTooLong \in BOOLEAN
    BY DEF RequestLineTooLong
  <2>2. ~RequestLineTooLong => readable(input) <= Pending
    BY <1>0, ContentsType, ParserAssumption DEF RequestLineTooLong, Pending
  <2> HIDE DEF RequestLineTooLong
  <2> QED BY <1>0, <1>1, <2>1, <2>2, WaitKeeps, Zenon
<1>2. ASSUME NEW end \in find_crlf(input), LineTooLong(end), Wait(TRUE)
      PROVE  HttpInv'
  BY <1>0, <1>2, WaitKeeps, Zenon
<1>3. ASSUME NEW end \in find_crlf(input),
             input' = consume(input, end + 2),
             \/ /\ parser' = [parser EXCEPT !.state = "HEADERS", !.path = Taken(end)]
                /\ UNCHANGED pc
             \/ pc' = "bad" /\ UNCHANGED parser
      PROVE  HttpInv'
  <2>1. IsBuffer(input') /\ input'.size = input.size
    BY <1>0, <1>3, LineInBuffer, ConsumeCorrect, Zenon
  <2>2. parser' \in ParserType /\ parser'.content_length <= body_bytes
    <3>1. Taken(end) \in Seq(Bytes)
      BY <1>0, LineInBuffer, Zenon
    <3>2. CASE parser' = [parser EXCEPT !.state = "HEADERS", !.path = Taken(end)]
      BY <1>0, <3>1, <3>2, Zenon DEF ParserType
    <3> QED BY <1>0, <1>3, <3>2, Zenon
  <2>3. pc' \in {"parse", "bad"}
    BY <1>0, <1>3, Zenon
  <2> QED BY <1>0, <2>1, <2>2, <2>3, InvFrom, Zenon
<1> QED BY <1>1, <1>2, <1>3, Zenon DEF parse_request_line

LEMMA HeadersKeep == HttpInv /\ parse_headers => HttpInv'
<1> SUFFICES ASSUME HttpInv, parse_headers PROVE HttpInv'
  BY Zenon
<1>0. /\ IsBuffer(input) /\ parser \in ParserType /\ UNCHANGED wire
      /\ wire \in Seq(Bytes) /\ parser.content_length <= body_bytes
      /\ pc = "parse" /\ parser.state = "HEADERS"
  BY Zenon DEF HttpInv, HttpTypeOK, ParserType, parse_headers
<1>1. ASSUME find_crlf(input) = {},
             Wait(parser.header_bytes + readable(input) > header_bytes)
      PROVE  HttpInv'
  <2> DEFINE tooMuch == parser.header_bytes + readable(input) > header_bytes
  <2>1. tooMuch \in BOOLEAN
    OBVIOUS
  <2>2. ~tooMuch => readable(input) <= Pending
    BY <1>0, ContentsType, ParserAssumption, SMTT(30) DEF Pending, ParserType
  <2>3. Wait(tooMuch)
    BY <1>1, Zenon
  <2> HIDE DEF tooMuch
  <2> QED BY <1>0, <2>1, <2>2, <2>3, WaitKeeps, Zenon
<1>2. ASSUME Wait(TRUE) PROVE HttpInv'
  BY <1>0, <1>2, WaitKeeps, Zenon
<1>3. ASSUME NEW end \in find_crlf(input), parse_header(Taken(end))
      PROVE  HttpInv'
  <2> DEFINE line == Taken(end)
             counted == [parser EXCEPT !.header_bytes = Counted(line)]
  <2>1. line \in Seq(Bytes) /\ Len(line) = end /\ end \in Nat
        /\ end + 2 \in 0..readable(input)
    BY <1>0, LineInBuffer, Zenon
  <2>2. IsBuffer(input') /\ input'.size = input.size
    BY <1>0, <1>3, <2>1, ConsumeCorrect, Zenon DEF parse_header
  <2>3. counted \in ParserType /\ counted.content_length = parser.content_length
    <3>1. Counted(line) \in Nat
      BY <1>0, <2>1 DEF ParserType, Counted
    <3> HIDE DEF line
    <3> QED BY <1>0, <3>1, Zenon DEF ParserType
  <2>4. \/ parser' = counted
        \/ \E state \in {"DONE", "BODY"} : parser' = [counted EXCEPT !.state = state]
        \/ /\ line # <<>> /\ line[1] = Length /\ ~BadHeader(line)
           /\ parser' = [counted EXCEPT !.content_length = Value(line[2]),
                                        !.content_length_seen = TRUE]
    BY <1>3, Zenon DEF parse_header
  <2>5. parser' \in ParserType /\ parser'.content_length <= body_bytes
    <3> HIDE DEF counted, line
    <3>1. CASE parser' = counted
      BY <1>0, <2>3, <3>1, Zenon
    <3>2. ASSUME NEW state \in {"DONE", "BODY"},
                 parser' = [counted EXCEPT !.state = state]
          PROVE  parser' \in ParserType /\ parser'.content_length <= body_bytes
      BY <1>0, <2>3, <3>2, Zenon DEF ParserType
    <3>3. CASE /\ line # <<>> /\ line[1] = Length /\ ~BadHeader(line)
               /\ parser' = [counted EXCEPT !.content_length = Value(line[2]),
                                            !.content_length_seen = TRUE]
      <4>1. line[2] \in Digits /\ ~(Value(line[2]) > body_bytes)
        BY <3>3, Zenon DEF BadHeader, parse_size
      <4>2. Value(line[2]) \in Nat /\ body_bytes \in Nat
        BY <4>1, ParserAssumption, Zenon
      <4>3. Value(line[2]) <= body_bytes
        BY <4>1, <4>2
      <4> QED BY <2>3, <3>3, <4>2, <4>3, Zenon DEF ParserType
    <3> QED BY <2>4, <3>1, <3>2, <3>3, Zenon
  <2>6. pc' \in {"parse", "bad"}
    BY <1>0, <1>3, Zenon DEF parse_header
  <2> QED BY <1>0, <2>2, <2>5, <2>6, InvFrom, Zenon
<1> QED BY <1>1, <1>2, <1>3, Zenon DEF parse_headers

LEMMA BodyKeeps == HttpInv /\ parse_body => HttpInv'
<1> SUFFICES ASSUME HttpInv, parse_body PROVE HttpInv'
  BY Zenon
<1>0. /\ IsBuffer(input) /\ parser \in ParserType /\ UNCHANGED wire
      /\ wire \in Seq(Bytes) /\ parser.content_length <= body_bytes
      /\ pc = "parse" /\ parser.state = "BODY"
  BY Zenon DEF HttpInv, HttpTypeOK, ParserType, parse_body
<1>1. parser.content_length \in Nat /\ body_bytes \in Nat /\ readable(input) \in Nat
  BY <1>0, ContentsType, ParserAssumption, Zenon DEF ParserType
<1>2. CASE readable(input) < parser.content_length
  <2>1. Wait(FALSE)
    BY <1>0, <1>1, <1>2 DEF parse_body, Wait
  <2>2. readable(input) <= Pending
    BY <1>0, <1>1, <1>2 DEF Pending
  <2> QED BY <1>0, <2>1, <2>2, WaitKeeps, Zenon
<1>3. CASE ~(readable(input) < parser.content_length)
  <2>1. /\ parser' = [parser EXCEPT !.state = "DONE",
                                    !.body = Taken(parser.content_length)]
        /\ input' = consume(input, parser.content_length)
        /\ UNCHANGED pc
    BY <1>0, <1>1, <1>3 DEF parse_body
  <2>2. parser.content_length \in 0..readable(input)
    BY <1>1, <1>3
  <2>3. IsBuffer(input') /\ input'.size = input.size
    BY <1>0, <2>1, <2>2, ConsumeCorrect, Zenon
  <2>4. Taken(parser.content_length) \in Seq(Bytes)
    BY <1>0, <1>1, <2>2, ContentsType, SubSeqProperties, SMTT(30) DEF Taken
  <2>5. parser' \in ParserType /\ parser'.content_length <= body_bytes
    BY <1>0, <2>1, <2>4, Zenon DEF ParserType
  <2> QED BY <1>0, <2>1, <2>3, <2>5, InvFrom, Zenon
<1> QED BY <1>2, <1>3, Zenon

\* read_some() is the only step that may grow the array.
LEMMA ReadKeeps ==
  HttpInv /\ ((\E n \in 1..MaxRead : Read(n)) \/ ReadFails) => HttpInv'
<1> SUFFICES ASSUME HttpInv, (\E n \in 1..MaxRead : Read(n)) \/ ReadFails
             PROVE  HttpInv'
  BY Zenon
<1> DEFINE room == ensure_writable(input, MaxRead)
<1>0. /\ IsBuffer(input) /\ parser \in ParserType /\ wire \in Seq(Bytes)
      /\ parser.content_length <= body_bytes /\ pc = "read"
      /\ UNCHANGED parser /\ pc' \in {"parse", "gone"}
      /\ MaxRead \in Nat \ {0}
  BY ParserAssumption, Zenon DEF HttpInv, HttpTypeOK, ParserType, Read, ReadFails
<1>1. /\ IsBuffer(room) /\ writable(room) >= MaxRead
      /\ room.size = input.size \/ room.size < readable(input) + 2 * MaxRead
  BY <1>0, EnsureCorrect, Zenon
<1>2. IsBuffer(input') /\ input'.size = room.size /\ wire' \in Seq(Bytes)
  <2>1. CASE ReadFails
    BY <1>0, <1>1, <2>1, Zenon DEF ReadFails
  <2>2. ASSUME NEW n \in 1..MaxRead, Read(n)
        PROVE  IsBuffer(input') /\ input'.size = room.size /\ wire' \in Seq(Bytes)
    <3>1. n \in Nat /\ n <= Len(wire) /\ Len(wire) \in Nat
      BY <1>0, <2>2, LenProperties DEF Read
    <3>2. SubSeq(wire, 1, n) \in Seq(Bytes) /\ Len(SubSeq(wire, 1, n)) = n
      BY <1>0, <3>1, SubSeqProperties
    <3>3. n <= writable(room)
      BY <1>0, <1>1, <2>2, ContentsType, SMTT(30)
    <3>4. wire' \in Seq(Bytes)
      BY <1>0, <2>2, <3>1, SubSeqProperties DEF Read
    <3>5. input' = Write(room, SubSeq(wire, 1, n))
      BY <2>2, Zenon DEF Read
    <3> HIDE DEF room
    <3> QED BY <1>1, <3>2, <3>3, <3>4, <3>5, WriteCorrect, Zenon
  <2> QED BY <2>1, <2>2, Zenon
<1>3. \E limit \in {request_line_bytes, header_bytes, body_bytes} :
        readable(input) <= limit
  BY <1>0, ContentsType, ParserAssumption, SMTT(30)
     DEF HttpInv, IncompleteIsBounded, Pending, ParserType
<1>4. CapacityBounded'
  <2>1. input.size \in Nat /\ room.size \in Nat /\ readable(input) \in Nat
    BY <1>0, <1>1, BufferFields, ContentsType, Zenon
  <2>2. CASE room.size = input.size
    BY <1>2, <2>2, Zenon DEF HttpInv, CapacityBounded
  <2>3. CASE room.size < readable(input) + 2 * MaxRead
    <3> HIDE DEF room
    <3>1. PICK limit \in {request_line_bytes, header_bytes, body_bytes} :
            readable(input) <= limit
      BY <1>3, Zenon
    <3>2. limit \in Nat
      BY <3>1, ParserAssumption, Zenon
    <3>3. room.size <= limit + 2 * MaxRead
      BY <1>0, <2>1, <2>3, <3>1, <3>2, SMTT(30)
    <3> QED BY <1>2, <3>3, Zenon DEF CapacityBounded
  <2> QED BY <1>1, <2>2, <2>3, Zenon
<1>5. HttpTypeOK' /\ IncompleteIsBounded'
  BY <1>0, <1>2, Zenon DEF HttpTypeOK, ParserType, IncompleteIsBounded
<1> QED BY <1>0, <1>4, <1>5, Zenon DEF HttpInv

LEMMA HttpInductive == HttpInv /\ [Next]_vars => HttpInv'
<1> SUFFICES ASSUME HttpInv, [Next]_vars PROVE HttpInv'
  BY Zenon
<1>1. CASE parse_request_line BY <1>1, RequestLineKeeps, Zenon
<1>2. CASE parse_headers BY <1>2, HeadersKeep, Zenon
<1>3. CASE parse_body BY <1>3, BodyKeeps, Zenon
<1>4. CASE Respond
  <2>1. parser' \in ParserType /\ parser'.content_length <= body_bytes
    <3>1. Fresh \in ParserType /\ Fresh.content_length <= body_bytes
      BY ParserAssumption, EmptySeq DEF Fresh, ParserType
    <3> QED BY <1>4, <3>1, Zenon DEF Respond, HttpInv, HttpTypeOK, ParserType
  <2>2. UNCHANGED <<input, wire>> /\ pc' \in {"parse", "gone"}
    BY <1>4, Zenon DEF Respond
  <2> QED BY <2>1, <2>2, InvFrom, Zenon DEF HttpInv, HttpTypeOK
<1>5. CASE send_bad_request
  <2>1. UNCHANGED <<input, parser, wire>> /\ pc' = "gone"
    BY <1>5, Zenon DEF send_bad_request
  <2> QED BY <2>1, InvFrom, Zenon DEF HttpInv, HttpTypeOK, ParserType
<1>6. CASE (\E n \in 1..MaxRead : Read(n)) \/ ReadFails BY <1>6, ReadKeeps, Zenon
<1>7. CASE UNCHANGED vars
  <2>1. UNCHANGED <<input, parser, pc, wire>>
    BY <1>7, Zenon DEF vars
  <2>2. readable(input)' = readable(input) /\ Pending' = Pending
    BY <2>1, Zenon DEF readable, Pending
  <2> QED BY <2>1, <2>2, InvFrom, Zenon DEF HttpInv, HttpTypeOK, ParserType, IncompleteIsBounded
<1> QED BY <1>1, <1>2, <1>3, <1>4, <1>5, <1>6, <1>7, Zenon DEF Next

LEMMA HttpInitial == (\E bytes \in Streams : Start(bytes)) => HttpInv
<1> SUFFICES ASSUME NEW bytes \in Streams, Start(bytes) PROVE HttpInv
  BY Zenon
<1>1. IsBuffer(input) /\ input.size = IF Initial = 0 THEN 1 ELSE Initial
  BY NewBufferCorrect, Zenon DEF Start
<1>2. HttpTypeOK
  BY <1>1, ParserAssumption, EmptySeq, Zenon DEF Start, HttpTypeOK, Fresh
<1>3. parser.content_length <= body_bytes /\ pc = "parse"
  BY ParserAssumption DEF Start, Fresh
<1>4. CapacityBounded
  BY <1>1, ParserAssumption DEF CapacityBounded
<1> QED BY <1>2, <1>3, <1>4, Zenon DEF HttpInv, IncompleteIsBounded

LEMMA HttpInvariant == Spec => []HttpInv
  BY HttpInitial, HttpInductive, PTL DEF Spec

\* Buffer, parser and serve_http() keep their types, whatever the peer sends:
\* consume() and has_written() are never asked for more than there is.
THEOREM HttpTypeCorrect == Spec => []HttpTypeOK
<1>1. HttpInv => HttpTypeOK BY Zenon DEF HttpInv
<1> QED BY <1>1, HttpInvariant, PTL

\* When parse() asks for more bytes, what is held is within the limits.
THEOREM InputBounded == Spec => []IncompleteIsBounded
<1>1. HttpInv => IncompleteIsBounded BY Zenon DEF HttpInv
<1> QED BY <1>1, HttpInvariant, PTL

\* The array of the input buffer never exceeds the largest limit by more than
\* two reads, for any limits and sizes and however the bytes are cut.
THEOREM MemoryBounded == Spec => []CapacityBounded
<1>1. HttpInv => CapacityBounded BY Zenon DEF HttpInv
<1> QED BY <1>1, HttpInvariant, PTL

----------------------------------------------------------------------------
(* No byte is lost.                                                        *)

\* s is what t ends with.
Ends(s, t) == Len(s) <= Len(t) /\ s = SubSeq(t, Len(t) - Len(s) + 1, Len(t))

\* What is left of the end of t is the end of t.
LEMMA RestOfSuffix ==
  ASSUME NEW t \in Seq(Bytes), NEW s \in Seq(Bytes), Ends(s, t), NEW n \in 0..Len(s)
  PROVE  Ends(SubSeq(s, n + 1, Len(s)), t)
<1> DEFINE l == Len(t) - Len(s)
           a == SubSeq(s, n + 1, Len(s))
           b == SubSeq(t, Len(t) - Len(a) + 1, Len(t))
<1>1. Len(t) \in Nat /\ Len(s) \in Nat /\ n \in Nat /\ l \in Nat /\ n <= Len(s)
  BY LenProperties DEF Ends
<1>2. \A i \in 1..Len(s) : s[i] = t[l + i]
  <2>1. \A i \in 1..(Len(t) - (l + 1) + 1) : SubSeq(t, l + 1, Len(t))[i] = t[(l + 1) + i - 1]
    BY <1>1, ElementOfSeq, SubSeqProperties
  <2>2. Len(t) - (l + 1) + 1 = Len(s) /\ \A i \in 1..Len(s) : (l + 1) + i - 1 = l + i
    BY <1>1
  <2> QED BY <2>1, <2>2, Zenon DEF Ends
<1>3. a \in Seq(Bytes) /\ Len(a) = Len(s) - n /\ \A i \in 1..(Len(s) - n) : a[i] = s[n + i]
  BY <1>1, ElementOfSeq, SubSeqProperties
<1>4. Len(t) - Len(a) = l + n /\ Len(t) - (l + n) = Len(a) /\ Len(a) <= Len(t)
  <2> HIDE DEF a
  <2> QED BY <1>1, <1>3
<1>5. b \in Seq(Bytes) /\ Len(b) = Len(a) /\ \A i \in 1..Len(a) : b[i] = t[l + n + i]
  <2> HIDE DEF a
  <2>1. l + n \in Nat /\ Len(a) \in Nat
    BY <1>1, <1>3
  <2>2. /\ SubSeq(t, l + n + 1, Len(t)) \in Seq(Bytes)
        /\ Len(SubSeq(t, l + n + 1, Len(t))) = Len(t) - (l + n)
        /\ \A i \in 1..(Len(t) - (l + n)) : SubSeq(t, l + n + 1, Len(t))[i] = t[l + n + i]
    BY <1>1, <1>4, <2>1, ElementOfSeq, SubSeqProperties
  <2> QED BY <1>4, <2>2, Zenon
<1>6. ASSUME NEW i \in 1..Len(a) PROVE a[i] = b[i]
  <2> HIDE DEF a, b
  <2>1. i \in 1..(Len(s) - n) /\ n + i \in 1..Len(s) /\ l + (n + i) = l + n + i
    BY <1>1, <1>3
  <2> QED BY <1>2, <1>3, <1>5, <2>1, Zenon
<1> HIDE DEF a, b
<1>7. a = b
  BY <1>3, <1>5, <1>6, SameSeq, Zenon
<1> QED BY <1>4, <1>7, Zenon DEF Ends, a, b

\* Taking from the front of a concatenation.
LEMMA RestOfConcat ==
  ASSUME NEW s \in Seq(Bytes), NEW t \in Seq(Bytes), NEW n \in 0..Len(s)
  PROVE  SubSeq(s, n + 1, Len(s)) \o t = SubSeq(s \o t, n + 1, Len(s \o t))
<1> DEFINE front == SubSeq(s, 1, n)
           rest == SubSeq(s, n + 1, Len(s))
<1>1. n \in Nat /\ n <= Len(s) /\ Len(s) \in Nat
  BY LenProperties
<1>2. front \in Seq(Bytes) /\ Len(front) = n /\ rest \in Seq(Bytes)
  BY <1>1, ElementOfSeq, SubSeqProperties
<1>3. front \o rest = s
  BY <1>1, CutInTwo, Zenon
<1> HIDE DEF front, rest
<1>4. PICK r \in Seq(Bytes) : r = rest \o t
  <2>1. rest \o t \in Seq(Bytes)
    BY <1>2, ConcatProperties
  <2> QED
    BY <2>1, Zenon
<1>5. (front \o rest) \o t = front \o r
  <2>1. \A p, q \in Seq(Bytes) : (p \o q) \o t = p \o (q \o t)
    <3> SUFFICES ASSUME NEW p \in Seq(Bytes), NEW q \in Seq(Bytes)
                 PROVE  (p \o q) \o t = p \o (q \o t)
      BY Zenon
    <3> QED
      BY ConcatAssociative, SMTT(30)
  <2> QED BY <1>2, <1>4, <2>1, Zenon
<1>6. SubSeq(front \o r, n + 1, Len(front \o r)) = r
  BY <1>2, <1>4, DropConcat, Zenon
<1> QED
  BY <1>3, <1>4, <1>5, <1>6, Zenon DEF rest

\* read_some() moves bytes from the wire to the end of the buffer.
LEMMA ReadMoves ==
  ASSUME HttpTypeOK, NEW n \in 1..MaxRead, Read(n)
  PROVE  Contents(input') \o wire' = Contents(input) \o wire
<1> DEFINE held == Contents(input)
           room == ensure_writable(input, MaxRead)
           got == SubSeq(wire, 1, n)
<1>0. IsBuffer(input) /\ wire \in Seq(Bytes) /\ MaxRead \in Nat \ {0} /\ Len(wire) \in Nat
      /\ held \in Seq(Bytes)
  BY ParserAssumption, ContentsType, LenProperties, Zenon DEF HttpTypeOK
<1>1. IsBuffer(room) /\ writable(room) >= MaxRead /\ Contents(room) = held
  BY <1>0, EnsureCorrect, Zenon
<1>2. n \in 1..Len(wire) /\ input' = Write(room, got)
      /\ wire' = SubSeq(wire, n + 1, Len(wire))
  BY <1>0, SMTT(30) DEF Read
<1>3. got \in Seq(Bytes) /\ Len(got) = n /\ n <= writable(room)
  BY <1>0, <1>1, <1>2, ElementOfSeq, SubSeqProperties, ContentsType, SMTT(30)
<1>4. wire' \in Seq(Bytes)
  BY <1>0, <1>2, ElementOfSeq, SubSeqProperties, SMTT(30)
<1>5. got \o wire' = wire
  <2>1. n \in Nat /\ n <= Len(wire)
    BY <1>0, <1>2
  <2> QED BY <1>0, <1>2, <2>1, CutInTwo, Zenon
<1>6. Contents(input') = held \o got
  <2> HIDE DEF room, got, held
  <2> QED BY <1>1, <1>2, <1>3, WriteCorrect, Zenon
<1>7. (held \o got) \o wire' = held \o (got \o wire')
  <2> HIDE DEF held, got
  <2> QED BY <1>0, <1>3, <1>4, ConcatAssociative, SMTT(30)
<1> HIDE DEF got, room, held
<1>8. (held \o got) \o wire' = held \o wire
  BY <1>5, <1>7, Zenon
<1> QED
  BY <1>6, <1>8, Zenon DEF held

\* Every step of serve_http() takes bytes from the front of what is held and
\* under way, or moves them from the wire to the buffer.
LEMMA BytesFlow ==
  ASSUME HttpTypeOK, Next
  PROVE  \E n \in 0..Len(Contents(input) \o wire) :
           Contents(input') \o wire' =
             SubSeq(Contents(input) \o wire, n + 1, Len(Contents(input) \o wire))
<1> DEFINE held == Contents(input)
           all == held \o wire
           Flow == \E n \in 0..Len(all) :
                     Contents(input') \o wire' = SubSeq(all, n + 1, Len(all))
<1>0. IsBuffer(input) /\ wire \in Seq(Bytes) /\ MaxRead \in Nat \ {0}
  BY ParserAssumption, Zenon DEF HttpTypeOK
<1>1. held \in Seq(Bytes) /\ Len(held) = readable(input)
      /\ readable(input) \in Nat /\ Len(wire) \in Nat
  BY <1>0, ContentsType, LenProperties, Zenon
<1>2. all \in Seq(Bytes) /\ Len(all) = Len(held) + Len(wire)
  <2> HIDE DEF held
  <2> QED BY <1>0, <1>1, ConcatProperties, Zenon
<1>3. ASSUME NEW n \in 0..readable(input), input' = consume(input, n), UNCHANGED wire
      PROVE  Flow
  <2>1. Contents(input') = SubSeq(held, n + 1, Len(held))
    BY <1>0, <1>3, ConsumeCorrect, Zenon
  <2> HIDE DEF held
  <2>2. SubSeq(held, n + 1, Len(held)) \o wire = SubSeq(all, n + 1, Len(all))
    BY <1>0, <1>1, RestOfConcat, Zenon
  <2>3. n \in 0..Len(all)
    <3> HIDE DEF all
    <3> QED BY <1>1, <1>2
  <2> HIDE DEF all
  <2> QED BY <1>3, <2>1, <2>2, <2>3, Zenon
<1>4. ASSUME Contents(input') \o wire' = all PROVE Flow
  <2> HIDE DEF all
  <2>1. SubSeq(all, 1, Len(all)) = all /\ Len(all) \in Nat
    BY <1>2, SubSeqFull, LenProperties, Zenon
  <2>2. SubSeq(all, 0 + 1, Len(all)) = all /\ 0 \in 0..Len(all)
    BY <2>1
  <2> QED BY <1>4, <2>2, Zenon
<1>5. ASSUME UNCHANGED <<input, wire>> PROVE Flow
  BY <1>4, <1>5, Zenon
<1>6. ASSUME parse_request_line \/ parse_headers PROVE Flow
  <2>1. \/ UNCHANGED <<input, wire>>
        \/ \E end \in find_crlf(input) : \E n \in {end + 2, Len(Taken(end)) + 2} :
             input' = consume(input, n) /\ UNCHANGED wire
    BY <1>6, Zenon DEF parse_request_line, parse_headers, parse_header, Wait
  <2>2. \A end \in find_crlf(input) : /\ end + 2 \in 0..readable(input)
                                       /\ Len(Taken(end)) + 2 = end + 2
    BY <1>0, LineInBuffer, Zenon
  <2> HIDE DEF Flow
  <2> QED BY <1>3, <1>5, <2>1, <2>2, Zenon
<1>7. ASSUME parse_body PROVE Flow
  <2>1. \/ UNCHANGED <<input, wire>>
        \/ /\ input' = consume(input, parser.content_length) /\ UNCHANGED wire
           /\ ~(readable(input) < parser.content_length)
    BY <1>7, Zenon DEF parse_body, Wait
  <2>2. parser.content_length \in Nat
    BY Zenon DEF HttpTypeOK
  <2>3. ~(readable(input) < parser.content_length)
          => parser.content_length \in 0..readable(input)
    BY <1>1, <2>2
  <2> HIDE DEF Flow
  <2> QED BY <1>3, <1>5, <2>1, <2>3, Zenon
<1>8. ASSUME NEW n \in 1..MaxRead, Read(n) PROVE Contents(input') \o wire' = all
  BY <1>8, ReadMoves, Zenon
<1>9. ASSUME ReadFails PROVE Flow
  <2>1. Contents(input') = held /\ UNCHANGED wire
    BY <1>0, <1>9, EnsureCorrect, Zenon DEF ReadFails
  <2> HIDE DEF Flow
  <2> QED BY <1>4, <2>1, Zenon
<1>10. Flow
  <2> HIDE DEF Flow, all
  <2> QED BY <1>4, <1>5, <1>6, <1>7, <1>8, <1>9, Zenon DEF Next, Respond, send_bad_request
<1> QED BY <1>10, Zenon

LEMMA ServeInitial == ServeInit => HttpInv /\ NothingLost /\ Encode(requests) \in Seq(Bytes)
<1> SUFFICES ASSUME ServeInit
             PROVE  HttpInv /\ NothingLost /\ Encode(requests) \in Seq(Bytes)
  BY Zenon
<1> DEFINE all == Encode(requests)
<1>1. all \in Streams /\ Start(all) /\ all \in Seq(Bytes)
  BY WorkloadsAssumption, ParserAssumption, Zenon DEF ServeInit
<1>2. Contents(input) = <<>> /\ wire = all
  BY <1>1, NewBufferCorrect, Zenon DEF Start
<1> HIDE DEF all
<1>3. Contents(input) \o wire = all
  BY <1>1, <1>2, ConcatEmptySeq, Zenon
<1>4. Ends(all, all)
  <2>1. Len(all) \in Nat /\ SubSeq(all, 1, Len(all)) = all
    BY <1>1, LenProperties, SubSeqFull
  <2>2. Len(all) - Len(all) + 1 = 1 /\ Len(all) <= Len(all)
    BY <2>1
  <2> QED BY <2>1, <2>2, Zenon DEF Ends
<1> QED BY <1>1, <1>3, <1>4, HttpInitial, Zenon DEF NothingLost, Ends, all

LEMMA ServeInductive ==
  /\ HttpInv /\ NothingLost /\ Encode(requests) \in Seq(Bytes)
  /\ [ServeNext]_serveVars
  => (HttpInv /\ NothingLost /\ Encode(requests) \in Seq(Bytes))'
<1> SUFFICES ASSUME HttpInv, NothingLost, Encode(requests) \in Seq(Bytes),
                    [ServeNext]_serveVars
             PROVE  HttpInv' /\ NothingLost' /\ Encode(requests') \in Seq(Bytes)
  BY Zenon DEF Encode
<1>1. [Next]_vars /\ UNCHANGED requests
  BY Zenon DEF ServeNext, Next, serveVars
<1>2. HttpInv' /\ Encode(requests') \in Seq(Bytes)
  BY <1>1, HttpInductive, Zenon
<1>3. NothingLost'
  <2> DEFINE held == Contents(input) \o wire
  <2>1. Ends(held, Encode(requests))
    BY Zenon DEF NothingLost, Ends
  <2>2. CASE UNCHANGED vars
    BY <1>1, <2>2, Zenon DEF vars, NothingLost
  <2>3. CASE Next
    <3>1. PICK n \in 0..Len(held) :
            Contents(input') \o wire' = SubSeq(held, n + 1, Len(held))
      BY <2>3, BytesFlow, Zenon DEF HttpInv
    <3>2. held \in Seq(Bytes)
      BY ContentsType, ConcatProperties DEF HttpInv, HttpTypeOK
    <3> HIDE DEF held
    <3>3. Ends(Contents(input') \o wire', Encode(requests))
      BY <2>1, <3>1, <3>2, RestOfSuffix, Zenon
    <3> QED BY <1>1, <3>3, Zenon DEF NothingLost, Ends
  <2> QED BY <1>1, <2>2, <2>3, Zenon
<1> QED BY <1>2, <1>3, Zenon

\* No byte is lost, repeated or changed between the wire and the parser, for
\* any requests, limits and sizes: what is held and under way is always the
\* end of what the client sent.
THEOREM BytesKept == ServeSpec => []NothingLost
<1> DEFINE Inv == HttpInv /\ NothingLost /\ Encode(requests) \in Seq(Bytes)
<1>1. ServeInit => Inv BY ServeInitial, Zenon
<1>2. Inv /\ [ServeNext]_serveVars => Inv' BY ServeInductive, Zenon
<1>3. Inv => NothingLost BY Zenon
<1> QED BY <1>1, <1>2, <1>3, PTL DEF ServeSpec

----------------------------------------------------------------------------
(* Joined(), by induction on how many sequences it puts together.          *)

\* The recursive function in Joined() exists: it is extended to the front by
\* one sequence at a time.
LEMMA JoinedExists ==
  ASSUME NEW S, NEW ss \in Seq(Seq(S))
  PROVE  \E f : f = [i \in 0..Len(ss) |-> IF i = Len(ss) THEN <<>> ELSE ss[i + 1] \o f[i + 1]]
<1> DEFINE size == Len(ss)
           Def(f, k) == f = [i \in (size - k)..size |->
                               IF i = size THEN <<>> ELSE ss[i + 1] \o f[i + 1]]
           N == {k \in Nat : k <= size => \E f : Def(f, k)}
<1>1. size \in Nat
  BY LenProperties
<1> HIDE DEF size
<1>2. 0 \in N
  <2> DEFINE f == [i \in (size - 0)..size |-> <<>>]
  <2>1. \A i \in (size - 0)..size : i = size
    BY <1>1
  <2>2. Def(f, 0)
    BY <2>1, Zenon
  <2> QED
    BY <2>2, Zenon
<1>3. ASSUME NEW k \in Nat, k \in N
      PROVE  k + 1 \in N
  <2> SUFFICES ASSUME k + 1 <= size
               PROVE  \E f : Def(f, k + 1)
    <3>1. k + 1 \in Nat
      OBVIOUS
    <3> HIDE DEF Def
    <3> QED
      BY <3>1, Zenon
  <2>1. k <= size
    BY <1>1
  <2>2. PICK f : Def(f, k)
    BY <1>3, <2>1, Zenon
  <2> DEFINE m == size - (k + 1)
             g == [i \in m..size |-> IF i = m THEN ss[m + 1] \o f[m + 1] ELSE f[i]]
  <2>3. /\ m \in Nat /\ m # size /\ m \in m..size /\ m + 1 \in m..size /\ m + 1 # m
        /\ \A i \in m..size : i # m => i \in (size - k)..size
        /\ \A i \in (size - k)..size : i # size => i + 1 \in m..size /\ i + 1 # m
    BY <1>1
  <2>4. g[m] = ss[m + 1] \o f[m + 1] /\ g[m + 1] = f[m + 1]
    <3> HIDE DEF m
    <3> QED
      BY <2>3, Zenon
  <2>5. ASSUME NEW i \in m..size
        PROVE  g[i] = IF i = size THEN <<>> ELSE ss[i + 1] \o g[i + 1]
    <3> HIDE DEF m
    <3>1. CASE i = m
      <4> HIDE DEF g
      <4> QED
        BY <2>3, <2>4, <3>1, Zenon
    <3>2. CASE i # m
      <4>1. i \in (size - k)..size /\ g[i] = f[i]
        BY <2>3, <3>2, Zenon
      <4>2. i # size => g[i + 1] = f[i + 1]
        BY <2>3, <4>1, Zenon
      <4>3. f[i] = IF i = size THEN <<>> ELSE ss[i + 1] \o f[i + 1]
        BY <2>2, <4>1, Zenon
      <4> HIDE DEF g, Def
      <4> QED
        BY <4>1, <4>2, <4>3, Zenon
    <3> QED
      BY <3>1, <3>2, Zenon
  <2>6. Def(g, k + 1)
    <3>1. g = [i \in m..size |-> g[i]]
      BY Zenon
    <3> HIDE DEF g
    <3>2. g = [i \in m..size |-> IF i = size THEN <<>> ELSE ss[i + 1] \o g[i + 1]]
      BY <2>5, <3>1, Zenon
    <3> QED
      BY <3>2, Zenon
  <2> HIDE DEF g, Def
  <2> QED
    BY <2>6, Zenon
<1> HIDE DEF N
<1>4. Nat \subseteq N
  BY <1>2, <1>3, Induction, Zenon
<1>5. size \in N /\ size <= size /\ size - size = 0
  BY <1>1, <1>4
<1>6. PICK f : Def(f, size)
  BY <1>5, Zenon DEF N
<1> QED
  BY <1>5, <1>6, Zenon DEF size

\* The equation of Joined().
LEMMA JoinedStep ==
  ASSUME NEW S, NEW ss \in Seq(Seq(S)), NEW n \in 0..Len(ss)
  PROVE  Joined(ss, n) = IF n = Len(ss) THEN <<>> ELSE ss[n + 1] \o Joined(ss, n + 1)
<1> DEFINE Def(f) == [i \in 0..Len(ss) |->
                        IF i = Len(ss) THEN <<>> ELSE ss[i + 1] \o f[i + 1]]
           rest == CHOOSE f : f = Def(f)
<1>1. \E f : f = Def(f)
  BY JoinedExists, Zenon
<1>2. rest = Def(rest)
  <2> HIDE DEF Def
  <2> QED
    BY <1>1, Zenon
<1>3. Joined(ss, n) = rest[n] /\ Joined(ss, n + 1) = rest[n + 1]
  BY Zenon DEF Joined
<1> HIDE DEF rest
<1>4. rest[n] = IF n = Len(ss) THEN <<>> ELSE ss[n + 1] \o rest[n + 1]
  BY <1>2, Zenon
<1> QED
  BY <1>3, <1>4, Zenon

LEMMA JoinedType ==
  ASSUME NEW S, NEW ss \in Seq(Seq(S)), NEW n \in 0..Len(ss)
  PROVE  Joined(ss, n) \in Seq(S)
<1> DEFINE size == Len(ss)
           N == {k \in Nat : k <= size => Joined(ss, size - k) \in Seq(S)}
<1>1. size \in Nat /\ \A i \in 1..size : ss[i] \in Seq(S)
  BY LenProperties, ElementOfSeq
<1>2. 0 \in N
  <2>1. size - 0 = size /\ size \in 0..size
    BY <1>1
  <2>2. Joined(ss, size) = <<>>
    BY <2>1, JoinedStep, Zenon
  <2> HIDE DEF size
  <2> QED
    BY <2>1, <2>2, EmptySeq, Zenon
<1>3. ASSUME NEW k \in Nat, k \in N
      PROVE  k + 1 \in N
  <2> SUFFICES ASSUME k + 1 <= size
               PROVE  Joined(ss, size - (k + 1)) \in Seq(S)
    <3>1. k + 1 \in Nat
      OBVIOUS
    <3> QED
      BY <3>1, Zenon
  <2> DEFINE m == size - (k + 1)
  <2>1. m \in 0..size /\ m # size /\ m + 1 \in 1..size /\ k <= size /\ m + 1 = size - k
    BY <1>1
  <2>2. Joined(ss, m) = ss[m + 1] \o Joined(ss, m + 1)
    BY <2>1, JoinedStep, Zenon
  <2>3. Joined(ss, m + 1) \in Seq(S)
    BY <1>3, <2>1, Zenon
  <2>4. ss[m + 1] \in Seq(S)
    BY <1>1, <2>1, Zenon
  <2>5. PICK rest \in Seq(S) : rest = Joined(ss, m + 1)
    BY <2>3, Zenon
  <2>6. PICK first \in Seq(S) : first = ss[m + 1]
    BY <2>4, Zenon
  <2>7. first \o rest \in Seq(S)
    BY ConcatProperties
  <2> HIDE DEF m
  <2> QED
    BY <2>2, <2>5, <2>6, <2>7, Zenon DEF m
<1> HIDE DEF N
<1>4. Nat \subseteq N
  BY <1>2, <1>3, Induction, Zenon
<1>5. size - n \in Nat /\ size - n <= size /\ size - (size - n) = n
  BY <1>1
<1>6. size - n \in N
  BY <1>4, <1>5, Zenon
<1> HIDE DEF size
<1> QED
  BY <1>5, <1>6, Zenon DEF N

----------------------------------------------------------------------------
(* The answers.                                                            *)

\* A request as lines with their ends, and its bytes after the first m lines.
Framed(r) ==
  LET lines == <<r.line>> \o r.headers \o <<<<>>>> IN
  [i \in DOMAIN lines |-> lines[i] \o <<CR, LF>>]

After(r, m) == Joined(Framed(r), m) \o r.body

\* The bytes of the requests after the first n.
Unanswered(n) == Joined([i \in DOMAIN requests |-> EncodeOne(requests[i])], n)

\* What header_bytes_ still grows by after m headers.
Uncounted(r, m) == Len(Joined(r.headers, m)) + 2 * (Len(r.headers) - m) + 2

\* A header line that parse_headers() accepts by itself.
GoodHeader(h) ==
  /\ h[1] \in {Length, Encoding, OtherKey}
  /\ h[1] = Length => parse_size(h) /\ Value(h[2]) <= body_bytes
  /\ h[1] = Encoding => h = <<Encoding, Identity>>

\* What the parser knows of r after its request line and m headers.
Parsed(r, m) ==
  /\ m \in 0..Len(r.headers)
  /\ parser.path = r.line /\ parser.body = <<>>
  /\ WellFormed(r.line) /\ Len(r.line) <= request_line_bytes
  /\ parser.header_bytes + Uncounted(r, m) = HeadersSize(r)
  /\ \A i \in 1..m : /\ GoodHeader(r.headers[i])
                     /\ r.headers[i][1] = Length =>
                          /\ parser.content_length_seen
                          /\ parser.content_length = Value(r.headers[i][2])
  /\ parser.content_length_seen => \E i \in 1..m : r.headers[i][1] = Length
  /\ ~parser.content_length_seen => parser.content_length = 0

Left == Contents(input) \o wire

\* Where the parser is in the request that is next to be answered.
AtLine(n) == parser = Fresh /\ Left = Unanswered(n)

AtHeader(n) ==
  /\ n < Len(requests)
  /\ \E m \in 0..Len(requests[n + 1].headers) :
       /\ Parsed(requests[n + 1], m)
       /\ Left = After(requests[n + 1], m + 1) \o Unanswered(n + 1)

AtBody(n) ==
  /\ n < Len(requests)
  /\ Acceptable(requests[n + 1])
  /\ parser.path = requests[n + 1].line
  /\ parser.content_length = Len(requests[n + 1].body)
  /\ Left = requests[n + 1].body \o Unanswered(n + 1)

AtEnd(n) ==
  /\ n < Len(requests)
  /\ Acceptable(requests[n + 1])
  /\ parser.path = requests[n + 1].line
  /\ parser.body = requests[n + 1].body
  /\ Left = Unanswered(n + 1)

At(n) ==
  /\ parser.state = "REQUEST_LINE" => AtLine(n)
  /\ parser.state = "HEADERS" => AtHeader(n)
  /\ parser.state = "BODY" => AtBody(n)
  /\ parser.state = "DONE" => AtEnd(n)

\* parse() has returned INCOMPLETE.
Starved ==
  /\ parser.state \in {"REQUEST_LINE", "HEADERS"} => find_crlf(input) = {}
  /\ parser.state = "BODY" => readable(input) < parser.content_length
  /\ parser.state # "DONE"

\* The answers to the first n requests, and all the answers there may be.
OkAnswers(n) == [i \in 1..n |-> <<"ok", requests[i].line, requests[i].body>>]

AllAnswers ==
  {<<"ok", requests[i].line, requests[i].body>> : i \in DOMAIN requests} \cup {<<"bad">>}

\* The first n requests were answered, and deserved it.
Answered(n) ==
  /\ n \in 0..Len(requests)
  /\ answers = OkAnswers(n)
  /\ \A i \in 1..n : Acceptable(requests[i])

\* The next request is one that may be refused: it is not acceptable, or it
\* has come up to the one cut that the parser takes for a line too long.
Refusable(n) ==
  /\ n < Len(requests)
  /\ ~Acceptable(requests[n + 1]) \/ CutAtLimit(requests[n + 1])

\* The inductive invariant of the answers.
AnswersInv ==
  LET n == Len(answers) IN
  /\ requests \in Workloads
  /\ pc # "gone" => Answered(n)
  /\ pc \in {"parse", "read"} => At(n)
  /\ pc = "read" => Starved
  /\ pc = "bad" => Refusable(n)
  /\ pc = "gone" => OnlyCutRefused

LEMMA LineEnd ==
  <<CR, LF>> \in Seq(Bytes) /\ Len(<<CR, LF>>) = 2 /\ <<CR, LF>>[1] = CR /\ <<CR, LF>>[2] = LF
<1>1. CR \in Bytes /\ LF \in Bytes
  BY BytesAssumption, Zenon
<1> QED
  BY <1>1

\* The lines of a request.
LEMMA FramedLines ==
  ASSUME NEW r, IsRequest(r)
  PROVE  /\ Framed(r) \in Seq(Seq(Bytes))
         /\ Len(r.headers) \in Nat
         /\ Len(Framed(r)) = Len(r.headers) + 2
         /\ Framed(r)[1] = r.line \o <<CR, LF>>
         /\ \A i \in 1..Len(r.headers) : Framed(r)[i + 1] = r.headers[i] \o <<CR, LF>>
         /\ Framed(r)[Len(r.headers) + 2] = <<>> \o <<CR, LF>>
<1> DEFINE hs == r.headers
           first == <<r.line>>
           last == <<<<>>>>
           lines == (first \o hs) \o last
<1>1. /\ r.line \in Seq(Bytes) /\ hs \in Seq(Seq(Bytes)) /\ Len(hs) \in Nat
      /\ <<>> \in Seq(Bytes)
  BY LenProperties, EmptySeq, Zenon DEF IsRequest, IsLine
<1>2. /\ first \in Seq(Seq(Bytes)) /\ Len(first) = 1 /\ first[1] = r.line
      /\ last \in Seq(Seq(Bytes)) /\ Len(last) = 1 /\ last[1] = <<>>
  <2> HIDE DEF hs
  <2> QED
    BY <1>1
<1> HIDE DEF hs, first, last
<1>3. PICK s \in Seq(Seq(Bytes)) : /\ s = first \o hs
                                   /\ Len(s) = 1 + Len(hs)
                                   /\ s[1] = r.line
                                   /\ \A i \in 1..Len(hs) : s[1 + i] = hs[i]
  <2>1. /\ first \o hs \in Seq(Seq(Bytes)) /\ Len(first \o hs) = Len(first) + Len(hs)
        /\ \A i \in 1..Len(first) : (first \o hs)[i] = first[i]
        /\ \A i \in 1..Len(hs) : (first \o hs)[Len(first) + i] = hs[i]
    <3>1. first \in Seq(Seq(Bytes)) /\ hs \in Seq(Seq(Bytes))
      BY <1>1, <1>2, Zenon
    <3> QED
      BY <3>1, ConcatProperties
  <2>2. 1 \in 1..1
    OBVIOUS
  <2> QED
    BY <1>2, <2>1, <2>2, Zenon
<1>4. /\ lines \in Seq(Seq(Bytes)) /\ Len(lines) = Len(s) + 1
      /\ \A i \in 1..Len(s) : lines[i] = s[i]
      /\ lines[Len(s) + 1] = <<>>
  <2>1. /\ s \o last \in Seq(Seq(Bytes)) /\ Len(s \o last) = Len(s) + Len(last)
        /\ \A i \in 1..Len(s) : (s \o last)[i] = s[i]
        /\ \A i \in 1..Len(last) : (s \o last)[Len(s) + i] = last[i]
    BY <1>2, <1>3, ConcatProperties
  <2>2. 1 \in 1..1
    OBVIOUS
  <2> QED
    BY <1>2, <1>3, <2>1, <2>2, Zenon
<1>5. Framed(r) = [i \in DOMAIN lines |-> lines[i] \o <<CR, LF>>]
  BY Zenon DEF Framed, hs, first, last
<1> HIDE DEF lines
<1>6. DOMAIN lines = 1..(Len(hs) + 2) /\ \A i \in 1..(Len(hs) + 2) : lines[i] \in Seq(Bytes)
  <2>1. Len(lines) = Len(hs) + 2
    BY <1>1, <1>3, <1>4
  <2> QED
    BY <1>4, <2>1, LenProperties, ElementOfSeq
<1>7. <<CR, LF>> \in Seq(Bytes)
  BY LineEnd, Zenon
<1>8. ASSUME NEW i \in 1..(Len(hs) + 2)
      PROVE  lines[i] \o <<CR, LF>> \in Seq(Bytes)
  <2>1. PICK l \in Seq(Bytes) : l = lines[i]
    BY <1>6, Zenon
  <2>2. PICK e \in Seq(Bytes) : e = <<CR, LF>>
    BY <1>7, Zenon
  <2>3. l \o e \in Seq(Bytes)
    BY ConcatProperties
  <2> QED
    BY <2>1, <2>2, <2>3, Zenon
<1>9. Framed(r) \in [1..(Len(hs) + 2) -> Seq(Bytes)]
  BY <1>5, <1>6, <1>8, Zenon
<1>10. Framed(r) \in Seq(Seq(Bytes)) /\ Len(Framed(r)) = Len(hs) + 2
  <2>1. Len(hs) + 2 \in Nat
    BY <1>1
  <2> QED
    BY <1>9, <2>1, FunctionIsSeq, Zenon
<1>11. /\ 1 \in 1..(Len(hs) + 2) /\ 1 \in 1..Len(s)
       /\ Len(hs) + 2 \in 1..(Len(hs) + 2) /\ Len(hs) + 2 = Len(s) + 1
       /\ \A i \in 1..Len(hs) : /\ i + 1 \in 1..(Len(hs) + 2) /\ i + 1 \in 1..Len(s)
                                /\ i + 1 = 1 + i
  BY <1>1, <1>3
<1>12. /\ lines[1] = r.line /\ lines[Len(hs) + 2] = <<>>
       /\ \A i \in 1..Len(hs) : lines[i + 1] = hs[i]
  <2>1. lines[1] = r.line
    BY <1>3, <1>4, <1>11, Zenon
  <2>2. lines[Len(hs) + 2] = <<>>
    BY <1>4, <1>11, Zenon
  <2>3. ASSUME NEW i \in 1..Len(hs)
        PROVE  lines[i + 1] = hs[i]
    <3>1. i + 1 \in 1..Len(s) /\ i + 1 = 1 + i
      BY <1>11, Zenon
    <3>2. lines[i + 1] = s[i + 1]
      BY <1>4, <3>1, Zenon
    <3>3. s[1 + i] = hs[i]
      BY <1>3, Zenon
    <3> QED
      BY <3>1, <3>2, <3>3, Zenon
  <2> QED
    BY <2>1, <2>2, <2>3, Zenon
<1>13. \A i \in 1..(Len(hs) + 2) : Framed(r)[i] = lines[i] \o <<CR, LF>>
  BY <1>5, <1>6, Zenon
<1> QED
  BY <1>1, <1>10, <1>11, <1>12, <1>13, Zenon DEF hs

\* The line of r that follows its first m lines.
LineAfter(r, m) ==
  IF m = 0 THEN r.line ELSE IF m <= Len(r.headers) THEN r.headers[m] ELSE <<>>

\* A request is its lines, each with its end, and its body.
LEMMA AfterStep ==
  ASSUME NEW r, IsRequest(r), NEW m \in 0..(Len(r.headers) + 1)
  PROVE  /\ IsLine(LineAfter(r, m))
         /\ After(r, m + 1) \in Seq(Bytes)
         /\ After(r, m) = (LineAfter(r, m) \o <<CR, LF>>) \o After(r, m + 1)
<1> DEFINE k == Len(r.headers)
<1>1. /\ Framed(r) \in Seq(Seq(Bytes)) /\ k \in Nat /\ Len(Framed(r)) = k + 2
      /\ r.body \in Seq(Bytes) /\ r.headers \in Seq(Seq(Bytes)) /\ DOMAIN r.headers = 1..k
  BY FramedLines, LenProperties, Zenon DEF IsRequest
<1>2. m \in Nat /\ m <= k + 1 /\ m \in 0..(k + 2) /\ m + 1 \in 0..(k + 2) /\ m # k + 2
  BY <1>1
<1>3. IsLine(LineAfter(r, m)) /\ Framed(r)[m + 1] = LineAfter(r, m) \o <<CR, LF>>
  <2>1. CASE m = 0
    <3>1. LineAfter(r, m) = r.line /\ m + 1 = 1
      BY <2>1 DEF LineAfter
    <3> QED
      BY <3>1, FramedLines, Zenon DEF IsRequest
  <2>2. CASE m \in 1..k
    <3>1. LineAfter(r, m) = r.headers[m] /\ r.headers[m] \in Range(r.headers)
      <4>1. m # 0 /\ m <= k
        BY <1>1, <2>2
      <4> QED
        BY <1>1, <2>2, <4>1, Zenon DEF LineAfter, Range
    <3>2. IsLine(r.headers[m])
      BY <3>1, Zenon DEF IsRequest
    <3>3. Framed(r)[m + 1] = r.headers[m] \o <<CR, LF>>
      BY <2>2, FramedLines, Zenon
    <3> QED
      BY <3>1, <3>2, <3>3, Zenon
  <2>3. CASE m = k + 1
    <3>1. LineAfter(r, m) = <<>> /\ m + 1 = k + 2
      BY <1>1, <2>3 DEF LineAfter
    <3>2. IsLine(<<>>)
      BY DEF IsLine
    <3>3. Framed(r)[k + 2] = <<>> \o <<CR, LF>>
      BY FramedLines, Zenon
    <3> QED
      BY <3>1, <3>2, <3>3, Zenon
  <2>4. m = 0 \/ m \in 1..k \/ m = k + 1
    <3>1. m \in Nat /\ m <= k + 1 /\ k \in Nat
      BY <1>1, <1>2, Zenon
    <3> HIDE DEF k
    <3> QED
      BY <3>1
  <2> QED
    BY <2>1, <2>2, <2>3, <2>4, Zenon
<1>4. Joined(Framed(r), m) = Framed(r)[m + 1] \o Joined(Framed(r), m + 1)
  BY <1>1, <1>2, JoinedStep, Zenon
<1>5. PICK rest \in Seq(Bytes) : rest = Joined(Framed(r), m + 1)
  BY <1>1, <1>2, JoinedType, Zenon
<1>6. PICK first \in Seq(Bytes) : first = LineAfter(r, m) \o <<CR, LF>>
  <2>1. PICK l \in Seq(Bytes) : l = LineAfter(r, m)
    BY <1>3, Zenon DEF IsLine
  <2>2. PICK e \in Seq(Bytes) : e = <<CR, LF>>
    BY LineEnd, Zenon
  <2>3. l \o e \in Seq(Bytes)
    BY ConcatProperties
  <2> QED
    BY <2>1, <2>2, <2>3, Zenon
<1>7. PICK body \in Seq(Bytes) : body = r.body
  BY <1>1, Zenon
<1>8. (first \o rest) \o body = first \o (rest \o body) /\ rest \o body \in Seq(Bytes)
  <2>1. (first \o rest) \o body = first \o (rest \o body)
    BY ConcatAssociative, SMTT(30)
  <2>2. rest \o body \in Seq(Bytes)
    BY ConcatProperties
  <2> QED
    BY <2>1, <2>2, Zenon
<1>9. After(r, m + 1) = rest \o body
  BY <1>5, <1>7, Zenon DEF After
<1>10. After(r, m) = (first \o rest) \o body
  <2>1. Joined(Framed(r), m) = first \o rest
    BY <1>3, <1>4, <1>5, <1>6, Zenon
  <2> QED
    BY <1>7, <2>1, Zenon DEF After
<1>11. After(r, m) = first \o After(r, m + 1) /\ After(r, m + 1) \in Seq(Bytes)
  BY <1>8, <1>9, <1>10, Zenon
<1> QED
  BY <1>3, <1>6, <1>11, Zenon

LEMMA AfterEnd ==
  ASSUME NEW r, IsRequest(r)
  PROVE  After(r, Len(r.headers) + 2) = r.body
<1>1. /\ Framed(r) \in Seq(Seq(Bytes)) /\ Len(Framed(r)) = Len(r.headers) + 2
      /\ Len(r.headers) \in Nat /\ r.body \in Seq(Bytes)
  BY FramedLines, Zenon DEF IsRequest
<1>2. Len(r.headers) + 2 \in 0..(Len(r.headers) + 2)
  BY <1>1
<1>3. Joined(Framed(r), Len(r.headers) + 2) = <<>>
  BY <1>1, <1>2, JoinedStep, Zenon
<1> QED
  BY <1>1, <1>3, ConcatEmptySeq, Zenon DEF After

LEMMA EncodeOneType ==
  ASSUME NEW r, IsRequest(r)
  PROVE  EncodeOne(r) = After(r, 0) /\ EncodeOne(r) \in Seq(Bytes)
<1>1. EncodeOne(r) = After(r, 0)
  BY Zenon DEF EncodeOne, After, Framed
<1>2. /\ Framed(r) \in Seq(Seq(Bytes)) /\ Len(Framed(r)) = Len(r.headers) + 2
      /\ Len(r.headers) \in Nat
  BY FramedLines, Zenon
<1>3. 0 \in 0..(Len(r.headers) + 2)
  BY <1>2
<1>4. PICK lines \in Seq(Bytes) : lines = Joined(Framed(r), 0)
  BY <1>2, <1>3, JoinedType, Zenon
<1>5. PICK body \in Seq(Bytes) : body = r.body
  BY Zenon DEF IsRequest
<1>6. lines \o body \in Seq(Bytes)
  BY ConcatProperties
<1> QED
  BY <1>1, <1>4, <1>5, <1>6, Zenon DEF After

\* The requests are sequences of requests, and their bytes follow each other.
LEMMA RequestsType ==
  ASSUME requests \in Workloads
  PROVE  /\ Len(requests) \in Nat
         /\ DOMAIN requests = 1..Len(requests)
         /\ \A i \in 1..Len(requests) : IsRequest(requests[i])
<1>1. /\ requests \in Seq(Range(requests))
      /\ \A r \in Range(requests) : IsRequest(r)
  BY WorkloadsAssumption, Zenon
<1>2. Len(requests) \in Nat /\ DOMAIN requests = 1..Len(requests)
  BY <1>1, LenProperties, Zenon
<1> QED
  BY <1>1, <1>2, Zenon DEF Range

LEMMA UnansweredStep ==
  ASSUME requests \in Workloads, NEW n \in 0..Len(requests)
  PROVE  /\ Unanswered(n) \in Seq(Bytes)
         /\ n = Len(requests) => Unanswered(n) = <<>>
         /\ n < Len(requests) =>
              Unanswered(n) = After(requests[n + 1], 0) \o Unanswered(n + 1)
<1> DEFINE k == Len(requests)
           ss == [i \in DOMAIN requests |-> EncodeOne(requests[i])]
<1>1. k \in Nat /\ DOMAIN requests = 1..k /\ \A i \in 1..k : IsRequest(requests[i])
  BY RequestsType, Zenon
<1> HIDE DEF k
<1>2. ss \in [1..k -> Seq(Bytes)] /\ \A i \in 1..k : ss[i] = After(requests[i], 0)
  BY <1>1, EncodeOneType, Zenon
<1>3. Unanswered(n) = Joined(ss, n) /\ Unanswered(n + 1) = Joined(ss, n + 1)
  BY Zenon DEF Unanswered
<1> HIDE DEF ss
<1>4. ss \in Seq(Seq(Bytes)) /\ Len(ss) = k
  BY <1>1, <1>2, FunctionIsSeq, Zenon
<1>5. n \in 0..Len(ss) /\ n \in 0..k
  BY <1>4, Zenon DEF k
<1>6. Joined(ss, n) \in Seq(Bytes)
  BY <1>4, <1>5, JoinedType, Zenon
<1>7. Joined(ss, n) = IF n = k THEN <<>> ELSE ss[n + 1] \o Joined(ss, n + 1)
  BY <1>4, <1>5, JoinedStep, Zenon
<1>8. n < k => n # k /\ n + 1 \in 1..k
  BY <1>1, <1>5
<1> QED
  BY <1>2, <1>3, <1>6, <1>7, <1>8, Zenon DEF k

\* all begins with the line and its end.
BeginsWith(all, line) ==
  /\ Len(line) + 2 <= Len(all)
  /\ \A i \in 1..Len(line) : all[i] = line[i]
  /\ all[Len(line) + 1] = CR /\ all[Len(line) + 2] = LF

LEMMA SentLine ==
  ASSUME NEW line, IsLine(line), NEW rest \in Seq(Bytes)
  PROVE  BeginsWith((line \o <<CR, LF>>) \o rest, line)
<1> DEFINE n == Len(line)
<1>1. line \in Seq(Bytes) /\ n \in Nat /\ Len(rest) \in Nat
  BY LenProperties, Zenon DEF IsLine
<1>2. PICK first \in Seq(Bytes) : /\ first = line \o <<CR, LF>>
                                  /\ Len(first) = n + 2
                                  /\ \A i \in 1..n : first[i] = line[i]
                                  /\ first[n + 1] = CR /\ first[n + 2] = LF
  <2>1. PICK e \in Seq(Bytes) : e = <<CR, LF>> /\ Len(e) = 2 /\ e[1] = CR /\ e[2] = LF
    BY LineEnd, Zenon
  <2>2. /\ line \o e \in Seq(Bytes) /\ Len(line \o e) = n + Len(e)
        /\ \A i \in 1..n : (line \o e)[i] = line[i]
        /\ \A i \in 1..Len(e) : (line \o e)[n + i] = e[i]
    <3>1. line \in Seq(Bytes)
      BY <1>1, Zenon
    <3> QED
      BY <3>1, ConcatProperties
  <2>3. 1 \in 1..2 /\ 2 \in 1..2
    OBVIOUS
  <2> QED
    BY <2>1, <2>2, <2>3, Zenon
<1>3. PICK all : /\ all = first \o rest /\ Len(all) = Len(first) + Len(rest)
                 /\ \A i \in 1..Len(first) : all[i] = first[i]
  <2>1. /\ Len(first \o rest) = Len(first) + Len(rest)
        /\ \A i \in 1..Len(first) : (first \o rest)[i] = first[i]
    BY ConcatProperties
  <2> QED
    BY <2>1, Zenon
<1>4. n + 2 <= Len(all)
  <2>1. Len(all) = (n + 2) + Len(rest)
    BY <1>2, <1>3, Zenon
  <2> HIDE DEF n
  <2> QED
    BY <1>1, <2>1
<1>5. n + 1 \in 1..(n + 2) /\ n + 2 \in 1..(n + 2) /\ \A i \in 1..n : i \in 1..(n + 2)
  BY <1>1
<1>6. BeginsWith(all, line)
  BY <1>2, <1>3, <1>4, <1>5, Zenon DEF BeginsWith
<1> QED
  BY <1>2, <1>3, <1>6, Zenon

\* With one byte more than the line in the buffer, it is the line and its CR.
LEMMA CutAfterCR ==
  ASSUME NEW b, IsBuffer(b), NEW w \in Seq(Bytes), NEW line, IsLine(line),
         NEW rest \in Seq(Bytes),
         Contents(b) \o w = (line \o <<CR, LF>>) \o rest,
         readable(b) = Len(line) + 1
  PROVE  Contents(b) = Append(line, CR)
<1> DEFINE held == Contents(b)
           all == held \o w
<1>1. held \in Seq(Bytes) /\ Len(held) = Len(line) + 1
  BY ContentsType, Zenon
<1>2. BeginsWith(all, line)
  BY SentLine, Zenon
<1> HIDE DEF held
<1>3. \A i \in 1..Len(held) : held[i] = all[i]
  BY <1>1, ConcatProperties, Zenon
<1> HIDE DEF all
<1>4. line \in Seq(Bytes) /\ CR \in Bytes /\ Len(line) \in Nat
  BY LenProperties, BytesAssumption, Zenon DEF IsLine
<1>5. PICK cut \in Seq(Bytes) :
        /\ cut = Append(line, CR) /\ Len(cut) = Len(line) + 1
        /\ \A i \in 1..Len(line) : cut[i] = line[i]
        /\ cut[Len(line) + 1] = CR
  BY <1>4, AppendProperties, Zenon
<1>6. ASSUME NEW i \in 1..Len(held)
      PROVE  held[i] = cut[i]
  <2>1. i \in 1..Len(line) \/ i = Len(line) + 1
    BY <1>1, <1>4
  <2> QED
    BY <1>2, <1>3, <1>5, <2>1, Zenon DEF BeginsWith
<1>7. held = cut
  BY <1>1, <1>5, <1>6, SameSeq, Zenon
<1> QED
  BY <1>5, <1>7, Zenon DEF held

\* The parser finds the lines the client sent: however much of it has come,
\* the first line in the buffer ends where it ended in what was sent, and when
\* none is found it has not come as a whole.
LEMMA FirstLine ==
  ASSUME NEW b, IsBuffer(b), NEW w \in Seq(Bytes), NEW line, IsLine(line),
         NEW rest \in Seq(Bytes),
         Contents(b) \o w = (line \o <<CR, LF>>) \o rest
  PROVE  /\ \A end \in find_crlf(b) :
              end = Len(line) /\ SubSeq(Contents(b), 1, end) = line
         /\ find_crlf(b) = {} => readable(b) < Len(line) + 2
         /\ Len(line) + 2 <= Len(Contents(b) \o w)
<1> DEFINE held == Contents(b)
           all == held \o w
           n == Len(line)
           k == readable(b)
           ends == {i \in 0..(k - 2) : Peek(b, i) = CR /\ Peek(b, i + 1) = LF}
<1>1. /\ line \in Seq(Bytes) /\ n \in Nat /\ k \in Nat
      /\ held \in Seq(Bytes) /\ Len(held) = k /\ Len(rest) \in Nat
  BY ContentsType, LenProperties, Zenon DEF IsLine
<1>2. \A i \in 0..(k - 1) : Peek(b, i) = held[i + 1]
  <2>1. \A i \in 0..(k - 1) : i + 1 \in 1..k /\ (i + 1) - 1 = i
    BY <1>1
  <2> QED
    BY <2>1, Zenon DEF Contents
<1>3. BeginsWith(all, line)
  BY SentLine, Zenon
<1> HIDE DEF held
<1>4. /\ n + 2 <= Len(all)
      /\ \A i \in 1..n : all[i] = line[i]
      /\ all[n + 1] = CR /\ all[n + 2] = LF
  BY <1>3, Zenon DEF BeginsWith
<1>5. \A i \in 1..k : held[i] = all[i]
  <2>1. \A i \in 1..Len(held) : held[i] = all[i]
    BY <1>1, ConcatProperties, Zenon
  <2> QED
    BY <1>1, <2>1, Zenon
<1> HIDE DEF all
<1>6. \A i \in 0..(k - 1) : Peek(b, i) = all[i + 1]
  <2>1. \A i \in 0..(k - 1) : i + 1 \in 1..k
    BY <1>1
  <2> QED
    BY <1>2, <1>5, <2>1, Zenon
<1>7. \A i \in ends : i \in Nat /\ i <= k - 2 /\ all[i + 1] = CR /\ all[i + 2] = LF
  <2>1. \A i \in 0..(k - 2) : /\ i \in Nat /\ i <= k - 2 /\ i \in 0..(k - 1)
                              /\ i + 1 \in 0..(k - 1) /\ (i + 1) + 1 = i + 2
    BY <1>1
  <2>2. ASSUME NEW i \in ends
        PROVE  all[i + 1] = CR /\ all[i + 2] = LF
    <3>1. i \in 0..(k - 2) /\ Peek(b, i) = CR /\ Peek(b, i + 1) = LF
      BY Zenon
    <3> QED
      BY <1>6, <2>1, <3>1, Zenon
  <2> QED
    BY <2>1, <2>2, Zenon
<1>8. \A i \in ends : n <= i
  <2> SUFFICES ASSUME NEW i \in ends, ~(n <= i)
               PROVE  FALSE
    BY Zenon
  <2> HIDE DEF ends
  <2>1. i \in Nat /\ all[i + 1] = CR /\ all[i + 2] = LF
    BY <1>7, Zenon
  <2>2. CASE i + 2 <= n
    <3>1. i + 1 \in 1..n /\ i + 2 \in 1..n /\ i + 1 \in 1..(n - 1) /\ (i + 1) + 1 = i + 2
      BY <1>1, <2>1, <2>2
    <3>2. line[i + 1] = CR /\ line[i + 2] = LF
      BY <1>4, <2>1, <3>1, Zenon
    <3> QED
      BY <3>1, <3>2, Zenon DEF IsLine
  <2>3. CASE i + 1 = n
    <3>1. i + 2 = n + 1
      BY <1>1, <2>1, <2>3
    <3> QED
      BY <1>4, <2>1, <3>1, BytesAssumption, Zenon
  <2> QED
    BY <1>1, <2>1, <2>2, <2>3
<1>9. n + 2 <= k => n \in ends
  <2> SUFFICES ASSUME n + 2 <= k
               PROVE  n \in ends
    BY Zenon
  <2>1. n \in 0..(k - 2) /\ n \in 0..(k - 1) /\ n + 1 \in 0..(k - 1) /\ (n + 1) + 1 = n + 2
    BY <1>1
  <2> QED
    BY <1>4, <1>6, <2>1, Zenon
<1>10. find_crlf(b) = {i \in ends : \A j \in ends : i <= j}
  BY Zenon DEF find_crlf
<1> HIDE DEF ends
<1>11. ASSUME NEW end \in find_crlf(b)
       PROVE  end = n /\ SubSeq(held, 1, end) = line
  <2>1. end \in ends /\ \A j \in ends : end <= j
    BY <1>10, Zenon
  <2>2. end \in Nat /\ end <= k - 2 /\ n <= end
    BY <1>7, <1>8, <2>1, Zenon
  <2>3. n + 2 <= k
    BY <1>1, <2>2
  <2>4. end <= n
    BY <1>9, <2>1, <2>3, Zenon
  <2>5. end = n
    BY <1>1, <2>2, <2>4
  <2>6. /\ SubSeq(held, 1, n) \in Seq(Bytes) /\ Len(SubSeq(held, 1, n)) = n
        /\ \A i \in 1..n : SubSeq(held, 1, n)[i] = held[i]
    BY <1>1, <2>3, ElementOfSeq, SubSeqProperties
  <2>7. \A i \in 1..n : i \in 1..k
    BY <1>1, <2>3
  <2>8. \A i \in 1..n : SubSeq(held, 1, n)[i] = line[i]
    BY <1>4, <1>5, <2>6, <2>7, Zenon
  <2>9. SubSeq(held, 1, n) = line
    BY <1>1, <2>6, <2>8, SameSeq, Zenon
  <2> QED
    BY <2>5, <2>9, Zenon
<1>12. ASSUME find_crlf(b) = {}, n + 2 <= k
       PROVE  FALSE
  BY <1>8, <1>9, <1>10, <1>12, Zenon
<1>13. find_crlf(b) = {} => k < n + 2
  BY <1>1, <1>12
<1> QED
  BY <1>4, <1>11, <1>13, Zenon DEF held, all

\* consume() of a line leaves what follows it.
LEMMA LineConsumed ==
  ASSUME IsBuffer(input), wire \in Seq(Bytes), NEW line, IsLine(line),
         NEW rest \in Seq(Bytes), Left = (line \o <<CR, LF>>) \o rest,
         NEW end \in find_crlf(input), input' = consume(input, end + 2), UNCHANGED wire
  PROVE  Left' = rest
<1> DEFINE held == Contents(input)
<1>1. end = Len(line) /\ end \in Nat /\ end + 2 \in 0..readable(input)
  BY FirstLine, LineInBuffer, Zenon DEF Left
<1>2. held \in Seq(Bytes) /\ Len(held) = readable(input)
  BY ContentsType, Zenon
<1>3. Contents(input') = SubSeq(held, end + 2 + 1, Len(held))
  BY <1>1, ConsumeCorrect, Zenon
<1>4. SubSeq(held, end + 2 + 1, Len(held)) \o wire
        = SubSeq(held \o wire, end + 2 + 1, Len(held \o wire))
  <2> HIDE DEF held
  <2> QED
    BY <1>1, <1>2, RestOfConcat, Zenon
<1>5. PICK first \in Seq(Bytes) : first = line \o <<CR, LF>> /\ Len(first) = end + 2
  <2>1. PICK e \in Seq(Bytes) : e = <<CR, LF>> /\ Len(e) = 2
    BY LineEnd, Zenon
  <2>2. line \in Seq(Bytes)
    BY Zenon DEF IsLine
  <2>3. line \o e \in Seq(Bytes) /\ Len(line \o e) = Len(line) + Len(e)
    BY <2>2, ConcatProperties
  <2> QED
    BY <1>1, <2>1, <2>3, Zenon
<1>6. SubSeq(first \o rest, Len(first) + 1, Len(first \o rest)) = rest
  BY DropConcat
<1>7. held \o wire = first \o rest
  BY <1>5, Zenon DEF Left
<1> HIDE DEF held
<1> QED
  BY <1>3, <1>4, <1>5, <1>6, <1>7, Zenon DEF Left

\* What is left to count of the headers.
LEMMA UncountedStep ==
  ASSUME NEW r, IsRequest(r), NEW m \in 0..Len(r.headers)
  PROVE  /\ Uncounted(r, m) \in Nat
         /\ m = 0 => Uncounted(r, m) = HeadersSize(r)
         /\ m = Len(r.headers) => Uncounted(r, m) = 2
         /\ m < Len(r.headers) =>
              Uncounted(r, m) = Len(r.headers[m + 1]) + 2 + Uncounted(r, m + 1)
         /\ m < Len(r.headers) => Uncounted(r, m + 1) \in Nat
<1> DEFINE k == Len(r.headers)
           left(i) == Len(Joined(r.headers, i))
<1>1. r.headers \in Seq(Seq(Bytes)) /\ k \in Nat /\ \A i \in 1..k : r.headers[i] \in Seq(Bytes)
  BY LenProperties, ElementOfSeq, Zenon DEF IsRequest
<1>2. \A i \in 0..k : left(i) \in Nat
  BY <1>1, JoinedType, LenProperties, Zenon
<1>3. left(k) = 0
  <2>1. k \in 0..k
    BY <1>1
  <2>2. Joined(r.headers, k) = <<>>
    BY <1>1, <2>1, JoinedStep, Zenon
  <2> QED
    BY <2>2, EmptySeq, Zenon
<1>4. m < k => left(m) = Len(r.headers[m + 1]) + left(m + 1)
               /\ Len(r.headers[m + 1]) \in Nat /\ m + 1 \in 0..k
  <2> SUFFICES ASSUME m < k
               PROVE  left(m) = Len(r.headers[m + 1]) + left(m + 1)
                      /\ Len(r.headers[m + 1]) \in Nat /\ m + 1 \in 0..k
    BY Zenon
  <2>1. m # k /\ m + 1 \in 0..k /\ m + 1 \in 1..k
    BY <1>1
  <2>2. Joined(r.headers, m) = r.headers[m + 1] \o Joined(r.headers, m + 1)
    BY <1>1, <2>1, JoinedStep, Zenon
  <2>3. PICK first \in Seq(Bytes) : first = r.headers[m + 1]
    BY <1>1, <2>1, Zenon
  <2>4. PICK rest \in Seq(Bytes) : rest = Joined(r.headers, m + 1)
    BY <1>1, <2>1, JoinedType, Zenon
  <2>5. Len(first \o rest) = Len(first) + Len(rest) /\ Len(first) \in Nat
    BY ConcatProperties, LenProperties
  <2> QED
    BY <2>1, <2>2, <2>3, <2>4, <2>5, Zenon
<1>5. Uncounted(r, m) = left(m) + 2 * (k - m) + 2
      /\ Uncounted(r, m + 1) = left(m + 1) + 2 * (k - (m + 1)) + 2
      /\ HeadersSize(r) = left(0) + 2 * k + 2
  BY Zenon DEF Uncounted, HeadersSize
<1>6. m \in Nat /\ m <= k /\ left(m) \in Nat
  BY <1>1, <1>2
<1>7. m + 1 \in 0..k => left(m + 1) \in Nat
  BY <1>2, Zenon
<1> HIDE DEF left, k
<1>8. Uncounted(r, m) \in Nat /\ (m = 0 => Uncounted(r, m) = HeadersSize(r))
  BY <1>1, <1>5, <1>6
<1>9. m = k => Uncounted(r, m) = 2
  BY <1>1, <1>3, <1>5, <1>6
<1>10. m < k => /\ Uncounted(r, m) = Len(r.headers[m + 1]) + 2 + Uncounted(r, m + 1)
                /\ Uncounted(r, m + 1) \in Nat
  <2> SUFFICES ASSUME m < k
               PROVE  /\ Uncounted(r, m) = Len(r.headers[m + 1]) + 2 + Uncounted(r, m + 1)
                      /\ Uncounted(r, m + 1) \in Nat
    BY Zenon
  <2>1. PICK a \in Nat, c \in Nat, d \in Nat :
          /\ a = left(m) /\ c = left(m + 1) /\ d = Len(r.headers[m + 1]) /\ a = d + c
    BY <1>4, <1>6, <1>7, Zenon
  <2>2. /\ Uncounted(r, m) = a + 2 * (k - m) + 2
        /\ Uncounted(r, m + 1) = c + 2 * (k - (m + 1)) + 2
    BY <1>5, <2>1, Zenon
  <2>3. k \in Nat /\ m \in Nat /\ a = d + c
    BY <1>1, <1>6, <2>1, Zenon
  <2>4. Uncounted(r, m) = d + 2 + Uncounted(r, m + 1) /\ Uncounted(r, m + 1) \in Nat
    BY <2>2, <2>3
  <2> QED
    BY <2>1, <2>4, Zenon
<1> QED
  BY <1>8, <1>9, <1>10, Zenon DEF k

\* A header as the reference and as the parser read it.
LEMMA HeaderValue ==
  ASSUME NEW h \in Seq(Bytes), h # <<>>
  PROVE  /\ parse_size(h) <=> /\ Len(SubSeq(h, 2, Len(h))) = 1
                              /\ SubSeq(h, 2, Len(h))[1] \in Digits
         /\ Len(h) = 2 => SubSeq(h, 2, Len(h))[1] = h[2]
         /\ h[1] = Encoding => (Tail(h) = <<Identity>> <=> h = <<Encoding, Identity>>)
<1> DEFINE v == SubSeq(h, 2, Len(h))
<1>0. \A n \in Nat : /\ n # 0 => (IF 2 <= n THEN n - 2 + 1 ELSE 0) = n - 1
                     /\ n - 1 = 1 <=> n = 2
  OBVIOUS
<1>1. Len(h) \in Nat /\ Len(h) # 0
  BY EmptySeq, Zenon
<1>2. Len(v) = Len(h) - 1
  <2>1. \A i \in 2..Len(h) : h[i] \in Bytes
    BY <1>1, ElementOfSeq
  <2>2. Len(v) = IF 2 <= Len(h) THEN Len(h) - 2 + 1 ELSE 0
    BY <1>1, <2>1, SubSeqProperties
  <2> QED
    BY <1>0, <1>1, <2>2, Zenon
<1>3. Len(h) = 2 => v[1] = h[2]
  BY <1>1
<1>4. Len(v) = 1 <=> Len(h) = 2
  <2> HIDE DEF v
  <2> QED
    BY <1>0, <1>1, <1>2, Zenon
<1>5. parse_size(h) <=> Len(v) = 1 /\ v[1] \in Digits
  <2> HIDE DEF v
  <2> QED
    BY <1>3, <1>4, Zenon DEF parse_size
<1>6. ASSUME h[1] = Encoding
      PROVE  Tail(h) = <<Identity>> <=> h = <<Encoding, Identity>>
  <2>1. ASSUME h = <<Encoding, Identity>>
        PROVE  Tail(h) = <<Identity>>
    BY <2>1
  <2>2. ASSUME Tail(h) = <<Identity>>
        PROVE  h = <<Encoding, Identity>>
    <3>1. Len(Tail(h)) = Len(h) - 1 /\ \A i \in 1..(Len(h) - 1) : Tail(h)[i] = h[i + 1]
      BY <1>1
    <3>2. Len(<<Identity>>) = 1 /\ <<Identity>>[1] = Identity
      OBVIOUS
    <3>3. Len(h) - 1 = 1
      BY <2>2, <3>1, <3>2, Zenon
    <3>4. Len(h) = 2 /\ 1 \in 1..(Len(h) - 1) /\ 1 + 1 = 2
      <4>1. 1 \in 1..1 /\ 1 + 1 = 2
        OBVIOUS
      <4> QED
        BY <1>0, <1>1, <3>3, <4>1, Zenon
    <3>5. h[2] = Identity
      BY <2>2, <3>1, <3>2, <3>4, Zenon
    <3> QED
      BY <1>6, <3>4, <3>5
  <2> QED
    BY <2>1, <2>2, Zenon
<1> QED
  BY <1>3, <1>5, <1>6, Zenon

\* The reference, header by header.
LEMMA AcceptableHeaders ==
  ASSUME NEW r, IsRequest(r)
  PROVE  LET IsLength(i) == r.headers[i][1] = Length
             size(i) == Value(r.headers[i][2]) IN
         /\ Acceptable(r) <=>
              /\ WellFormed(r.line)
              /\ Len(r.line) <= request_line_bytes
              /\ HeadersSize(r) <= header_bytes
              /\ \A i \in 1..Len(r.headers) : GoodHeader(r.headers[i])
              /\ \A i, j \in 1..Len(r.headers) :
                   IsLength(i) /\ IsLength(j) => size(i) = size(j)
         /\ Acceptable(r) =>
              /\ (\A i \in 1..Len(r.headers) : ~IsLength(i)) => r.body = <<>>
              /\ \A i \in 1..Len(r.headers) : IsLength(i) => Len(r.body) = size(i)
<1> DEFINE k == Len(r.headers)
           h(i) == r.headers[i]
           v(i) == SubSeq(h(i), 2, Len(h(i)))
           Known(x) == /\ x[1] \in {Length, Encoding, OtherKey}
                       /\ x[1] = Encoding => Tail(x) = <<Identity>>
           Fits(i) == Len(v(i)) = 1 /\ v(i)[1] \in Digits /\ Value(v(i)[1]) <= body_bytes
<1>1. /\ r.headers \in Seq(Seq(Bytes)) /\ DOMAIN r.headers = 1..k
      /\ \A i \in 1..k : h(i) \in Seq(Bytes) /\ h(i) # <<>>
  <2>1. r.headers \in Seq(Seq(Bytes))
    BY Zenon DEF IsRequest
  <2>2. DOMAIN r.headers = 1..k /\ \A i \in 1..k : h(i) \in Seq(Bytes)
    BY <2>1, LenProperties, ElementOfSeq, Zenon
  <2>3. \A i \in 1..k : h(i) \in Range(r.headers)
    BY <2>2, Zenon DEF Range
  <2> QED
    BY <2>1, <2>2, <2>3, Zenon DEF IsRequest
<1>2. Range(r.headers) = {h(i) : i \in 1..k}
  BY <1>1, Zenon DEF Range
<1>3. \A i \in 1..k : h(i)[1] = Length => v(i) \in Lengths(r)
  BY <1>2, Zenon DEF Lengths
<1>4. \A x \in Lengths(r) : \E i \in 1..k : h(i)[1] = Length /\ x = v(i)
  BY <1>2, Zenon DEF Lengths
<1>5. \A i \in 1..k : /\ parse_size(h(i)) <=> Len(v(i)) = 1 /\ v(i)[1] \in Digits
                      /\ parse_size(h(i)) => v(i)[1] = h(i)[2]
                      /\ h(i)[1] = Encoding =>
                           (Tail(h(i)) = <<Identity>> <=> h(i) = <<Encoding, Identity>>)
  BY <1>1, HeaderValue, Zenon DEF parse_size
<1> HIDE DEF v
<1>6. \A i \in 1..k : GoodHeader(h(i)) <=>
        Known(h(i)) /\ (h(i)[1] = Length => Fits(i))
  <2> SUFFICES ASSUME NEW i \in 1..k
               PROVE  GoodHeader(h(i)) <=>
                        Known(h(i)) /\ (h(i)[1] = Length => Fits(i))
    BY Zenon
  <2>1. Fits(i) <=> parse_size(h(i)) /\ Value(h(i)[2]) <= body_bytes
    BY <1>5, Zenon
  <2>2. h(i)[1] = Encoding => (Tail(h(i)) = <<Identity>> <=> h(i) = <<Encoding, Identity>>)
    BY <1>5, Zenon
  <2> HIDE DEF h, Fits
  <2> QED
    BY <2>1, <2>2, Zenon DEF GoodHeader
<1>7. (\A x \in Lengths(r) : Len(x) = 1 /\ x[1] \in Digits /\ Value(x[1]) <= body_bytes)
        <=> \A i \in 1..k : h(i)[1] = Length => Fits(i)
  BY <1>3, <1>4, Zenon
<1>8. (\A x \in Range(r.headers) : Known(x)) <=> \A i \in 1..k : Known(h(i))
  <2> HIDE DEF Known, h
  <2> QED
    BY <1>2, Zenon
<1>9. ASSUME \A i \in 1..k : GoodHeader(h(i))
      PROVE  /\ \A i \in 1..k : h(i)[1] = Length => v(i)[1] = h(i)[2]
             /\ (\A x, y \in Lengths(r) : Value(x[1]) = Value(y[1]))
                  <=> \A i, j \in 1..k : h(i)[1] = Length /\ h(j)[1] = Length
                                           => Value(h(i)[2]) = Value(h(j)[2])
  <2>1. \A i \in 1..k : h(i)[1] = Length => v(i)[1] = h(i)[2]
    BY <1>5, <1>9, Zenon DEF GoodHeader
  <2> HIDE DEF h
  <2>2. ASSUME \A x, y \in Lengths(r) : Value(x[1]) = Value(y[1]),
               NEW i \in 1..k, NEW j \in 1..k, h(i)[1] = Length, h(j)[1] = Length
        PROVE  Value(h(i)[2]) = Value(h(j)[2])
    <3>1. Value(v(i)[1]) = Value(v(j)[1])
      BY <1>3, <2>2, Zenon
    <3> QED
      BY <2>1, <2>2, <3>1, Zenon
  <2>3. ASSUME \A i, j \in 1..k : h(i)[1] = Length /\ h(j)[1] = Length
                                     => Value(h(i)[2]) = Value(h(j)[2]),
               NEW x \in Lengths(r), NEW y \in Lengths(r)
        PROVE  Value(x[1]) = Value(y[1])
    <3>1. PICK i \in 1..k : h(i)[1] = Length /\ x = v(i)
      BY <1>4, Zenon
    <3>2. PICK j \in 1..k : h(j)[1] = Length /\ y = v(j)
      BY <1>4, Zenon
    <3> QED
      BY <2>1, <2>3, <3>1, <3>2, Zenon
  <2> QED
    BY <2>1, <2>2, <2>3, Zenon
<1>10. (\A i \in 1..k : GoodHeader(h(i))) <=>
         /\ \A i \in 1..k : Known(h(i))
         /\ \A i \in 1..k : h(i)[1] = Length => Fits(i)
  <2> HIDE DEF h, Fits, Known
  <2> QED
    BY <1>6, Zenon
<1>11. Acceptable(r) <=>
         /\ WellFormed(r.line)
         /\ Len(r.line) <= request_line_bytes
         /\ HeadersSize(r) <= header_bytes
         /\ \A i \in 1..k : GoodHeader(h(i))
         /\ \A i, j \in 1..k : h(i)[1] = Length /\ h(j)[1] = Length
                                 => Value(h(i)[2]) = Value(h(j)[2])
  <2> DEFINE Good1 == \A i \in 1..k : GoodHeader(h(i))
             Same1 == \A x, y \in Lengths(r) : Value(x[1]) = Value(y[1])
             Same2 == \A i, j \in 1..k : h(i)[1] = Length /\ h(j)[1] = Length
                                            => Value(h(i)[2]) = Value(h(j)[2])
             Known1 == \A x \in Range(r.headers) : Known(x)
             Fits1 == \A x \in Lengths(r) :
                        Len(x) = 1 /\ x[1] \in Digits /\ Value(x[1]) <= body_bytes
  <2>1. Acceptable(r) <=> /\ WellFormed(r.line) /\ Len(r.line) <= request_line_bytes
                          /\ HeadersSize(r) <= header_bytes /\ Known1 /\ Fits1 /\ Same1
    BY Zenon DEF Acceptable
  <2>2. Good1 <=> Known1 /\ Fits1
    <3> HIDE DEF h, Fits, Known
    <3> QED
      BY <1>7, <1>8, <1>10, Zenon
  <2>3. Good1 => (Same1 <=> Same2)
    BY <1>9, Zenon
  <2>4. Acceptable(r) <=> /\ WellFormed(r.line) /\ Len(r.line) <= request_line_bytes
                          /\ HeadersSize(r) <= header_bytes /\ Good1 /\ Same2
    <3> HIDE DEF Good1, Same1, Same2, Known1, Fits1
    <3> QED
      BY <2>1, <2>2, <2>3, Zenon
  <2> QED
    BY <2>4, Zenon
<1>12. ASSUME Acceptable(r)
       PROVE  /\ (\A i \in 1..k : ~(h(i)[1] = Length)) => r.body = <<>>
              /\ \A i \in 1..k : h(i)[1] = Length => Len(r.body) = Value(h(i)[2])
  <2>1. \A i \in 1..k : h(i)[1] = Length => v(i)[1] = h(i)[2]
    <3> HIDE DEF h
    <3> QED
      BY <1>9, <1>11, <1>12, Zenon
  <2>2. IF Lengths(r) = {} THEN r.body = <<>>
                          ELSE \A x \in Lengths(r) : Len(r.body) = Value(x[1])
    BY <1>12, Zenon DEF IsRequest
  <2> HIDE DEF h
  <2> QED
    BY <1>3, <1>4, <2>1, <2>2, Zenon
<1> QED
  BY <1>11, <1>12, Zenon

\* A step of parse() keeps the answers; it goes on, asks for more or refuses.
LEMMA ParseKeeps ==
  ASSUME AnswersInv, pc = "parse", UNCHANGED <<requests, answers>>,
         \/ pc' = "parse" /\ At(Len(answers))'
         \/ pc' = "read" /\ At(Len(answers))' /\ Starved'
         \/ pc' = "bad" /\ Refusable(Len(answers))'
  PROVE  AnswersInv'
<1>1. requests \in Workloads /\ Answered(Len(answers))
  BY Zenon DEF AnswersInv
<1>2. (requests \in Workloads)' /\ Answered(Len(answers))'
  BY <1>1, Zenon DEF Answered, OkAnswers
<1> QED
  BY <1>2, Zenon DEF AnswersInv

\* What is not acceptable may be refused, whatever the parser has consumed.
LEMMA UnacceptableRefusable ==
  ASSUME UNCHANGED <<requests, answers>>, Len(answers) < Len(requests),
         ~Acceptable(requests[Len(answers) + 1])
  PROVE  Refusable(Len(answers)) /\ Refusable(Len(answers))'
BY Zenon DEF Refusable

\* The parser is where it was when neither it nor the bytes left change.
LEMMA AtKept ==
  ASSUME UNCHANGED <<parser, answers, requests>>, Left' = Left, At(Len(answers))
  PROVE  At(Len(answers))'
<1> PICK n : n = Len(answers)
  BY Zenon
<1>1. parser' = parser /\ requests' = requests /\ n = Len(answers')
  BY Zenon
<1>2. \A m : Unanswered(m)' = Unanswered(m)
  BY Zenon DEF Unanswered
<1>3. \A r, m : Parsed(r, m) => Parsed(r, m)'
  BY <1>1, ZenonT(30) DEF Parsed
<1>4. AtLine(n) => AtLine(n)'
  BY <1>1, <1>2, Zenon DEF AtLine
<1>5. AtHeader(n) => AtHeader(n)'
  BY <1>1, <1>2, <1>3, Zenon DEF AtHeader
<1>6. AtBody(n) => AtBody(n)'
  BY <1>1, <1>2, Zenon DEF AtBody
<1>7. AtEnd(n) => AtEnd(n)'
  BY <1>1, <1>2, Zenon DEF AtEnd
<1>8. At(n)'
  BY <1>1, <1>4, <1>5, <1>6, <1>7, Zenon DEF At
<1> QED
  BY <1>1, <1>8, Zenon

\* parse() that ends without a request.
LEMMA WaitAnswers ==
  ASSUME AnswersInv, pc = "parse", NEW tooMuch \in BOOLEAN, Wait(tooMuch),
         UNCHANGED <<wire, answers, requests>>,
         tooMuch => Refusable(Len(answers)),
         ~tooMuch => Starved
  PROVE  AnswersInv'
<1>1. UNCHANGED <<input, parser>> /\ pc' = IF tooMuch THEN "bad" ELSE "read"
  BY Zenon DEF Wait
<1>2. At(Len(answers))
  BY Zenon DEF AnswersInv
<1>3. At(Len(answers))'
  <2>1. Left' = Left
    BY <1>1, Zenon DEF Left
  <2> QED
    BY <1>1, <1>2, <2>1, AtKept, Zenon
<1>4. ~tooMuch => Starved'
  BY <1>1, Zenon DEF Starved
<1>5. tooMuch => Refusable(Len(answers))'
  BY <1>1, Zenon DEF Refusable, CutAtLimit
<1> QED
  BY <1>1, <1>3, <1>4, <1>5, ParseKeeps, Zenon

\* The bytes left begin with the next line of the request.
LEMMA NextLine ==
  ASSUME NEW r, IsRequest(r), NEW m \in 0..(Len(r.headers) + 1), NEW u \in Seq(Bytes),
         Left = After(r, m) \o u
  PROVE  /\ IsLine(LineAfter(r, m))
         /\ After(r, m + 1) \o u \in Seq(Bytes)
         /\ Left = (LineAfter(r, m) \o <<CR, LF>>) \o (After(r, m + 1) \o u)
<1>1. /\ IsLine(LineAfter(r, m)) /\ After(r, m + 1) \in Seq(Bytes)
      /\ After(r, m) = (LineAfter(r, m) \o <<CR, LF>>) \o After(r, m + 1)
  BY AfterStep, Zenon
<1>2. PICK rest \in Seq(Bytes) : rest = After(r, m + 1)
  BY <1>1, Zenon
<1>3. PICK first \in Seq(Bytes) : first = LineAfter(r, m) \o <<CR, LF>>
  <2>1. PICK l \in Seq(Bytes) : l = LineAfter(r, m)
    BY <1>1, Zenon DEF IsLine
  <2>2. PICK e \in Seq(Bytes) : e = <<CR, LF>>
    BY LineEnd, Zenon
  <2>3. l \o e \in Seq(Bytes)
    BY ConcatProperties
  <2> QED
    BY <2>1, <2>2, <2>3, Zenon
<1>4. (first \o rest) \o u = first \o (rest \o u) /\ rest \o u \in Seq(Bytes)
  <2>1. (first \o rest) \o u = first \o (rest \o u)
    BY ConcatAssociative, SMTT(30)
  <2>2. rest \o u \in Seq(Bytes)
    BY ConcatProperties
  <2> QED
    BY <2>1, <2>2, Zenon
<1> QED
  BY <1>1, <1>2, <1>3, <1>4, Zenon

\* The next request.
LEMMA NextRequest ==
  ASSUME AnswersInv, pc # "gone", Len(answers) < Len(requests)
  PROVE  /\ Len(answers) \in Nat
         /\ Len(answers) + 1 \in 1..Len(requests)
         /\ IsRequest(requests[Len(answers) + 1])
         /\ Len(requests[Len(answers) + 1].headers) \in Nat
         /\ Unanswered(Len(answers) + 1) \in Seq(Bytes)
<1>1. requests \in Workloads /\ Len(answers) \in 0..Len(requests)
  BY Zenon DEF AnswersInv, Answered
<1>2. Len(requests) \in Nat /\ \A i \in 1..Len(requests) : IsRequest(requests[i])
  BY <1>1, RequestsType, Zenon
<1>3. Len(answers) \in Nat /\ Len(answers) + 1 \in 1..Len(requests)
      /\ Len(answers) + 1 \in 0..Len(requests)
  BY <1>1, <1>2
<1> QED
  BY <1>1, <1>2, <1>3, UnansweredStep, FramedLines, Zenon

LEMMA RequestLineAnswers ==
  HttpInv /\ AnswersInv /\ parse_request_line /\ UNCHANGED requests => AnswersInv'
<1> SUFFICES ASSUME HttpInv, AnswersInv, parse_request_line, UNCHANGED requests
             PROVE  AnswersInv'
  BY Zenon
<1> DEFINE n == Len(answers)
<1>0. /\ IsBuffer(input) /\ parser \in ParserType /\ wire \in Seq(Bytes)
      /\ UNCHANGED <<wire, answers, requests>>
      /\ pc = "parse" /\ parser.state = "REQUEST_LINE"
  BY Zenon DEF HttpInv, HttpTypeOK, ParserType, parse_request_line
<1>1. parser = Fresh /\ Left = Unanswered(n)
  BY <1>0, Zenon DEF AnswersInv, At, AtLine
<1>2. requests \in Workloads /\ n \in 0..Len(requests) /\ Len(requests) \in Nat
  BY <1>0, RequestsType, Zenon DEF AnswersInv, Answered
<1>3. readable(input) \in Nat /\ request_line_bytes \in Nat
  BY <1>0, ContentsType, ParserAssumption, Zenon
<1>4. RequestLineTooLong \in BOOLEAN
  BY DEF RequestLineTooLong
<1>5. CASE n = Len(requests)
  <2>1. Left = <<>>
    BY <1>1, <1>2, <1>5, UnansweredStep, Zenon
  <2>2. readable(input) = 0
    <3>1. PICK held \in Seq(Bytes) : held = Contents(input) /\ Len(held) = readable(input)
      BY <1>0, ContentsType, Zenon
    <3>2. Len(held \o wire) = Len(held) + Len(wire) /\ Len(wire) \in Nat
      BY <1>0, ConcatProperties, LenProperties
    <3>3. Len(held \o wire) = 0
      BY <2>1, <3>1, EmptySeq, Zenon DEF Left
    <3>4. readable(input) + Len(wire) = 0 /\ Len(wire) \in Nat
      BY <3>1, <3>2, <3>3, Zenon
    <3> QED
      BY <1>3, <3>4
  <2>3. ASSUME NEW end \in find_crlf(input)
        PROVE  FALSE
    <3>1. end \in Nat /\ end + 2 \in 0..0
      BY <1>0, <2>2, LineInBuffer, Zenon
    <3> QED
      BY <3>1
  <2>4. find_crlf(input) = {} /\ Wait(RequestLineTooLong)
    BY <2>3, Zenon DEF parse_request_line
  <2>5. ~RequestLineTooLong
    BY <1>3, <2>2 DEF RequestLineTooLong
  <2>6. Starved
    BY <1>0, <2>4, Zenon DEF Starved
  <2> QED
    BY <1>0, <1>4, <2>4, <2>5, <2>6, WaitAnswers, Zenon
<1>6. CASE n < Len(requests)
  <2> PICK r, u : r = requests[n + 1] /\ u = Unanswered(n + 1)
    BY Zenon
  <2> DEFINE line == r.line
             rest == After(r, 1) \o u
  <2>1. /\ n \in Nat /\ n + 1 \in 1..Len(requests) /\ IsRequest(r)
        /\ Len(r.headers) \in Nat /\ u \in Seq(Bytes)
    BY <1>0, <1>6, NextRequest, Zenon
  <2>2. Left = After(r, 0) \o u
    BY <1>1, <1>2, <1>6, UnansweredStep, Zenon
  <2>3. 0 \in 0..(Len(r.headers) + 1) /\ 0 + 1 = 1
    BY <2>1
  <2>4. IsLine(line) /\ rest \in Seq(Bytes) /\ Left = (line \o <<CR, LF>>) \o rest
    <3>1. LineAfter(r, 0) = line
      BY Zenon DEF LineAfter
    <3>2. /\ IsLine(LineAfter(r, 0)) /\ After(r, 0 + 1) \o u \in Seq(Bytes)
          /\ Left = (LineAfter(r, 0) \o <<CR, LF>>) \o (After(r, 0 + 1) \o u)
      BY <2>1, <2>2, <2>3, NextLine, Zenon
    <3> QED
      BY <2>3, <3>1, <3>2, Zenon
  <2>5. Len(line) \in Nat
    BY <2>4, LenProperties, Zenon DEF IsLine
  <2> HIDE DEF line, rest
  <2>6. /\ \A end \in find_crlf(input) : end = Len(line) /\ Taken(end) = line
        /\ find_crlf(input) = {} => readable(input) < Len(line) + 2
    BY <1>0, <2>4, FirstLine, Zenon DEF Left, Taken
  <2>7. ASSUME ~Acceptable(r)
        PROVE  Refusable(n) /\ Refusable(n)'
    BY <1>0, <1>6, <2>7, UnacceptableRefusable, Zenon
  <2>8. CASE find_crlf(input) = {} /\ Wait(RequestLineTooLong)
    <3>1. ASSUME RequestLineTooLong
          PROVE  Refusable(n)
      <4>1. readable(input) < Len(line) + 2 /\ readable(input) > request_line_bytes
        BY <2>6, <2>8, <3>1, Zenon DEF RequestLineTooLong
      <4>2. \/ Len(line) = request_line_bytes /\ readable(input) = Len(line) + 1
            \/ ~(Len(line) <= request_line_bytes)
        BY <1>3, <2>5, <4>1
      <4>3. CASE Len(line) = request_line_bytes /\ readable(input) = Len(line) + 1
        <5>1. Contents(input) = Append(line, CR)
          BY <1>0, <2>4, <4>3, CutAfterCR, Zenon DEF Left
        <5> QED
          BY <1>6, <4>3, <5>1, Zenon DEF Refusable, CutAtLimit, line
      <4>4. CASE ~(Len(line) <= request_line_bytes)
        BY <2>7, <4>4, Zenon DEF Acceptable, line
      <4> QED
        BY <4>2, <4>3, <4>4, Zenon
    <3>2. Starved
      BY <1>0, <2>8, Zenon DEF Starved
    <3> QED
      BY <1>0, <1>4, <2>8, <3>1, <3>2, WaitAnswers, Zenon
  <2>9. ASSUME NEW end \in find_crlf(input), LineTooLong(end), Wait(TRUE)
        PROVE  AnswersInv'
    <3>1. ~(Len(line) <= request_line_bytes)
      <4>1. Len(line) > request_line_bytes
        BY <2>6, <2>9, Zenon DEF LineTooLong
      <4> QED
        BY <1>3, <2>5, <4>1
    <3>2. Refusable(n)
      BY <2>7, <3>1, Zenon DEF Acceptable, line
    <3> QED
      BY <1>0, <2>9, <3>2, WaitAnswers, Zenon
  <2>10. ASSUME NEW end \in find_crlf(input), ~LineTooLong(end),
                input' = consume(input, end + 2),
                IF WellFormed(Taken(end))
                  THEN /\ parser' = [parser EXCEPT !.state = "HEADERS", !.path = Taken(end)]
                       /\ UNCHANGED pc
                  ELSE pc' = "bad" /\ UNCHANGED parser
         PROVE  AnswersInv'
    <3>1. Taken(end) = line /\ Len(line) <= request_line_bytes
      <4>1. Taken(end) = line /\ ~(Len(line) > request_line_bytes)
        BY <2>6, <2>10, Zenon DEF LineTooLong
      <4> QED
        BY <1>3, <2>5, <4>1
    <3>2. CASE ~WellFormed(line)
      <4>1. Refusable(n)' /\ pc' = "bad"
        BY <2>7, <2>10, <3>1, <3>2, Zenon DEF Acceptable, line
      <4> QED
        BY <1>0, <4>1, ParseKeeps, Zenon
    <3>3. CASE WellFormed(line)
      <4>1. parser' = [parser EXCEPT !.state = "HEADERS", !.path = line] /\ pc' = "parse"
        BY <1>0, <2>10, <3>1, <3>3, Zenon
      <4>2. /\ parser'.state = "HEADERS" /\ parser'.path = line /\ parser'.body = <<>>
            /\ parser'.content_length = 0 /\ parser'.header_bytes = 0
            /\ parser'.content_length_seen = FALSE
        BY <1>0, <1>1, <4>1, Zenon DEF ParserType, Fresh
      <4>3. Left' = rest
        BY <1>0, <2>4, <2>10, LineConsumed, Zenon
      <4>4. 0 \in 0..Len(r.headers) /\ (\A i \in 1..0 : FALSE)
        BY <2>1
      <4>5. 0 + Uncounted(r, 0) = HeadersSize(r)
        <5>1. Uncounted(r, 0) \in Nat /\ Uncounted(r, 0) = HeadersSize(r)
          BY <2>1, <4>4, UncountedStep, Zenon
        <5> QED
          BY <5>1
      <4>6. Parsed(r, 0)'
        BY <3>1, <3>3, <4>2, <4>4, <4>5, Zenon DEF Parsed, line
      <4>7. AtHeader(n)'
        <5>1. r = requests'[Len(answers') + 1] /\ u = Unanswered(Len(answers) + 1)'
              /\ Len(answers') < Len(requests')
          BY <1>0, <1>6, Zenon DEF Unanswered
        <5>2. Left' = After(r, 0 + 1) \o u
          BY <2>3, <4>3, Zenon DEF rest
        <5> QED
          BY <4>4, <4>6, <5>1, <5>2, Zenon DEF AtHeader
      <4>8. At(n)'
        BY <4>2, <4>7, Zenon DEF At
      <4> QED
        BY <1>0, <4>1, <4>8, ParseKeeps, Zenon
    <3> QED
      BY <3>2, <3>3, Zenon
  <2> QED
    BY <2>8, <2>9, <2>10, Zenon DEF parse_request_line
<1> QED
  BY <1>2, <1>5, <1>6

\* A declared length is within the limit or above it.
LEMMA ValueBound ==
  ASSUME NEW h, parse_size(h)
  PROVE  Value(h[2]) <= body_bytes <=> ~(Value(h[2]) > body_bytes)
<1>1. Value(h[2]) \in Nat /\ body_bytes \in Nat
  BY ParserAssumption, Zenon DEF parse_size
<1> QED
  BY <1>1

\* The line after m headers, and what it adds to header_bytes_.
LEMMA HeaderLine ==
  ASSUME NEW r, IsRequest(r), NEW m \in 0..Len(r.headers)
  PROVE  LET line == LineAfter(r, m + 1) IN
         /\ m < Len(r.headers) => line = r.headers[m + 1] /\ line # <<>>
         /\ m = Len(r.headers) => line = <<>>
         /\ Len(line) \in Nat
         /\ Uncounted(r, m) \in Nat
         /\ Len(line) + 2 <= Uncounted(r, m)
<1> DEFINE k == Len(r.headers)
<1>1. r.headers \in Seq(Seq(Bytes)) /\ k \in Nat /\ DOMAIN r.headers = 1..k
  BY LenProperties, Zenon DEF IsRequest
<1>2. m \in Nat /\ m <= k /\ m + 1 # 0
  BY <1>1
<1>3. CASE m < k
  <2>1. m + 1 \in 1..k /\ m + 1 <= k
    <3> HIDE DEF k
    <3> QED
      BY <1>1, <1>2, <1>3
  <2>2. LineAfter(r, m + 1) = r.headers[m + 1]
    BY <1>2, <2>1, Zenon DEF LineAfter
  <2>3. r.headers[m + 1] # <<>> /\ r.headers[m + 1] \in Seq(Bytes)
    <3>1. r.headers[m + 1] \in Range(r.headers)
      BY <1>1, <2>1, Zenon DEF Range
    <3> QED
      BY <3>1, Zenon DEF IsRequest, IsLine
  <2>4. Len(r.headers[m + 1]) \in Nat
    BY <2>3, LenProperties, Zenon
  <2>5. /\ Uncounted(r, m) = Len(r.headers[m + 1]) + 2 + Uncounted(r, m + 1)
        /\ Uncounted(r, m) \in Nat /\ Uncounted(r, m + 1) \in Nat
    BY <1>3, UncountedStep, Zenon
  <2>6. Len(r.headers[m + 1]) + 2 <= Uncounted(r, m) /\ ~(m = k)
    <3> HIDE DEF k
    <3> QED
      BY <1>2, <1>3, <2>4, <2>5
  <2> QED
    BY <2>2, <2>3, <2>4, <2>5, <2>6, Zenon
<1>4. CASE m = k
  <2>1. ~(m + 1 <= k) /\ ~(m < k) /\ 0 + 2 <= 2 /\ 0 \in Nat /\ 2 \in Nat
    <3> HIDE DEF k
    <3> QED
      BY <1>1, <1>4
  <2>2. LineAfter(r, m + 1) = <<>>
    BY <1>2, <2>1, Zenon DEF LineAfter
  <2>3. Uncounted(r, m) = 2
    BY <1>4, UncountedStep, Zenon
  <2>4. Len(<<>>) = 0
    OBVIOUS
  <2> QED
    BY <1>4, <2>1, <2>2, <2>3, <2>4, Zenon
<1>5. m < k \/ m = k
  <2> HIDE DEF k
  <2> QED
    BY <1>1, <1>2
<1> QED
  BY <1>3, <1>4, <1>5, Zenon

\* A header line the parser refuses makes the request unacceptable.
LEMMA HeaderRefused ==
  ASSUME NEW r, IsRequest(r), NEW m \in 0..Len(r.headers), Parsed(r, m),
         m < Len(r.headers), BadHeader(r.headers[m + 1])
  PROVE  ~Acceptable(r)
<1> DEFINE k == Len(r.headers)
<1>1. k \in Nat
  BY FramedLines, Zenon
<1>2. m + 1 \in 1..k /\ \A i \in 1..m : i \in 1..k
  BY <1>1
<1> SUFFICES ASSUME Acceptable(r)
             PROVE  FALSE
  BY Zenon
<1>3. /\ GoodHeader(r.headers[m + 1])
      /\ \A i, j \in 1..k : r.headers[i][1] = Length /\ r.headers[j][1] = Length
                              => Value(r.headers[i][2]) = Value(r.headers[j][2])
  BY <1>2, AcceptableHeaders, Zenon
<1>4. /\ r.headers[m + 1][1] = Length /\ parser.content_length_seen
      /\ Value(r.headers[m + 1][2]) # parser.content_length
  BY <1>3, ValueBound, Zenon DEF BadHeader, GoodHeader
<1>5. PICK i \in 1..m : r.headers[i][1] = Length
  BY <1>4, Zenon DEF Parsed
<1>6. parser.content_length = Value(r.headers[i][2])
  BY <1>5, Zenon DEF Parsed
<1> QED
  BY <1>2, <1>3, <1>4, <1>5, <1>6, Zenon

\* After all the headers of a request within the limits it is acceptable, and
\* the parser knows the length of its body.
LEMMA HeadersAccepted ==
  ASSUME NEW r, IsRequest(r), Parsed(r, Len(r.headers)), HeadersSize(r) <= header_bytes
  PROVE  Acceptable(r) /\ parser.content_length = Len(r.body)
<1> DEFINE k == Len(r.headers)
<1>1. \A i \in 1..k : /\ GoodHeader(r.headers[i])
                      /\ r.headers[i][1] = Length =>
                           /\ parser.content_length_seen
                           /\ parser.content_length = Value(r.headers[i][2])
  BY Zenon DEF Parsed
<1>2. /\ parser.content_length_seen => \E i \in 1..k : r.headers[i][1] = Length
      /\ ~parser.content_length_seen => parser.content_length = 0
      /\ WellFormed(r.line) /\ Len(r.line) <= request_line_bytes
  BY Zenon DEF Parsed
<1>3. \A i, j \in 1..k : r.headers[i][1] = Length /\ r.headers[j][1] = Length
                           => Value(r.headers[i][2]) = Value(r.headers[j][2])
  <2> SUFFICES ASSUME NEW i \in 1..k, NEW j \in 1..k,
                      r.headers[i][1] = Length, r.headers[j][1] = Length
               PROVE  Value(r.headers[i][2]) = Value(r.headers[j][2])
    BY Zenon
  <2>1. parser.content_length = Value(r.headers[i][2])
    BY <1>1, Zenon
  <2>2. parser.content_length = Value(r.headers[j][2])
    BY <1>1, Zenon
  <2> QED
    BY <2>1, <2>2, Zenon
<1>4. \A i \in 1..k : GoodHeader(r.headers[i])
  BY <1>1, Zenon
<1>5. Acceptable(r)
  BY <1>2, <1>3, <1>4, AcceptableHeaders, Zenon
<1>6. /\ (\A i \in 1..k : ~(r.headers[i][1] = Length)) => r.body = <<>>
      /\ \A i \in 1..k : r.headers[i][1] = Length => Len(r.body) = Value(r.headers[i][2])
  BY <1>5, AcceptableHeaders, Zenon
<1>7. parser.content_length = Len(r.body)
  <2>1. CASE parser.content_length_seen
    <3>1. PICK i \in 1..k : r.headers[i][1] = Length
      BY <1>2, <2>1, Zenon
    <3> QED
      BY <1>1, <1>6, <3>1, Zenon
  <2>2. CASE ~parser.content_length_seen
    <3>1. r.body = <<>>
      BY <1>1, <1>6, <2>2, Zenon
    <3>2. Len(<<>>) = 0
      OBVIOUS
    <3> QED
      BY <1>2, <2>2, <3>1, <3>2, Zenon
  <2> QED
    BY <2>1, <2>2, Zenon
<1> QED
  BY <1>5, <1>7, Zenon

\* A header line the parser accepts.
LEMMA HeaderParsed ==
  ASSUME NEW r, IsRequest(r), NEW m \in 0..Len(r.headers), Parsed(r, m),
         parser \in ParserType,
         m < Len(r.headers), ~BadHeader(r.headers[m + 1]),
         LET line == r.headers[m + 1]
             counted == [parser EXCEPT !.header_bytes = Counted(line)] IN
         parser' = IF line[1] = Length
                     THEN [counted EXCEPT !.content_length = Value(line[2]),
                                          !.content_length_seen = TRUE]
                     ELSE counted
  PROVE  Parsed(r, m + 1)' /\ parser'.state = parser.state
<1> DEFINE k == Len(r.headers)
           line == r.headers[m + 1]
           counted == [parser EXCEPT !.header_bytes = Counted(line)]
<1>1. k \in Nat /\ m \in Nat /\ m + 1 \in 0..k /\ m + 1 \in 1..k
  <2>1. k \in Nat
    BY FramedLines, Zenon
  <2> QED
    BY <2>1
<1>2. /\ counted.path = parser.path /\ counted.body = parser.body
      /\ counted.state = parser.state
      /\ counted.header_bytes = Counted(line)
      /\ counted.content_length = parser.content_length
      /\ counted.content_length_seen = parser.content_length_seen
      /\ counted \in [state : {"REQUEST_LINE", "HEADERS", "BODY", "DONE"},
                      path : Seq(Bytes), body : Seq(Bytes), content_length : Nat,
                      header_bytes : {Counted(line)}, content_length_seen : BOOLEAN]
  <2> HIDE DEF line
  <2> QED
    BY Zenon DEF ParserType
<1>3. parser' = IF line[1] = Length
                  THEN [counted EXCEPT !.content_length = Value(line[2]),
                                       !.content_length_seen = TRUE]
                  ELSE counted
  BY Zenon
<1> HIDE DEF counted, line
<1>4. /\ parser'.path = parser.path /\ parser'.body = parser.body
      /\ parser'.state = parser.state /\ parser'.header_bytes = Counted(line)
  <2>1. CASE line[1] = Length
    BY <1>2, <1>3, <2>1, Zenon
  <2>2. CASE line[1] # Length
    BY <1>2, <1>3, <2>2, Zenon
  <2> QED
    BY <2>1, <2>2, Zenon
<1>5. Counted(line) + Uncounted(r, m + 1) = HeadersSize(r)
  <2>1. /\ Uncounted(r, m) = Len(line) + 2 + Uncounted(r, m + 1)
        /\ Uncounted(r, m + 1) \in Nat
    BY UncountedStep, Zenon DEF line
  <2>2. parser.header_bytes \in Nat /\ parser.header_bytes + Uncounted(r, m) = HeadersSize(r)
    BY Zenon DEF Parsed, ParserType
  <2>3. Len(line) \in Nat
    <3>1. line = LineAfter(r, m + 1)
      BY HeaderLine, Zenon DEF line
    <3> QED
      BY <3>1, HeaderLine, Zenon
  <2> QED
    BY <2>1, <2>2, <2>3 DEF Counted
<1>6. GoodHeader(line)
  BY ValueBound, Zenon DEF BadHeader, GoodHeader, line
<1>7. line[1] = Length => /\ parser'.content_length_seen = TRUE
                          /\ parser'.content_length = Value(line[2])
                          /\ parser.content_length_seen =>
                               Value(line[2]) = parser.content_length
  <2> SUFFICES ASSUME line[1] = Length
               PROVE  /\ parser'.content_length_seen = TRUE
                      /\ parser'.content_length = Value(line[2])
                      /\ parser.content_length_seen => Value(line[2]) = parser.content_length
    BY Zenon
  <2>1. parser' = [counted EXCEPT !.content_length = Value(line[2]),
                                  !.content_length_seen = TRUE]
    BY <1>3, Zenon
  <2> QED
    BY <1>2, <2>1, Zenon DEF BadHeader, line
<1>8. line[1] # Length => /\ parser'.content_length_seen = parser.content_length_seen
                          /\ parser'.content_length = parser.content_length
  BY <1>2, <1>3, Zenon
<1>9. \A i \in 1..(m + 1) : /\ GoodHeader(r.headers[i])
                            /\ r.headers[i][1] = Length =>
                                 /\ parser'.content_length_seen
                                 /\ parser'.content_length = Value(r.headers[i][2])
  <2> SUFFICES ASSUME NEW i \in 1..(m + 1)
               PROVE  /\ GoodHeader(r.headers[i])
                      /\ r.headers[i][1] = Length =>
                           /\ parser'.content_length_seen
                           /\ parser'.content_length = Value(r.headers[i][2])
    BY Zenon
  <2>1. CASE i = m + 1
    BY <1>6, <1>7, <2>1, Zenon DEF line
  <2>2. CASE i \in 1..m
    <3>1. /\ GoodHeader(r.headers[i])
          /\ r.headers[i][1] = Length =>
               /\ parser.content_length_seen
               /\ parser.content_length = Value(r.headers[i][2])
      BY <2>2, Zenon DEF Parsed
    <3> QED
      BY <1>7, <1>8, <3>1, Zenon
  <2>3. i = m + 1 \/ i \in 1..m
    BY <1>1
  <2> QED
    BY <2>1, <2>2, <2>3, Zenon
<1>10. parser'.content_length_seen => \E i \in 1..(m + 1) : r.headers[i][1] = Length
  <2>1. m + 1 \in 1..(m + 1) /\ \A i \in 1..m : i \in 1..(m + 1)
    BY <1>1
  <2>2. CASE line[1] = Length
    BY <2>1, <2>2, Zenon DEF line
  <2>3. CASE line[1] # Length
    <3>1. parser.content_length_seen => \E i \in 1..m : r.headers[i][1] = Length
      BY Zenon DEF Parsed
    <3> QED
      BY <1>8, <2>1, <2>3, <3>1, Zenon
  <2> QED
    BY <2>2, <2>3, Zenon
<1>11. ~parser'.content_length_seen => parser'.content_length = 0
  <2>1. ~parser.content_length_seen => parser.content_length = 0
    BY Zenon DEF Parsed
  <2> QED
    BY <1>7, <1>8, <2>1, Zenon
<1>12. /\ parser.path = r.line /\ parser.body = <<>>
       /\ WellFormed(r.line) /\ Len(r.line) <= request_line_bytes
  BY Zenon DEF Parsed
<1> QED
  BY <1>1, <1>4, <1>5, <1>9, <1>10, <1>11, <1>12, Zenon DEF Parsed

LEMMA HeadersAnswers ==
  HttpInv /\ AnswersInv /\ parse_headers /\ UNCHANGED requests => AnswersInv'
<1> SUFFICES ASSUME HttpInv, AnswersInv, parse_headers, UNCHANGED requests
             PROVE  AnswersInv'
  BY Zenon
<1> DEFINE n == Len(answers)
<1>0. /\ IsBuffer(input) /\ parser \in ParserType /\ wire \in Seq(Bytes)
      /\ UNCHANGED <<wire, answers, requests>>
      /\ pc = "parse" /\ parser.state = "HEADERS"
  BY Zenon DEF HttpInv, HttpTypeOK, ParserType, parse_headers
<1>1. AtHeader(n)
  BY <1>0, Zenon DEF AnswersInv, At
<1>2. n < Len(requests)
  BY <1>1, Zenon DEF AtHeader
<1> PICK r, u : r = requests[n + 1] /\ u = Unanswered(n + 1)
  BY Zenon
<1>3. IsRequest(r) /\ Len(r.headers) \in Nat /\ u \in Seq(Bytes)
  BY <1>0, <1>2, NextRequest, Zenon
<1>4. PICK m \in 0..Len(r.headers) : Parsed(r, m) /\ Left = After(r, m + 1) \o u
  BY <1>1, Zenon DEF AtHeader
<1> DEFINE line == LineAfter(r, m + 1)
           rest == After(r, m + 2) \o u
           counted == [parser EXCEPT !.header_bytes = Counted(line)]
<1>5. /\ readable(input) \in Nat /\ header_bytes \in Nat /\ parser.header_bytes \in Nat
      /\ m \in Nat /\ m + 1 \in 0..(Len(r.headers) + 1) /\ (m + 1) + 1 = m + 2
  <2>1. readable(input) \in Nat /\ header_bytes \in Nat /\ parser.header_bytes \in Nat
    BY <1>0, ContentsType, ParserAssumption, Zenon DEF ParserType
  <2>2. m \in Nat /\ m + 1 \in 0..(Len(r.headers) + 1) /\ (m + 1) + 1 = m + 2
    BY <1>3, <1>4
  <2> QED
    BY <2>1, <2>2, Zenon
<1>6. IsLine(line) /\ rest \in Seq(Bytes) /\ Left = (line \o <<CR, LF>>) \o rest
  <2>1. /\ IsLine(LineAfter(r, m + 1)) /\ After(r, (m + 1) + 1) \o u \in Seq(Bytes)
        /\ Left = (LineAfter(r, m + 1) \o <<CR, LF>>) \o (After(r, (m + 1) + 1) \o u)
    BY <1>3, <1>4, <1>5, NextLine, Zenon
  <2> QED
    BY <1>5, <2>1, Zenon
<1>7. /\ m < Len(r.headers) => line = r.headers[m + 1] /\ line # <<>>
      /\ m = Len(r.headers) => line = <<>>
      /\ Len(line) \in Nat /\ Uncounted(r, m) \in Nat /\ Len(line) + 2 <= Uncounted(r, m)
      /\ parser.header_bytes + Uncounted(r, m) = HeadersSize(r)
  BY <1>3, <1>4, HeaderLine, Zenon DEF Parsed
<1> HIDE DEF line, rest
<1>8. /\ \A end \in find_crlf(input) : end = Len(line) /\ Taken(end) = line
      /\ find_crlf(input) = {} => readable(input) < Len(line) + 2
  BY <1>0, <1>6, FirstLine, Zenon DEF Left, Taken
<1>9. ASSUME ~Acceptable(r)
      PROVE  Refusable(n) /\ Refusable(n)'
  BY <1>0, <1>2, <1>9, UnacceptableRefusable, Zenon
<1>10. CASE find_crlf(input) = {} /\ Wait(parser.header_bytes + readable(input) > header_bytes)
  <2> DEFINE tooMuch == parser.header_bytes + readable(input) > header_bytes
  <2>1. tooMuch \in BOOLEAN
    OBVIOUS
  <2>2. ASSUME tooMuch
        PROVE  Refusable(n)
    <3>1. readable(input) < Len(line) + 2
      BY <1>8, <1>10, Zenon
    <3>2. ~(HeadersSize(r) <= header_bytes)
      BY <1>5, <1>7, <2>2, <3>1
    <3> QED
      BY <1>9, <3>2, Zenon DEF Acceptable
  <2>3. Starved
    BY <1>0, <1>10, Zenon DEF Starved
  <2>4. Wait(tooMuch)
    BY <1>10, Zenon
  <2> HIDE DEF tooMuch
  <2> QED
    BY <1>0, <2>1, <2>2, <2>3, <2>4, WaitAnswers, Zenon
<1>11. ASSUME NEW end \in find_crlf(input), parser.header_bytes + end + 2 > header_bytes,
              Wait(TRUE)
       PROVE  AnswersInv'
  <2>1. end = Len(line)
    BY <1>8, <1>11, Zenon
  <2>2. ~(HeadersSize(r) <= header_bytes)
    BY <1>5, <1>7, <1>11, <2>1
  <2>3. Refusable(n)
    BY <1>9, <2>2, Zenon DEF Acceptable
  <2> QED
    BY <1>0, <1>11, <2>3, WaitAnswers, Zenon
<1>12. ASSUME NEW end \in find_crlf(input), ~(parser.header_bytes + end + 2 > header_bytes),
              parse_header(Taken(end))
       PROVE  AnswersInv'
  <2>1. Taken(end) = line /\ end = Len(line)
    BY <1>8, <1>12, Zenon
  <2>2. /\ input' = consume(input, Len(line) + 2)
        /\ IF line # <<>> /\ BadHeader(line)
             THEN pc' = "bad" /\ parser' = counted
             ELSE /\ UNCHANGED pc
                  /\ parser' =
                       IF line = <<>>
                         THEN [counted EXCEPT !.state = IF parser.content_length = 0
                                                          THEN "DONE" ELSE "BODY"]
                       ELSE IF line[1] = Length
                         THEN [counted EXCEPT !.content_length = Value(line[2]),
                                              !.content_length_seen = TRUE]
                         ELSE counted
    BY <1>12, <2>1, Zenon DEF parse_header
  <2>3. Left' = rest
    <3>1. input' = consume(input, end + 2)
      BY <2>1, <2>2, Zenon
    <3> QED
      BY <1>0, <1>6, <1>12, <3>1, LineConsumed, Zenon
  <2>4. r = requests'[Len(answers') + 1] /\ u = Unanswered(Len(answers) + 1)'
        /\ Len(answers') < Len(requests')
    BY <1>0, <1>2, Zenon DEF Unanswered
  <2>5. m < Len(r.headers) \/ m = Len(r.headers)
    BY <1>3, <1>4, <1>5
  <2>6. CASE line # <<>> /\ BadHeader(line)
    <3>1. m < Len(r.headers) /\ line = r.headers[m + 1]
      BY <1>7, <2>5, <2>6, Zenon
    <3>2. Refusable(n)'
      BY <1>3, <1>4, <1>9, <2>6, <3>1, HeaderRefused, Zenon
    <3>3. pc' = "bad"
      BY <2>2, <2>6, Zenon
    <3> QED
      BY <1>0, <3>2, <3>3, ParseKeeps, Zenon
  <2>7. CASE line # <<>> /\ ~BadHeader(line)
    <3>1. m < Len(r.headers) /\ line = r.headers[m + 1]
      BY <1>7, <2>5, <2>7, Zenon
    <3>2. pc' = "parse" /\ parser' = IF line[1] = Length
                                       THEN [counted EXCEPT !.content_length = Value(line[2]),
                                                            !.content_length_seen = TRUE]
                                       ELSE counted
      BY <1>0, <2>2, <2>7, Zenon
    <3>3. Parsed(r, m + 1)' /\ parser'.state = "HEADERS"
      BY <1>0, <1>3, <1>4, <2>7, <3>1, <3>2, HeaderParsed, Zenon
    <3>4. m + 1 \in 0..Len(r.headers)
      BY <1>3, <1>5, <3>1
    <3>5. Left' = After(r, (m + 1) + 1) \o u
      BY <1>5, <2>3, Zenon DEF rest
    <3>6. AtHeader(n)'
      BY <2>4, <3>3, <3>4, <3>5, Zenon DEF AtHeader
    <3>7. At(n)'
      BY <3>3, <3>6, Zenon DEF At
    <3> QED
      BY <1>0, <3>2, <3>7, ParseKeeps, Zenon
  <2>8. CASE line = <<>>
    <3>1. m = Len(r.headers)
      BY <1>7, <2>5, <2>8, Zenon
    <3>2. HeadersSize(r) <= header_bytes
      <4>1. Uncounted(r, m) = 2
        BY <1>3, <1>4, <3>1, UncountedStep, Zenon
      <4>2. Len(line) = 0
        BY <2>8
      <4> QED
        BY <1>5, <1>7, <1>12, <2>1, <4>1, <4>2
    <3>3. Acceptable(r) /\ parser.content_length = Len(r.body)
      BY <1>3, <1>4, <3>1, <3>2, HeadersAccepted, Zenon
    <3>4. parser.path = r.line /\ parser.body = <<>>
      BY <1>4, Zenon DEF Parsed
    <3>5. pc' = "parse" /\ parser' = [counted EXCEPT !.state =
                                        IF parser.content_length = 0 THEN "DONE" ELSE "BODY"]
      BY <1>0, <2>2, <2>8, Zenon
    <3>6. /\ parser'.path = r.line /\ parser'.body = <<>>
          /\ parser'.content_length = Len(r.body)
          /\ parser'.state = IF parser.content_length = 0 THEN "DONE" ELSE "BODY"
      BY <1>0, <3>3, <3>4, <3>5, Zenon DEF ParserType
    <3>7. Left' = r.body \o u
      BY <1>3, <2>3, <3>1, AfterEnd, Zenon DEF rest
    <3>8. CASE parser.content_length = 0
      <4>1. r.body = <<>>
        <5>1. r.body \in Seq(Bytes)
          BY <1>3, Zenon DEF IsRequest
        <5> QED
          BY <3>3, <3>8, <5>1, EmptySeq, Zenon
      <4>2. Left' = u
        BY <1>3, <3>7, <4>1, ConcatEmptySeq, Zenon
      <4>3. AtEnd(n)' /\ parser'.state = "DONE"
        BY <2>4, <3>3, <3>6, <3>8, <4>1, <4>2, Zenon DEF AtEnd
      <4> QED
        BY <1>0, <3>5, <4>3, ParseKeeps, Zenon DEF At
    <3>9. CASE parser.content_length # 0
      <4>1. AtBody(n)' /\ parser'.state = "BODY"
        BY <2>4, <3>3, <3>6, <3>7, <3>9, Zenon DEF AtBody
      <4> QED
        BY <1>0, <3>5, <4>1, ParseKeeps, Zenon DEF At
    <3> QED
      BY <3>8, <3>9, Zenon
  <2> QED
    BY <2>6, <2>7, <2>8, Zenon
<1> QED
  BY <1>10, <1>11, <1>12, Zenon DEF parse_headers

\* Two ways to cut the same bytes.
LEMMA CutConcat ==
  ASSUME NEW s \in Seq(Bytes), NEW t \in Seq(Bytes), NEW a \in Seq(Bytes),
         NEW b \in Seq(Bytes), s \o t = a \o b, Len(a) <= Len(s)
  PROVE  /\ SubSeq(s, 1, Len(a)) = a
         /\ SubSeq(s, Len(a) + 1, Len(s)) \o t = b
<1>1. Len(a) \in Nat /\ Len(s) \in Nat /\ Len(a) \in 0..Len(s)
  BY LenProperties
<1>2. SubSeq(s, Len(a) + 1, Len(s)) \o t = b
  <2>1. SubSeq(s, Len(a) + 1, Len(s)) \o t = SubSeq(s \o t, Len(a) + 1, Len(s \o t))
    BY <1>1, RestOfConcat, Zenon
  <2>2. SubSeq(a \o b, Len(a) + 1, Len(a \o b)) = b
    BY DropConcat, Zenon
  <2> QED
    BY <2>1, <2>2, Zenon
<1>3. \A i \in 1..Len(a) : s[i] = a[i]
  <2>1. \A i \in 1..Len(s) : (s \o t)[i] = s[i]
    BY ConcatProperties
  <2>2. \A i \in 1..Len(a) : (a \o b)[i] = a[i]
    BY ConcatProperties
  <2>3. \A i \in 1..Len(a) : i \in 1..Len(s)
    BY <1>1
  <2> QED
    BY <2>1, <2>2, <2>3, Zenon
<1>4. SubSeq(s, 1, Len(a)) = a
  <2>1. /\ SubSeq(s, 1, Len(a)) \in Seq(Bytes) /\ Len(SubSeq(s, 1, Len(a))) = Len(a)
        /\ \A i \in 1..Len(a) : SubSeq(s, 1, Len(a))[i] = s[i]
    BY <1>1, ElementOfSeq, SubSeqProperties, SMTT(30)
  <2>2. \A i \in 1..Len(SubSeq(s, 1, Len(a))) : SubSeq(s, 1, Len(a))[i] = a[i]
    BY <1>3, <2>1, Zenon
  <2> QED
    BY <2>1, <2>2, SameSeq, Zenon
<1> QED
  BY <1>2, <1>4, Zenon

LEMMA BodyAnswers ==
  HttpInv /\ AnswersInv /\ parse_body /\ UNCHANGED requests => AnswersInv'
<1> SUFFICES ASSUME HttpInv, AnswersInv, parse_body, UNCHANGED requests
             PROVE  AnswersInv'
  BY Zenon
<1> DEFINE n == Len(answers)
<1>0. /\ IsBuffer(input) /\ parser \in ParserType /\ wire \in Seq(Bytes)
      /\ UNCHANGED <<wire, answers, requests>>
      /\ pc = "parse" /\ parser.state = "BODY" /\ parser.content_length <= body_bytes
  BY Zenon DEF HttpInv, HttpTypeOK, ParserType, parse_body
<1>1. AtBody(n)
  BY <1>0, Zenon DEF AnswersInv, At
<1>2. n < Len(requests)
  BY <1>1, Zenon DEF AtBody
<1> PICK r, u : r = requests[n + 1] /\ u = Unanswered(n + 1)
  BY Zenon
<1>3. IsRequest(r) /\ u \in Seq(Bytes)
  BY <1>0, <1>2, NextRequest, Zenon
<1>4. /\ Acceptable(r) /\ parser.path = r.line /\ parser.content_length = Len(r.body)
      /\ Contents(input) \o wire = r.body \o u
  BY <1>1, Zenon DEF AtBody, Left
<1>5. PICK body \in Seq(Bytes) : body = r.body
  BY <1>3, Zenon DEF IsRequest
<1>6. PICK held \in Seq(Bytes) : held = Contents(input) /\ Len(held) = readable(input)
  BY <1>0, ContentsType, Zenon
<1>7. /\ readable(input) \in Nat /\ body_bytes \in Nat /\ parser.content_length \in Nat
      /\ ~(parser.content_length > body_bytes)
  <2>1. readable(input) \in Nat /\ body_bytes \in Nat /\ parser.content_length \in Nat
    BY <1>0, ContentsType, ParserAssumption, Zenon DEF ParserType
  <2> QED
    BY <1>0, <2>1
<1>8. CASE readable(input) < parser.content_length
  <2>1. Wait(parser.content_length > body_bytes)
    BY <1>8, Zenon DEF parse_body
  <2>2. Wait(FALSE)
    BY <1>7, <2>1, Zenon DEF Wait
  <2>3. Starved
    BY <1>0, <1>8, Zenon DEF Starved
  <2> QED
    BY <1>0, <2>2, <2>3, WaitAnswers, Zenon
<1>9. CASE ~(readable(input) < parser.content_length)
  <2>1. /\ parser' = [parser EXCEPT !.state = "DONE", !.body = Taken(parser.content_length)]
        /\ input' = consume(input, parser.content_length)
        /\ UNCHANGED pc
    BY <1>7, <1>9, Zenon DEF parse_body
  <2>2. Len(body) <= Len(held) /\ Len(body) \in 0..readable(input)
    <3>1. Len(body) = parser.content_length
      BY <1>4, <1>5, Zenon
    <3> QED
      BY <1>6, <1>7, <1>9, <3>1
  <2>3. /\ SubSeq(held, 1, Len(body)) = body
        /\ SubSeq(held, Len(body) + 1, Len(held)) \o wire = u
    BY <1>0, <1>3, <1>4, <1>5, <1>6, <2>2, CutConcat, Zenon
  <2>4. Left' = u
    <3>1. Contents(input') = SubSeq(held, Len(body) + 1, Len(held))
      BY <1>0, <1>4, <1>5, <1>6, <2>1, <2>2, ConsumeCorrect, Zenon
    <3> QED
      BY <1>0, <2>3, <3>1, Zenon DEF Left
  <2>5. parser'.state = "DONE" /\ parser'.path = r.line /\ parser'.body = r.body
    <3>1. Taken(parser.content_length) = r.body
      BY <1>4, <1>5, <1>6, <2>3, Zenon DEF Taken
    <3> QED
      BY <1>0, <1>4, <2>1, <3>1, Zenon DEF ParserType
  <2>6. r = requests'[Len(answers') + 1] /\ u = Unanswered(Len(answers) + 1)'
        /\ Len(answers') < Len(requests')
    BY <1>0, <1>2, Zenon DEF Unanswered
  <2>7. At(n)'
    BY <1>4, <2>4, <2>5, <2>6, Zenon DEF At, AtEnd
  <2> QED
    BY <1>0, <2>1, <2>7, ParseKeeps, Zenon
<1> QED
  BY <1>8, <1>9, Zenon

\* A prefix of a sequence.
LEMMA PrefixIs ==
  ASSUME NEW S, NEW s \in Seq(S), NEW t \in Seq(S), Len(t) <= Len(s),
         \A i \in 1..Len(t) : s[i] = t[i]
  PROVE  SubSeq(s, 1, Len(t)) = t
<1>1. Len(t) \in Nat /\ Len(s) \in Nat
  BY LenProperties
<1>2. /\ SubSeq(s, 1, Len(t)) \in Seq(S) /\ Len(SubSeq(s, 1, Len(t))) = Len(t)
      /\ \A i \in 1..Len(t) : SubSeq(s, 1, Len(t))[i] = s[i]
  BY <1>1, ElementOfSeq, SubSeqProperties
<1>3. \A i \in 1..Len(SubSeq(s, 1, Len(t))) : SubSeq(s, 1, Len(t))[i] = t[i]
  BY <1>2, Zenon
<1> QED
  BY <1>2, <1>3, SameSeq, Zenon

LEMMA OkAnswersType ==
  ASSUME requests \in Workloads, NEW n \in 0..Len(requests)
  PROVE  /\ OkAnswers(n) \in Seq(AllAnswers) /\ Len(OkAnswers(n)) = n
         /\ \A i \in 1..n :
              OkAnswers(n)[i] = <<"ok", requests[i].line, requests[i].body>>
         /\ n < Len(requests) =>
              OkAnswers(n + 1) = Append(OkAnswers(n), <<"ok", requests[n + 1].line,
                                                        requests[n + 1].body>>)
<1> DEFINE ok(i) == <<"ok", requests[i].line, requests[i].body>>
<1>1. Len(requests) \in Nat /\ DOMAIN requests = 1..Len(requests)
  BY RequestsType, Zenon
<1>2. ASSUME NEW m \in 0..Len(requests)
      PROVE  /\ OkAnswers(m) \in Seq(AllAnswers) /\ Len(OkAnswers(m)) = m
             /\ \A i \in 1..m : OkAnswers(m)[i] = ok(i)
  <2>1. m \in Nat /\ \A i \in 1..m : i \in DOMAIN requests
    BY <1>1
  <2>2. \A i \in 1..m : ok(i) \in AllAnswers
    BY <2>1, Zenon DEF AllAnswers
  <2> HIDE DEF ok
  <2>3. OkAnswers(m) = [i \in 1..m |-> ok(i)]
    BY Zenon DEF OkAnswers, ok
  <2>4. [i \in 1..m |-> ok(i)] \in [1..m -> AllAnswers]
    BY <2>2, Zenon
  <2>5. /\ [i \in 1..m |-> ok(i)] \in Seq(AllAnswers)
        /\ Len([i \in 1..m |-> ok(i)]) = m
    BY <2>1, <2>4, FunctionIsSeq, Zenon
  <2>6. \A i \in 1..m : [j \in 1..m |-> ok(j)][i] = ok(i)
    BY Zenon
  <2> QED
    BY <2>3, <2>5, <2>6, Zenon
<1>3. ASSUME n < Len(requests)
      PROVE  OkAnswers(n + 1) = Append(OkAnswers(n), ok(n + 1))
  <2>1. n \in Nat /\ n + 1 \in 0..Len(requests) /\ n + 1 \in 1..Len(requests)
    BY <1>1, <1>3
  <2>2. ok(n + 1) \in AllAnswers
    BY <1>1, <2>1, Zenon DEF AllAnswers
  <2> HIDE DEF ok
  <2>3. PICK s \in Seq(AllAnswers) : s = OkAnswers(n) /\ Len(s) = n
                                     /\ \A i \in 1..n : s[i] = ok(i)
    BY <1>2, Zenon
  <2>4. PICK t \in Seq(AllAnswers) : t = OkAnswers(n + 1) /\ Len(t) = n + 1
                                     /\ \A i \in 1..(n + 1) : t[i] = ok(i)
    BY <1>2, <2>1, Zenon
  <2>5. PICK e \in AllAnswers : e = ok(n + 1)
    BY <2>2, Zenon
  <2>6. /\ Append(s, e) \in Seq(AllAnswers) /\ Len(Append(s, e)) = Len(s) + 1
        /\ Append(s, e)[Len(s) + 1] = e
        /\ \A i \in 1..Len(s) : Append(s, e)[i] = s[i]
    BY AppendProperties
  <2>7. \A i \in 1..(n + 1) : i \in 1..n \/ i = n + 1
    BY <2>1
  <2>8. \A i \in 1..Len(t) : t[i] = Append(s, e)[i]
    <3> SUFFICES ASSUME NEW i \in 1..(n + 1)
                 PROVE  t[i] = Append(s, e)[i]
      BY <2>4, Zenon
    <3>1. CASE i \in 1..n
      <4>1. t[i] = ok(i) /\ s[i] = ok(i)
        BY <2>3, <2>4, <3>1, Zenon
      <4>2. Append(s, e)[i] = s[i]
        BY <2>3, <2>6, <3>1, Zenon
      <4> QED
        BY <4>1, <4>2, Zenon
    <3>2. CASE i = n + 1
      <4>1. t[i] = e
        BY <2>4, <2>5, <3>2, Zenon
      <4>2. Append(s, e)[i] = e
        BY <2>3, <2>6, <3>2, Zenon
      <4> QED
        BY <4>1, <4>2, Zenon
    <3> QED
      BY <2>7, <3>1, <3>2, Zenon
  <2>9. t = Append(s, e)
    BY <2>3, <2>4, <2>6, <2>8, SameSeq, Zenon
  <2> QED
    BY <2>3, <2>4, <2>5, <2>9, Zenon
<1> QED
  BY <1>2, <1>3, Zenon

\* The expected answers, seen from the first n requests, all acceptable.
LEMMA ExpectedAnswers ==
  ASSUME requests \in Workloads, NEW n \in 0..Len(requests),
         \A i \in 1..n : Acceptable(requests[i])
  PROVE  /\ Expected(requests) \in Seq(AllAnswers)
         /\ n <= Len(Expected(requests))
         /\ SubSeq(Expected(requests), 1, n) = OkAnswers(n)
         /\ n = Len(requests) => Expected(requests) = OkAnswers(n)
         /\ n < Len(requests) /\ ~Acceptable(requests[n + 1]) =>
              Expected(requests) = Append(OkAnswers(n), <<"bad">>)
<1> DEFINE k == Len(requests)
           refused == {i \in DOMAIN requests : ~Acceptable(requests[i])}
<1>1. k \in Nat /\ DOMAIN requests = 1..k
  BY RequestsType, Zenon
<1>2. n \in Nat /\ n <= k
  BY <1>1
<1>3. \A m : OkAnswers(m) = [i \in 1..m |-> <<"ok", requests[i].line, requests[i].body>>]
  BY Zenon DEF OkAnswers
<1>4. Expected(requests) = IF refused = {} THEN OkAnswers(k)
                           ELSE Append(OkAnswers(Min(refused) - 1), <<"bad">>)
  BY Zenon DEF Expected, OkAnswers
<1>5. PICK t \in Seq(AllAnswers) : t = OkAnswers(n) /\ Len(t) = n
        /\ \A i \in 1..n : t[i] = <<"ok", requests[i].line, requests[i].body>>
  BY OkAnswersType, Zenon
<1>6. CASE refused = {}
  <2>1. k \in 0..k /\ (\A i \in 1..n : i \in 1..k) /\ (n < k => n + 1 \in 1..k)
    BY <1>1, <1>2
  <2>2. PICK s \in Seq(AllAnswers) : s = OkAnswers(k) /\ Len(s) = k
          /\ \A i \in 1..k : s[i] = <<"ok", requests[i].line, requests[i].body>>
    BY <2>1, OkAnswersType, Zenon
  <2>3. \A i \in 1..Len(t) : s[i] = t[i]
    BY <1>5, <2>1, <2>2, Zenon
  <2>4. SubSeq(s, 1, Len(t)) = t
    BY <1>2, <1>5, <2>2, <2>3, PrefixIs, Zenon
  <2>5. n < k => Acceptable(requests[n + 1])
    BY <1>1, <1>6, <2>1, Zenon
  <2> QED
    BY <1>2, <1>4, <1>5, <1>6, <2>2, <2>4, <2>5, Zenon
<1>7. CASE refused # {}
  <2>1. refused \subseteq Nat
    <3>1. \A i \in 1..k : i \in Nat
      BY <1>1
    <3> QED
      BY <1>1, <3>1, Zenon
  <2>2. \E x \in refused : \A y \in refused : x <= y
    <3> HIDE DEF refused
    <3> QED
      BY <1>7, <2>1, LeastNatural, Zenon
  <2>3. Min(refused) \in refused /\ \A y \in refused : Min(refused) <= y
    <3> HIDE DEF refused
    <3> QED
      BY <2>2, Zenon DEF Min
  <2>4. PICK x \in 1..k : x = Min(refused) /\ ~Acceptable(requests[x])
                          /\ \A y \in refused : x <= y
    BY <1>1, <2>3, Zenon
  <2> HIDE DEF refused
  <2>5. x \notin 1..n
    BY <2>4, Zenon
  <2>6. x \in Nat /\ n < x /\ x - 1 \in 0..k /\ x - 1 \in Nat /\ n <= x - 1
    BY <1>1, <1>2, <2>4, <2>5
  <2>7. PICK s \in Seq(AllAnswers) : s = OkAnswers(x - 1) /\ Len(s) = x - 1
          /\ \A i \in 1..(x - 1) : s[i] = <<"ok", requests[i].line, requests[i].body>>
    BY <2>6, OkAnswersType, Zenon
  <2>8. PICK e \in AllAnswers : e = <<"bad">>
    BY Zenon DEF AllAnswers
  <2>9. /\ Append(s, e) \in Seq(AllAnswers) /\ Len(Append(s, e)) = Len(s) + 1
        /\ \A i \in 1..Len(s) : Append(s, e)[i] = s[i]
    BY AppendProperties
  <2>10. PICK a \in Seq(AllAnswers) : a = Append(s, e) /\ Len(a) = Len(s) + 1
           /\ \A i \in 1..Len(s) : a[i] = s[i]
    BY <2>9, Zenon
  <2>11. Expected(requests) = a
    BY <1>4, <1>7, <2>4, <2>7, <2>8, <2>10, Zenon
  <2>12. n <= Len(a) /\ (\A i \in 1..n : i \in 1..(x - 1)) /\ n # k
    <3>1. Len(a) = (x - 1) + 1
      BY <2>7, <2>10, Zenon
    <3>2. x <= k
      BY <1>1, <2>4
    <3>3. n <= (x - 1) + 1 /\ n # k
      <4> HIDE DEF k
      <4> QED
        BY <1>1, <1>2, <2>6, <3>2
    <3>4. \A i \in 1..n : i \in 1..(x - 1)
      BY <1>2, <2>6
    <3> QED
      BY <3>1, <3>3, <3>4, Zenon
  <2>13. \A i \in 1..Len(t) : a[i] = t[i]
    BY <1>5, <2>7, <2>10, <2>12, Zenon
  <2>14. SubSeq(a, 1, Len(t)) = t
    BY <1>5, <2>12, <2>13, PrefixIs, Zenon
  <2>15. ASSUME n < k, ~Acceptable(requests[n + 1])
         PROVE  a = Append(OkAnswers(n), <<"bad">>)
    <3>1. n + 1 \in 1..k
      BY <1>1, <1>2, <2>15
    <3>2. n + 1 \in refused
      BY <1>1, <2>15, <3>1, Zenon DEF refused
    <3>3. x <= n + 1
      BY <2>4, <3>2, Zenon
    <3>4. x - 1 = n
      BY <1>2, <2>6, <3>3
    <3> QED
      BY <2>7, <2>8, <2>10, <3>4, Zenon
  <2> QED
    BY <1>5, <2>11, <2>12, <2>14, <2>15, Zenon
<1> QED
  BY <1>6, <1>7, Zenon

\* Answers to the first requests, all acceptable, are as expected.
LEMMA AnsweredMatch ==
  ASSUME requests \in Workloads, NEW n, Answered(n)
  PROVE  AnswersMatch
<1>1. n \in 0..Len(requests) /\ answers = OkAnswers(n)
      /\ \A i \in 1..n : Acceptable(requests[i])
  BY Zenon DEF Answered
<1>2. PICK a \in Seq(AllAnswers) : a = Expected(requests) /\ n <= Len(a)
                                   /\ SubSeq(a, 1, n) = OkAnswers(n)
  BY <1>1, ExpectedAnswers, Zenon
<1>3. n \in 0..Len(a)
  <2>1. Len(requests) \in Nat /\ Len(a) \in Nat
    BY RequestsType, LenProperties, Zenon
  <2> QED
    BY <1>1, <1>2, <2>1
<1> QED
  BY <1>1, <1>2, <1>3, Zenon DEF AnswersMatch

\* So is the refusal of the next request, where it may be refused.
LEMMA RefusedMatch ==
  ASSUME requests \in Workloads, NEW n, Answered(n), Refusable(n),
         UNCHANGED <<requests, input>>, answers' = Append(answers, <<"bad">>)
  PROVE  OnlyCutRefused'
<1>1. n \in 0..Len(requests) /\ answers = OkAnswers(n) /\ n < Len(requests)
      /\ \A i \in 1..n : Acceptable(requests[i])
  BY Zenon DEF Answered, Refusable
<1>2. PICK a \in Seq(AllAnswers) :
        /\ a = Expected(requests) /\ n <= Len(a)
        /\ SubSeq(a, 1, n) = OkAnswers(n)
        /\ ~Acceptable(requests[n + 1]) => a = Append(OkAnswers(n), <<"bad">>)
  BY <1>1, ExpectedAnswers, Zenon
<1>3. n \in 0..Len(a) /\ Len(a) \in Nat /\ n \in Nat
  <2>1. Len(requests) \in Nat /\ Len(a) \in Nat
    BY RequestsType, LenProperties, Zenon
  <2> QED
    BY <1>1, <1>2, <2>1
<1>4. a = Expected(requests')
  BY <1>2, Zenon
<1>5. CASE ~Acceptable(requests[n + 1])
  <2>1. answers' = a
    BY <1>1, <1>2, <1>5, Zenon
  <2>2. SubSeq(a, 1, Len(a)) = a
    BY SubSeqFull, Zenon
  <2>3. Len(a) \in 0..Len(a)
    BY <1>3
  <2>4. \E m \in 0..Len(a) : answers' = SubSeq(a, 1, m)
    BY <2>1, <2>2, <2>3, Zenon
  <2> QED
    BY <1>4, <2>4, Zenon DEF OnlyCutRefused
<1>6. CASE CutAtLimit(requests[n + 1])
  <2>1. n < Len(requests') /\ CutAtLimit(requests[n + 1])'
        /\ answers' = Append(SubSeq(a, 1, n), <<"bad">>)
    BY <1>1, <1>2, <1>6, Zenon DEF CutAtLimit
  <2> QED
    BY <1>3, <1>4, <2>1, Zenon DEF OnlyCutRefused, CutAtLimit
<1> QED
  BY <1>5, <1>6, Zenon DEF Refusable

LEMMA RespondAnswers ==
  HttpInv /\ AnswersInv /\ Respond /\ UNCHANGED requests => AnswersInv'
<1> SUFFICES ASSUME HttpInv, AnswersInv, Respond, UNCHANGED requests
             PROVE  AnswersInv'
  BY Zenon
<1> PICK n : n = Len(answers)
  BY Zenon
<1>1. /\ pc = "parse" /\ parser.state = "DONE" /\ UNCHANGED <<input, wire, requests>>
      /\ requests \in Workloads /\ Answered(n) /\ AtEnd(n)
  BY Zenon DEF Respond, AnswersInv, At
<1>2. /\ n \in 0..Len(requests) /\ answers = OkAnswers(n)
      /\ \A i \in 1..n : Acceptable(requests[i])
      /\ n < Len(requests) /\ Acceptable(requests[n + 1])
      /\ parser.path = requests[n + 1].line /\ parser.body = requests[n + 1].body
      /\ Left = Unanswered(n + 1)
  BY <1>1, Zenon DEF Answered, AtEnd
<1>3. CASE pc' = "gone" /\ UNCHANGED answers
  <2>1. AnswersMatch
    BY <1>1, AnsweredMatch, Zenon
  <2>2. OnlyCutRefused'
    BY <1>1, <1>3, <2>1, Zenon DEF AnswersMatch, OnlyCutRefused
  <2> QED
    BY <1>1, <1>3, <2>2, Zenon DEF AnswersInv
<1>4. CASE /\ answers' = Append(answers, <<"ok", parser.path, parser.body>>)
           /\ parser' = Fresh /\ UNCHANGED pc
  <2>1. Len(requests) \in Nat
    BY <1>1, RequestsType, Zenon
  <2>2. n + 1 \in 0..Len(requests) /\ \A i \in 1..(n + 1) : i \in 1..n \/ i = n + 1
    BY <1>2, <2>1
  <2>3. answers' = OkAnswers(n + 1) /\ Len(answers') = n + 1
    <3>1. answers' = OkAnswers(n + 1)
      BY <1>1, <1>2, <1>4, OkAnswersType, Zenon
    <3> QED
      BY <1>1, <2>2, <3>1, OkAnswersType, Zenon
  <2>4. \A i \in 1..(n + 1) : Acceptable(requests[i])
    BY <1>2, <2>2, Zenon
  <2>5. Answered(n + 1)'
    <3>1. n + 1 \in 0..Len(requests') /\ answers' = OkAnswers(n + 1)'
          /\ \A i \in 1..(n + 1) : Acceptable(requests'[i])
      BY <1>1, <2>2, <2>3, <2>4, Zenon DEF OkAnswers
    <3> QED
      BY <3>1, Zenon DEF Answered
  <2>6. AtLine(n + 1)'
    <3>1. Left' = Unanswered(n + 1)'
      BY <1>1, <1>2, Zenon DEF Left, Unanswered
    <3> QED
      BY <1>4, <3>1, Zenon DEF AtLine
  <2>7. parser'.state = "REQUEST_LINE"
    BY <1>4, Zenon DEF Fresh
  <2>8. At(n + 1)'
    BY <2>6, <2>7, Zenon DEF At
  <2>9. n + 1 = Len(answers') /\ pc' = "parse" /\ requests' \in Workloads
    BY <1>1, <1>4, <2>3, Zenon
  <2> QED
    BY <2>5, <2>8, <2>9, Zenon DEF AnswersInv
<1> QED
  BY <1>3, <1>4, Zenon DEF Respond

LEMMA BadRequestAnswers ==
  HttpInv /\ AnswersInv /\ send_bad_request /\ UNCHANGED requests => AnswersInv'
<1> SUFFICES ASSUME HttpInv, AnswersInv, send_bad_request, UNCHANGED requests
             PROVE  AnswersInv'
  BY Zenon
<1>1. /\ pc = "bad" /\ pc' = "gone" /\ requests \in Workloads
      /\ Answered(Len(answers)) /\ Refusable(Len(answers))
      /\ answers' \in {answers, Append(answers, <<"bad">>)} /\ UNCHANGED input
  BY Zenon DEF send_bad_request, AnswersInv
<1>2. OnlyCutRefused'
  <2>1. CASE UNCHANGED answers
    <3>1. AnswersMatch
      BY <1>1, AnsweredMatch, Zenon
    <3> QED
      BY <2>1, <3>1, Zenon DEF AnswersMatch, OnlyCutRefused
  <2>2. CASE answers' = Append(answers, <<"bad">>)
    BY <1>1, <2>2, RefusedMatch, Zenon
  <2> QED
    BY <1>1, <2>1, <2>2, Zenon
<1> QED
  BY <1>1, <1>2, Zenon DEF AnswersInv

\* A read moves bytes from the wire to the buffer; one that fails ends the
\* connection.
LEMMA ReadAnswers ==
  ASSUME HttpInv, AnswersInv, UNCHANGED requests, UNCHANGED <<parser, answers>>,
         \/ \E n \in 1..MaxRead : Read(n)
         \/ ReadFails
  PROVE  AnswersInv'
<1>1. pc = "read" /\ requests \in Workloads /\ Answered(Len(answers)) /\ At(Len(answers))
  BY Zenon DEF Read, ReadFails, AnswersInv
<1>2. CASE ReadFails
  <2>1. AnswersMatch
    BY <1>1, AnsweredMatch, Zenon
  <2>2. OnlyCutRefused'
    BY <2>1, Zenon DEF AnswersMatch, OnlyCutRefused
  <2>3. pc' = "gone"
    BY <1>2, Zenon DEF ReadFails
  <2> QED
    BY <1>1, <2>2, <2>3, Zenon DEF AnswersInv
<1>3. ASSUME NEW n \in 1..MaxRead, Read(n)
      PROVE  AnswersInv'
  <2>1. Left' = Left /\ pc' = "parse"
    BY <1>3, ReadMoves, Zenon DEF HttpInv, Left, Read
  <2>2. At(Len(answers))'
    BY <1>1, <2>1, AtKept, Zenon
  <2>3. Answered(Len(answers))'
    BY <1>1, Zenon DEF Answered, OkAnswers
  <2> QED
    BY <1>1, <2>1, <2>2, <2>3, Zenon DEF AnswersInv
<1> QED
  BY <1>2, <1>3, Zenon

LEMMA AnswersInitial == ServeInit => AnswersInv
<1> SUFFICES ASSUME ServeInit
             PROVE  AnswersInv
  BY Zenon
<1>1. /\ requests \in Workloads /\ input = NewBuffer(Initial) /\ parser = Fresh
      /\ pc = "parse" /\ wire = Encode(requests) /\ answers = <<>>
  BY Zenon DEF ServeInit, Start
<1>2. Len(requests) \in Nat /\ Initial \in Nat
  BY <1>1, RequestsType, ParserAssumption, Zenon
<1>3. 0 \in 0..Len(requests) /\ Len(<<>>) = 0 /\ \A i \in 1..0 : FALSE
  BY <1>2
<1>4. Answered(0)
  <2>1. OkAnswers(0) \in Seq(AllAnswers) /\ Len(OkAnswers(0)) = 0
    BY <1>1, <1>3, OkAnswersType, Zenon
  <2>2. OkAnswers(0) = <<>>
    BY <2>1, EmptySeq, Zenon
  <2> QED
    BY <1>1, <1>3, <2>2, Zenon DEF Answered
<1>5. Left = Unanswered(0)
  <2>1. Encode(requests) = Unanswered(0) /\ Unanswered(0) \in Seq(Bytes)
    BY <1>1, <1>3, UnansweredStep, Zenon DEF Encode, Unanswered
  <2>2. Contents(input) = <<>>
    BY <1>1, <1>2, NewBufferCorrect, Zenon
  <2> QED
    BY <1>1, <2>1, <2>2, ConcatEmptySeq, Zenon DEF Left
<1>6. At(0)
  BY <1>1, <1>5, Zenon DEF At, AtLine, Fresh
<1> QED
  BY <1>1, <1>3, <1>4, <1>6, Zenon DEF AnswersInv

LEMMA StutterAnswers ==
  ASSUME AnswersInv, UNCHANGED <<input, parser, pc, wire, answers, requests>>
  PROVE  AnswersInv'
<1>1. At(Len(answers)) => At(Len(answers))'
  <2>1. Left' = Left
    BY Zenon DEF Left
  <2> QED
    BY <2>1, AtKept, Zenon
<1>2. Answered(Len(answers)) => Answered(Len(answers))'
  BY Zenon DEF Answered, OkAnswers
<1>3. Starved => Starved'
  BY Zenon DEF Starved
<1>4. Refusable(Len(answers)) => Refusable(Len(answers))'
  BY Zenon DEF Refusable, CutAtLimit
<1>5. OnlyCutRefused => OnlyCutRefused'
  BY Zenon DEF OnlyCutRefused, CutAtLimit
<1> QED
  BY <1>1, <1>2, <1>3, <1>4, <1>5, Zenon DEF AnswersInv

LEMMA AnswersInductive ==
  HttpInv /\ AnswersInv /\ [ServeNext]_serveVars => (HttpInv /\ AnswersInv)'
<1> SUFFICES ASSUME HttpInv, AnswersInv, [ServeNext]_serveVars
             PROVE  HttpInv' /\ AnswersInv'
  BY Zenon
<1>1. [Next]_vars /\ UNCHANGED requests
  BY Zenon DEF ServeNext, Next, serveVars
<1>2. HttpInv'
  BY <1>1, HttpInductive, Zenon
<1>3. CASE UNCHANGED vars
  BY <1>1, <1>2, <1>3, StutterAnswers, Zenon DEF vars
<1>4. CASE parse_request_line
  BY <1>1, <1>2, <1>4, RequestLineAnswers, Zenon
<1>5. CASE parse_headers
  BY <1>1, <1>2, <1>5, HeadersAnswers, Zenon
<1>6. CASE parse_body
  BY <1>1, <1>2, <1>6, BodyAnswers, Zenon
<1>7. CASE Respond
  BY <1>1, <1>2, <1>7, RespondAnswers, Zenon
<1>8. CASE send_bad_request
  BY <1>1, <1>2, <1>8, BadRequestAnswers, Zenon
<1>9. CASE (\E n \in 1..MaxRead : Read(n)) \/ ReadFails
  <2>1. UNCHANGED <<parser, answers>>
    BY <1>9, Zenon DEF Read, ReadFails
  <2> QED
    BY <1>1, <1>2, <1>9, <2>1, ReadAnswers, Zenon
<1> QED
  BY <1>1, <1>2, <1>3, <1>4, <1>5, <1>6, <1>7, <1>8, <1>9, Zenon DEF Next

LEMMA AnswersInvMatches == AnswersInv => OnlyCutRefused
<1> SUFFICES ASSUME AnswersInv, pc # "gone"
             PROVE  OnlyCutRefused
  BY Zenon DEF AnswersInv
<1>1. requests \in Workloads /\ Answered(Len(answers))
  BY Zenon DEF AnswersInv
<1>2. AnswersMatch
  BY <1>1, AnsweredMatch, Zenon
<1> QED
  BY <1>2, Zenon DEF AnswersMatch, OnlyCutRefused

\* With nothing on the wire, the line that is next is in the buffer.
LEMMA LineThere ==
  ASSUME IsBuffer(input), wire = <<>>, NEW r, IsRequest(r),
         NEW m \in 0..(Len(r.headers) + 1), NEW u \in Seq(Bytes),
         Left = After(r, m) \o u
  PROVE  find_crlf(input) # {}
<1> DEFINE line == LineAfter(r, m)
           rest == After(r, m + 1) \o u
<1>1. IsLine(line) /\ rest \in Seq(Bytes) /\ Left = (line \o <<CR, LF>>) \o rest
  BY NextLine, Zenon
<1>2. wire \in Seq(Bytes)
  BY EmptySeq, Zenon
<1> HIDE DEF line, rest
<1>3. /\ find_crlf(input) = {} => readable(input) < Len(line) + 2
      /\ Len(line) + 2 <= Len(Contents(input) \o wire)
  BY <1>1, <1>2, FirstLine, Zenon DEF Left
<1>4. Len(Contents(input) \o wire) = readable(input) /\ readable(input) \in Nat
  BY ContentsType, ConcatEmptySeq, Zenon
<1>5. Len(line) \in Nat
  BY <1>1, LenProperties, Zenon DEF IsLine
<1>6. ~(readable(input) < Len(line) + 2)
  <2>1. Len(line) + 2 <= readable(input)
    BY <1>3, <1>4, Zenon
  <2> QED
    BY <1>4, <1>5, <2>1
<1> QED
  BY <1>3, <1>6, Zenon

LEMMA AnswersInvNoneForgotten == HttpInv /\ AnswersInv => NoneForgotten
<1> SUFFICES ASSUME HttpInv, AnswersInv, pc = "read", wire = <<>>
             PROVE  answers = Expected(requests)
  BY Zenon DEF NoneForgotten
<1> DEFINE n == Len(answers)
<1>1. /\ IsBuffer(input) /\ parser \in ParserType
      /\ requests \in Workloads /\ Answered(n) /\ At(n) /\ Starved
  BY Zenon DEF HttpInv, HttpTypeOK, ParserType, AnswersInv
<1> PICK r, u : r = requests[n + 1] /\ u = Unanswered(n + 1)
  BY Zenon
<1>2. ASSUME n < Len(requests)
      PROVE  IsRequest(r) /\ Len(r.headers) \in Nat /\ u \in Seq(Bytes)
  BY <1>2, NextRequest, Zenon
<1>3. ~(parser.state = "HEADERS")
  <2> SUFFICES ASSUME parser.state = "HEADERS"
               PROVE  FALSE
    BY Zenon
  <2>1. PICK m \in 0..Len(r.headers) : Left = After(r, m + 1) \o u
    BY <1>1, Zenon DEF At, AtHeader
  <2>2. IsRequest(r) /\ Len(r.headers) \in Nat /\ u \in Seq(Bytes)
    BY <1>1, <1>2, Zenon DEF At, AtHeader
  <2>3. m + 1 \in 0..(Len(r.headers) + 1)
    BY <2>2
  <2> QED
    BY <1>1, <2>1, <2>2, <2>3, LineThere, Zenon DEF Starved
<1>4. ~(parser.state = "BODY")
  <2> SUFFICES ASSUME parser.state = "BODY"
               PROVE  FALSE
    BY Zenon
  <2>1. IsRequest(r) /\ u \in Seq(Bytes)
    BY <1>1, <1>2, Zenon DEF At, AtBody
  <2>2. PICK body \in Seq(Bytes) : body = r.body
    BY <2>1, Zenon DEF IsRequest
  <2>3. Left = body \o u /\ parser.content_length = Len(body)
    BY <1>1, <2>2, Zenon DEF At, AtBody
  <2>4. Len(Left) = readable(input) /\ readable(input) \in Nat
    BY <1>1, ContentsType, ConcatEmptySeq, Zenon DEF Left
  <2>5. Len(body \o u) = Len(body) + Len(u) /\ Len(body) \in Nat /\ Len(u) \in Nat
    BY <2>1, ConcatProperties, LenProperties
  <2>6. readable(input) = Len(body) + Len(u) /\ readable(input) < Len(body)
    BY <1>1, <2>3, <2>4, <2>5, Zenon DEF Starved
  <2> QED
    BY <2>5, <2>6
<1>5. parser.state = "REQUEST_LINE"
  BY <1>1, <1>3, <1>4, Zenon DEF ParserType, Starved
<1>6. n \in 0..Len(requests) /\ Len(requests) \in Nat
  BY <1>1, RequestsType, Zenon DEF Answered
<1>7. ~(n < Len(requests))
  <2> SUFFICES ASSUME n < Len(requests)
               PROVE  FALSE
    BY Zenon
  <2>1. Left = After(r, 0) \o u
    BY <1>1, <1>5, <1>6, UnansweredStep, Zenon DEF At, AtLine
  <2>2. 0 \in 0..(Len(r.headers) + 1)
    BY <1>2
  <2> QED
    BY <1>1, <1>2, <1>5, <2>1, <2>2, LineThere, Zenon DEF Starved
<1>8. n = Len(requests)
  BY <1>6, <1>7
<1> QED
  BY <1>1, <1>6, <1>8, ExpectedAnswers, Zenon DEF Answered

\* The parser cannot be confused by how TCP cuts the bytes: whatever requests
\* the client frames, and whatever the limits, the sizes of the reads and the
\* buffer, the answers serve_http() writes are those the requests deserve, in
\* their order, up to the first that is refused.  The one exception is named:
\* a request line of exactly request_line_bytes of which the CR, and not yet
\* the LF, has come.
THEOREM AnswersCorrect == ServeSpec => []OnlyCutRefused
<1> DEFINE Inv == HttpInv /\ AnswersInv
<1>1. ServeInit => Inv
  BY ServeInitial, AnswersInitial, Zenon
<1>2. Inv /\ [ServeNext]_serveVars => Inv'
  BY AnswersInductive, Zenon
<1>3. Inv => OnlyCutRefused
  BY AnswersInvMatches, Zenon
<1> QED
  BY <1>1, <1>2, <1>3, PTL DEF ServeSpec

\* Without a request line of exactly that length there is no exception: every
\* answer is the one deserved, at the other limits too.
THEOREM AnswersExact ==
  ASSUME \A rs \in Workloads : \A i \in DOMAIN rs : Len(rs[i].line) # request_line_bytes
  PROVE  ServeSpec => []AnswersMatch
<1> DEFINE Inv == HttpInv /\ AnswersInv
<1>1. ServeInit => Inv
  BY ServeInitial, AnswersInitial, Zenon
<1>2. Inv /\ [ServeNext]_serveVars => Inv'
  BY AnswersInductive, Zenon
<1>3. Inv => AnswersMatch
  <2> SUFFICES ASSUME AnswersInv PROVE AnswersMatch
    BY Zenon
  <2>1. requests \in Workloads
    BY Zenon DEF AnswersInv
  <2>2. PICK a \in Seq(AllAnswers) : a = Expected(requests)
    <3>1. Len(requests) \in Nat
      BY <2>1, RequestsType, Zenon
    <3>2. 0 \in 0..Len(requests) /\ \A i \in 1..0 : FALSE
      BY <3>1
    <3> QED
      BY <2>1, <3>2, ExpectedAnswers, Zenon
  <2>3. ASSUME NEW n \in 0..Len(a), n < Len(requests)
        PROVE  ~CutAtLimit(requests[n + 1])
    <3>1. Len(requests) \in Nat /\ Len(a) \in Nat /\ DOMAIN requests = 1..Len(requests)
      BY <2>1, RequestsType, LenProperties, Zenon
    <3>2. n + 1 \in DOMAIN requests
      BY <2>3, <3>1
    <3> QED
      BY <2>1, <3>2, Zenon DEF CutAtLimit
  <2>4. OnlyCutRefused
    BY AnswersInvMatches, Zenon
  <2> QED
    BY <2>2, <2>3, <2>4, Zenon DEF OnlyCutRefused, AnswersMatch
<1> QED
  BY <1>1, <1>2, <1>3, PTL DEF ServeSpec

\* serve_http() waits for bytes only when it must: with everything the client
\* sent in the buffer and read_some() pending, every request was answered.
THEOREM NoRequestForgotten == ServeSpec => []NoneForgotten
<1> DEFINE Inv == HttpInv /\ AnswersInv
<1>1. ServeInit => Inv
  BY ServeInitial, AnswersInitial, Zenon
<1>2. Inv /\ [ServeNext]_serveVars => Inv'
  BY AnswersInductive, Zenon
<1>3. Inv => NoneForgotten
  BY AnswersInvNoneForgotten, Zenon
<1> QED
  BY <1>1, <1>2, <1>3, PTL DEF ServeSpec

=============================================================================
