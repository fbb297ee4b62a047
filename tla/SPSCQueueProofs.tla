-------------------------- MODULE SPSCQueueProofs --------------------------
(***************************************************************************)
(* SPSCQueue for any values and any capacity, with loads of the other side's *)
(* index that may be old: the ring implements a bounded FIFO.                *)
(***************************************************************************)
EXTENDS SPSCQueue, SequenceTheorems, TLAPS

----------------------------------------------------------------------------
(* Indices.  After these lemmas the mask is plain case analysis.           *)

\* Less than two rounds leave one subtraction.
LEMMA Wrap ==
  ASSUME NEW x \in Nat, x < Capacity + Capacity
  PROVE  x % Capacity = IF x < Capacity THEN x ELSE x - Capacity
<1> DEFINE a == x \div Capacity
           r == x % Capacity
<1>0. Capacity \in Nat /\ Capacity > 0
  BY SPSCQueueAssumption
<1>1. a \in Nat /\ r \in Nat /\ r < Capacity /\ x = Capacity * a + r
  BY <1>0
<1> HIDE DEF a, r
<1>2. CASE a = 0
  <2>1. x = r
    BY <1>0, <1>1, <1>2
  <2> QED
    BY <1>1, <2>1, Zenon DEF r
<1>3. CASE a = 1
  <2>1. x = Capacity + r
    BY <1>0, <1>1, <1>3
  <2> QED
    BY <1>0, <1>1, <2>1 DEF r
<1>4. CASE a > 1
  <2>1. PICK k \in Nat : a = 2 + k
    <3>1. a - 2 \in Nat /\ a = 2 + (a - 2)
      BY <1>1, <1>4
    <3> QED
      BY <3>1, Zenon
  <2>2. Capacity * a = Capacity + Capacity + Capacity * k /\ Capacity * k >= 0
    BY <1>0, <2>1
  <2> QED
    BY <1>0, <1>1, <2>2
<1> QED
  BY <1>1, <1>2, <1>3, <1>4

LEMMA NextIs ==
  ASSUME NEW i \in Slots
  PROVE  NextIndex(i) = IF i + 1 = Capacity THEN 0 ELSE i + 1
<1>1. i + 1 \in Nat /\ i + 1 < Capacity + Capacity /\ i + 1 <= Capacity
  BY SPSCQueueAssumption DEF Slots
<1> QED
  BY <1>1, Wrap, SPSCQueueAssumption DEF NextIndex

LEMMA DistanceIs ==
  ASSUME NEW h \in Slots, NEW t \in Slots
  PROVE  Distance(h, t) = IF h <= t THEN t - h ELSE t - h + Capacity
<1>1. t - h + Capacity \in Nat /\ t - h + Capacity < Capacity + Capacity
  BY SPSCQueueAssumption DEF Slots
<1> QED
  BY <1>1, Wrap, SPSCQueueAssumption DEF Distance, Slots

LEMMA IndexTypes ==
  ASSUME NEW h \in Slots, NEW t \in Slots
  PROVE  NextIndex(h) \in Slots /\ Distance(h, t) \in Slots
  BY NextIs, DistanceIs, SPSCQueueAssumption, SMTT(30) DEF Slots

\* The cell of the i-th element.
LEMMA CellIs ==
  ASSUME NEW h \in Slots, NEW i \in 1..Capacity
  PROVE  (h + i - 1) % Capacity =
           IF h + i - 1 < Capacity THEN h + i - 1 ELSE h + i - 1 - Capacity
<1>1. h \in Nat /\ i \in Nat /\ Capacity \in Nat /\ h < Capacity
  BY SPSCQueueAssumption DEF Slots
<1>2. PICK x \in Nat : x = h + i - 1 /\ x < Capacity + Capacity
  BY <1>1
<1>3. x % Capacity = IF x < Capacity THEN x ELSE x - Capacity
  BY <1>2, Wrap, Zenon
<1> QED
  BY <1>1, <1>2, <1>3

\* An index on the way from a to c splits the way.
LEMMA Way ==
  ASSUME NEW a \in Slots, NEW b \in Slots, NEW c \in Slots,
         Distance(a, b) <= Distance(a, c)
  PROVE  Distance(a, c) = Distance(a, b) + Distance(b, c)
  BY DistanceIs, SPSCQueueAssumption DEF Slots

LEMMA WayBack ==
  ASSUME NEW a \in Slots, NEW b \in Slots, NEW c \in Slots,
         Distance(a, b) + Distance(b, c) < Capacity
  PROVE  Distance(a, c) = Distance(a, b) + Distance(b, c)
  BY DistanceIs, SPSCQueueAssumption DEF Slots

\* One step forward at either end.
LEMMA StepEnd ==
  ASSUME NEW a \in Slots, NEW b \in Slots, NextIndex(b) # a
  PROVE  Distance(a, NextIndex(b)) = Distance(a, b) + 1
<1> DEFINE n == NextIndex(b)
<1>1. n \in Slots /\ n = (IF b + 1 = Capacity THEN 0 ELSE b + 1) /\ n # a
  BY NextIs, IndexTypes, Zenon
<1> HIDE DEF n
<1>2. Distance(a, n) = Distance(a, b) + 1
  BY <1>1, DistanceIs, SPSCQueueAssumption DEF Slots
<1> QED
  BY <1>2, Zenon DEF n

LEMMA StepStart ==
  ASSUME NEW a \in Slots, NEW b \in Slots, a # b
  PROVE  Distance(NextIndex(a), b) = Distance(a, b) - 1
<1> DEFINE n == NextIndex(a)
<1>1. n \in Slots /\ n = (IF a + 1 = Capacity THEN 0 ELSE a + 1)
  BY NextIs, IndexTypes, Zenon
<1> HIDE DEF n
<1>2. Distance(n, b) = Distance(a, b) - 1
  BY <1>1, DistanceIs, SPSCQueueAssumption DEF Slots
<1> QED
  BY <1>2, Zenon DEF n

LEMMA Apart ==
  ASSUME NEW a \in Slots, NEW b \in Slots
  PROVE  /\ Distance(a, b) = 0 <=> a = b
         /\ NextIndex(b) = a <=> Distance(a, b) = Capacity - 1
  BY NextIs, DistanceIs, SPSCQueueAssumption, SMTT(30) DEF Slots

----------------------------------------------------------------------------
(* The inductive invariant.  Going round the ring one meets head_seen,      *)
(* head, tail_seen and tail in this order: an old load is on the safe side. *)

InOrder ==
  /\ Distance(head_seen, head) <= Distance(head_seen, tail)
  /\ Distance(head, tail_seen) <= Distance(head, tail)

\* What each side knows after its test, from the index it saw.
Tested ==
  /\ push_at \in {"write", "publish"} => NextIndex(tail) # head_seen
  /\ pop_at \in {"read", "publish"} => head # tail_seen
  /\ push_at = "publish" => buffer[tail] = arg

Promised ==
  /\ told["producer"] # Unknown => Distance(head_seen, tail) <= told["producer"]
  /\ told["consumer"] # Unknown => told["consumer"] <= Distance(head, tail_seen)

SPSCInv == SPSCTypeOK /\ InOrder /\ Tested /\ Promised

LEMMA Forward ==
  ASSUME SPSCTypeOK, InOrder
  PROVE  /\ \A h \in Loadable(head_seen, head) :
              /\ h \in Slots
              /\ Distance(h, head) <= Distance(h, tail)
              /\ Distance(h, tail) <= Distance(head_seen, tail)
         /\ \A t \in Loadable(tail_seen, tail) :
              /\ t \in Slots
              /\ Distance(head, t) <= Distance(head, tail)
              /\ Distance(head, tail_seen) <= Distance(head, t)
<1>0. /\ head \in Slots /\ tail \in Slots /\ head_seen \in Slots /\ tail_seen \in Slots
      /\ \A a, b \in Slots : Distance(a, b) \in Nat /\ Distance(a, b) < Capacity
      /\ Capacity \in Nat
  <2>1. \A a, b \in Slots : Distance(a, b) \in Slots
    BY IndexTypes, Zenon
  <2>2. \A n \in Slots : n \in Nat /\ n < Capacity
    BY SPSCQueueAssumption DEF Slots
  <2> QED
    BY <2>1, <2>2, SPSCQueueAssumption, Zenon DEF SPSCTypeOK
<1>1. ASSUME NEW h \in Loadable(head_seen, head)
      PROVE  /\ h \in Slots
             /\ Distance(h, head) <= Distance(h, tail)
             /\ Distance(h, tail) <= Distance(head_seen, tail)
  <2>1. h \in Slots /\ Distance(head_seen, h) <= Distance(head_seen, head)
    BY Zenon DEF Loadable
  <2>2. Distance(head_seen, head) = Distance(head_seen, h) + Distance(h, head)
    BY <1>0, <2>1, Way
  <2>3. Distance(head_seen, tail) = Distance(head_seen, head) + Distance(head, tail)
    BY <1>0, Way DEF InOrder
  <2>4. Distance(head_seen, tail) = Distance(head_seen, h) + Distance(h, tail)
    <3>1. Distance(head_seen, h) <= Distance(head_seen, tail)
      BY <1>0, <2>1 DEF InOrder
    <3> QED
      BY <1>0, <2>1, <3>1, Way
  <2> QED
    BY <1>0, <2>1, <2>2, <2>3, <2>4
<1>2. ASSUME NEW t \in Loadable(tail_seen, tail)
      PROVE  /\ t \in Slots
             /\ Distance(head, t) <= Distance(head, tail)
             /\ Distance(head, tail_seen) <= Distance(head, t)
  <2>1. t \in Slots /\ Distance(tail_seen, t) <= Distance(tail_seen, tail)
    BY Zenon DEF Loadable
  <2>2. Distance(head, tail) = Distance(head, tail_seen) + Distance(tail_seen, tail)
    BY <1>0, Way DEF InOrder
  <2>3. Distance(head, t) = Distance(head, tail_seen) + Distance(tail_seen, t)
    <3>1. Distance(head, tail_seen) + Distance(tail_seen, t) < Capacity
      BY <1>0, <2>1, <2>2
    <3> QED
      BY <1>0, <2>1, <3>1, WayBack
  <2> QED
    BY <1>0, <2>1, <2>2, <2>3
<1> QED
  BY <1>1, <1>2, Zenon

LEMMA SPSCInvInit == SPSCInit => SPSCInv
<1> SUFFICES ASSUME SPSCInit PROVE SPSCInv
  BY Zenon
<1>1. 0 \in Slots
  BY SPSCQueueAssumption DEF Slots
<1>2. SPSCTypeOK
  BY <1>1, Zenon DEF SPSCInit, SPSCTypeOK
<1>3. Distance(0, 0) = 0
  BY <1>1, Apart, Zenon
<1>4. InOrder
  BY <1>3 DEF SPSCInit, InOrder
<1>5. Tested /\ Promised
  BY Zenon DEF SPSCInit, Tested, Promised
<1> QED
  BY <1>2, <1>4, <1>5, Zenon DEF SPSCInv

\* push() and size() for the producer.
LEMMA ProducerKeeps ==
  ASSUME SPSCInv,
         \/ \E v \in Values : Push(v)
         \/ PushTest \/ PushWrite \/ PushPublish \/ PushReturn \/ SizeForProducer
  PROVE  SPSCInv'
<1> USE DEF SPSCInv
<1>0. /\ head \in Slots /\ tail \in Slots /\ head_seen \in Slots /\ tail_seen \in Slots
      /\ \A a, b \in Slots : Distance(a, b) \in Slots /\ NextIndex(a) \in Slots
      /\ \A n \in Slots : n \in Nat /\ n < Capacity
      /\ Capacity \in Nat
  <2>1. \A a, b \in Slots : Distance(a, b) \in Slots /\ NextIndex(a) \in Slots
    BY IndexTypes, Zenon
  <2>2. \A n \in Slots : n \in Nat /\ n < Capacity
    BY SPSCQueueAssumption DEF Slots
  <2> QED
    BY <2>1, <2>2, SPSCQueueAssumption, Zenon DEF SPSCTypeOK
<1>1. ASSUME NEW v \in Values, Push(v) PROVE SPSCInv'
  BY <1>1, Zenon DEF Push, cells, seen, SPSCTypeOK, InOrder, Tested, Promised
<1>2. CASE PushTest
  <2>1. PICK h \in Loadable(head_seen, head) :
          /\ head_seen' = h
          /\ push_at' = IF NextIndex(tail) = h THEN "failed" ELSE "write"
    BY <1>2, Zenon DEF PushTest
  <2>2. UNCHANGED <<head, tail, buffer, tail_seen, pop_at, arg, val, told>>
    BY <1>2, Zenon DEF PushTest, cells
  <2>3. /\ h \in Slots
        /\ Distance(h, head) <= Distance(h, tail)
        /\ Distance(h, tail) <= Distance(head_seen, tail)
    BY Forward, Zenon
  <2>4. SPSCTypeOK'
    BY <2>1, <2>2, <2>3, Zenon DEF SPSCTypeOK
  <2>5. InOrder'
    BY <2>1, <2>2, <2>3, Zenon DEF InOrder
  <2>6. Tested'
    BY <2>1, <2>2, Zenon DEF Tested
  <2>7. Promised'
    <3>1. told["producer"] # Unknown => told["producer"] \in Nat
      BY <1>0, Zenon DEF SPSCTypeOK
    <3> QED
      BY <1>0, <2>1, <2>2, <2>3, <3>1 DEF Promised
  <2> QED
    BY <2>4, <2>5, <2>6, <2>7, Zenon
<1>3. CASE PushWrite
  <2>1. /\ UNCHANGED <<head, tail, seen, pop_at, arg, val, told>>
        /\ buffer' = [buffer EXCEPT ![tail] = arg]
        /\ push_at = "write" /\ push_at' = "publish"
    BY <1>3, Zenon DEF PushWrite
  <2>2. SPSCTypeOK'
    BY <1>0, <2>1, Zenon DEF SPSCTypeOK, seen
  <2>3. InOrder' /\ Promised'
    BY <2>1, Zenon DEF InOrder, Promised, seen
  <2>4. Tested'
    BY <1>0, <2>1, Zenon DEF Tested, seen, SPSCTypeOK
  <2> QED
    BY <2>2, <2>3, <2>4, Zenon
<1>4. CASE PushPublish
  <2>1. /\ UNCHANGED <<head, buffer, head_seen, tail_seen, pop_at, arg, val>>
        /\ tail' = NextIndex(tail)
        /\ push_at = "publish" /\ push_at' = "ok"
        /\ told' = [told EXCEPT !["producer"] = Unknown]
    BY <1>4, Zenon DEF PushPublish, seen
  <2>2. SPSCTypeOK'
    BY <1>0, <2>1, Zenon DEF SPSCTypeOK
  <2>3. NextIndex(tail) # head_seen
    BY <2>1, Zenon DEF Tested
  <2>4. Distance(head_seen, tail') = Distance(head_seen, tail) + 1
    BY <1>0, <2>1, <2>3, StepEnd, Zenon
  <2>5. Distance(head_seen, tail) = Distance(head_seen, head) + Distance(head, tail)
    BY <1>0, Way DEF InOrder
  <2>6. NextIndex(tail) # head
    <3>1. Distance(head_seen, tail) # Capacity - 1
      BY <1>0, <2>3, Apart, Zenon
    <3>2. Distance(head, tail) # Capacity - 1
      BY <1>0, <2>5, <3>1
    <3> QED
      BY <1>0, <3>2, Apart, Zenon
  <2>7. Distance(head, tail') = Distance(head, tail) + 1
    BY <1>0, <2>1, <2>6, StepEnd, Zenon
  <2>8. InOrder'
    BY <1>0, <2>1, <2>4, <2>7 DEF InOrder
  <2>9. Tested'
    BY <2>1, Zenon DEF Tested
  <2>10. Promised'
    BY <2>1, Zenon DEF Promised, SPSCTypeOK
  <2> QED
    BY <2>2, <2>8, <2>9, <2>10, Zenon
<1>5. CASE PushReturn
  BY <1>5, Zenon DEF PushReturn, cells, seen, SPSCTypeOK, InOrder, Tested, Promised
<1>6. CASE SizeForProducer
  <2>1. PICK h \in Loadable(head_seen, head) :
          /\ head_seen' = h
          /\ told' = [told EXCEPT !["producer"] = Distance(h, tail)]
    BY <1>6, Zenon DEF SizeForProducer
  <2>2. /\ UNCHANGED <<head, tail, buffer, tail_seen, push_at, pop_at, arg, val>>
        /\ push_at = "idle"
    BY <1>6, Zenon DEF SizeForProducer, cells
  <2>3. h \in Slots /\ Distance(h, head) <= Distance(h, tail)
    BY Forward, Zenon
  <2>4. SPSCTypeOK'
    BY <1>0, <2>1, <2>2, <2>3, Zenon DEF SPSCTypeOK
  <2>5. InOrder' /\ Tested'
    BY <2>1, <2>2, <2>3, Zenon DEF InOrder, Tested
  <2>6. Promised'
    <3>1. told'["producer"] = Distance(h, tail) /\ told'["consumer"] = told["consumer"]
      BY <2>1, Zenon DEF SPSCTypeOK
    <3> QED
      BY <1>0, <2>1, <2>2, <2>3, <3>1 DEF Promised
  <2> QED
    BY <2>4, <2>5, <2>6, Zenon
<1> QED
  BY <1>1, <1>2, <1>3, <1>4, <1>5, <1>6, Zenon

\* pop() and size() for the consumer.
LEMMA ConsumerKeeps ==
  ASSUME SPSCInv,
         Pop \/ PopTest \/ PopRead \/ PopPublish \/ PopReturn \/ SizeForConsumer
  PROVE  SPSCInv'
<1> USE DEF SPSCInv
<1>0. /\ head \in Slots /\ tail \in Slots /\ head_seen \in Slots /\ tail_seen \in Slots
      /\ \A a, b \in Slots : Distance(a, b) \in Slots /\ NextIndex(a) \in Slots
      /\ \A n \in Slots : n \in Nat /\ n < Capacity
      /\ Capacity \in Nat
  <2>1. \A a, b \in Slots : Distance(a, b) \in Slots /\ NextIndex(a) \in Slots
    BY IndexTypes, Zenon
  <2>2. \A n \in Slots : n \in Nat /\ n < Capacity
    BY SPSCQueueAssumption DEF Slots
  <2> QED
    BY <2>1, <2>2, SPSCQueueAssumption, Zenon DEF SPSCTypeOK
<1>1. CASE Pop
  BY <1>1, Zenon DEF Pop, cells, seen, SPSCTypeOK, InOrder, Tested, Promised
<1>2. CASE PopTest
  <2>1. PICK t \in Loadable(tail_seen, tail) :
          /\ tail_seen' = t
          /\ pop_at' = IF head = t THEN "failed" ELSE "read"
    BY <1>2, Zenon DEF PopTest
  <2>2. UNCHANGED <<head, tail, buffer, head_seen, push_at, arg, val, told>>
    BY <1>2, Zenon DEF PopTest, cells
  <2>3. /\ t \in Slots
        /\ Distance(head, t) <= Distance(head, tail)
        /\ Distance(head, tail_seen) <= Distance(head, t)
    BY Forward, Zenon
  <2>4. SPSCTypeOK'
    BY <2>1, <2>2, <2>3, Zenon DEF SPSCTypeOK
  <2>5. InOrder'
    BY <2>1, <2>2, <2>3, Zenon DEF InOrder
  <2>6. Tested'
    BY <2>1, <2>2, Zenon DEF Tested
  <2>7. Promised'
    <3>1. told["consumer"] # Unknown => told["consumer"] \in Nat
      BY <1>0, Zenon DEF SPSCTypeOK
    <3> QED
      BY <1>0, <2>1, <2>2, <2>3, <3>1 DEF Promised
  <2> QED
    BY <2>4, <2>5, <2>6, <2>7, Zenon
<1>3. CASE PopRead
  <2>1. /\ UNCHANGED <<head, tail, head_seen, tail_seen, push_at, arg, told>>
        /\ val' = buffer[head]
        /\ buffer' = [buffer EXCEPT ![head] = Nothing]
        /\ pop_at = "read" /\ pop_at' = "publish"
    BY <1>3, Zenon DEF PopRead, seen
  <2>2. SPSCTypeOK'
    BY <1>0, <2>1, Zenon DEF SPSCTypeOK
  <2>3. InOrder' /\ Promised'
    BY <2>1, Zenon DEF InOrder, Promised
  <2>4. head # tail
    <3>1. Distance(head, tail_seen) # 0
      BY <1>0, <2>1, Apart, Zenon DEF Tested
    <3>2. Distance(head, tail) # 0
      BY <1>0, <3>1 DEF InOrder
    <3> QED
      BY <1>0, <3>2, Apart, Zenon
  <2>5. Tested'
    BY <1>0, <2>1, <2>4, Zenon DEF Tested, SPSCTypeOK
  <2> QED
    BY <2>2, <2>3, <2>5, Zenon
<1>4. CASE PopPublish
  <2>1. /\ UNCHANGED <<tail, buffer, head_seen, tail_seen, push_at, arg, val>>
        /\ head' = NextIndex(head)
        /\ pop_at = "publish" /\ pop_at' = "ok"
        /\ told' = [told EXCEPT !["consumer"] = Unknown]
    BY <1>4, Zenon DEF PopPublish, seen
  <2>2. SPSCTypeOK'
    BY <1>0, <2>1, Zenon DEF SPSCTypeOK
  <2>3. head # tail_seen /\ head # tail
    <3>1. head # tail_seen
      BY <2>1, Zenon DEF Tested
    <3>2. Distance(head, tail_seen) # 0
      BY <1>0, <3>1, Apart, Zenon
    <3>3. Distance(head, tail) # 0
      BY <1>0, <3>2 DEF InOrder
    <3> QED
      BY <1>0, <3>1, <3>3, Apart, Zenon
  <2>4. /\ Distance(head', tail_seen) = Distance(head, tail_seen) - 1
        /\ Distance(head', tail) = Distance(head, tail) - 1
    BY <1>0, <2>1, <2>3, StepStart, Zenon
  <2>5. Distance(head_seen, tail) = Distance(head_seen, head) + Distance(head, tail)
    BY <1>0, Way DEF InOrder
  <2>6. Distance(head, tail) # 0
    BY <1>0, <2>3, Apart, Zenon
  <2>7. NextIndex(head) # head_seen
    <3>1. Distance(head_seen, head) # Capacity - 1
      BY <1>0, <2>5, <2>6
    <3> QED
      BY <1>0, <3>1, Apart, Zenon
  <2>8. Distance(head_seen, head') = Distance(head_seen, head) + 1
    BY <1>0, <2>1, <2>7, StepEnd, Zenon
  <2>9. InOrder'
    BY <1>0, <2>1, <2>4, <2>5, <2>6, <2>8 DEF InOrder
  <2>10. Tested'
    BY <2>1, Zenon DEF Tested
  <2>11. Promised'
    BY <2>1, Zenon DEF Promised, SPSCTypeOK
  <2> QED
    BY <2>2, <2>9, <2>10, <2>11, Zenon
<1>5. CASE PopReturn
  BY <1>5, Zenon DEF PopReturn, cells, seen, SPSCTypeOK, InOrder, Tested, Promised
<1>6. CASE SizeForConsumer
  <2>1. PICK t \in Loadable(tail_seen, tail) :
          /\ tail_seen' = t
          /\ told' = [told EXCEPT !["consumer"] = Distance(head, t)]
    BY <1>6, Zenon DEF SizeForConsumer
  <2>2. /\ UNCHANGED <<head, tail, buffer, head_seen, push_at, pop_at, arg, val>>
        /\ pop_at = "idle"
    BY <1>6, Zenon DEF SizeForConsumer, cells
  <2>3. t \in Slots /\ Distance(head, t) <= Distance(head, tail)
    BY Forward, Zenon
  <2>4. SPSCTypeOK'
    BY <1>0, <2>1, <2>2, <2>3, Zenon DEF SPSCTypeOK
  <2>5. InOrder' /\ Tested'
    BY <2>1, <2>2, <2>3, Zenon DEF InOrder, Tested
  <2>6. Promised'
    <3>1. told'["consumer"] = Distance(head, t) /\ told'["producer"] = told["producer"]
      BY <2>1, Zenon DEF SPSCTypeOK
    <3> QED
      BY <1>0, <2>1, <2>2, <2>3, <3>1 DEF Promised
  <2> QED
    BY <2>4, <2>5, <2>6, Zenon
<1> QED
  BY <1>1, <1>2, <1>3, <1>4, <1>5, <1>6, Zenon

LEMMA SPSCInvStep ==
  ASSUME SPSCInv, [SPSCNext]_spscVars
  PROVE  SPSCInv'
<1>1. CASE UNCHANGED spscVars
  <2>1. UNCHANGED <<head, tail, buffer, head_seen, tail_seen, push_at, pop_at, arg, val, told>>
    BY <1>1, Zenon DEF spscVars, cells, seen
  <2> QED
    BY <2>1 DEF SPSCInv, SPSCTypeOK, InOrder, Tested, Promised
<1>2. CASE SPSCNext
  BY <1>2, ProducerKeeps, ConsumerKeeps, Zenon DEF SPSCNext
<1> QED
  BY <1>1, <1>2, Zenon

LEMMA SPSCInvariant == SPSCSpec => []SPSCInv
<1>1. SPSCInit => SPSCInv
  BY SPSCInvInit, Zenon
<1>2. SPSCInv /\ [SPSCNext]_spscVars => SPSCInv'
  BY SPSCInvStep, Zenon
<1> QED
  BY <1>1, <1>2, PTL DEF SPSCSpec

\* The state of the queue keeps its types: the indices of push() and pop()
\* never leave the buffer.
THEOREM SPSCTypeCorrect == SPSCSpec => []SPSCTypeOK
<1>1. SPSCInv => SPSCTypeOK
  BY Zenon DEF SPSCInv
<1> QED
  BY <1>1, SPSCInvariant, PTL

----------------------------------------------------------------------------
(* What follows from the invariant.                                        *)

LEMMA Ordered ==
  ASSUME SPSCInv
  PROVE  /\ head \in Slots /\ tail \in Slots
         /\ Distance(head, tail) \in Nat /\ Distance(head, tail) < Capacity
         /\ Distance(head, tail) <= Distance(head_seen, tail)
         /\ pop_at \in {"read", "publish"} => Distance(head, tail) >= 1
         /\ push_at \in {"write", "publish"} => Distance(head, tail) < Capacity - 1
<1>0. /\ head \in Slots /\ tail \in Slots /\ head_seen \in Slots /\ tail_seen \in Slots
      /\ Distance(head, tail) \in Slots /\ Distance(head_seen, tail) \in Slots
      /\ Distance(head_seen, head) \in Slots /\ Distance(head, tail_seen) \in Slots
  BY IndexTypes, Zenon DEF SPSCInv, SPSCTypeOK
<1>1. /\ Capacity \in Nat
      /\ \A n \in Slots : n \in Nat /\ n < Capacity
  BY SPSCQueueAssumption DEF Slots
<1>2. Distance(head_seen, tail) = Distance(head_seen, head) + Distance(head, tail)
  BY <1>0, Way DEF SPSCInv, InOrder
<1>3. pop_at \in {"read", "publish"} => Distance(head, tail_seen) # 0
  BY <1>0, Apart, Zenon DEF SPSCInv, Tested
<1>4. push_at \in {"write", "publish"} => Distance(head_seen, tail) # Capacity - 1
  BY <1>0, Apart, Zenon DEF SPSCInv, Tested
<1>5. Distance(head, tail_seen) <= Distance(head, tail)
  BY Zenon DEF SPSCInv, InOrder
<1> QED
  BY <1>0, <1>1, <1>2, <1>3, <1>4, <1>5

\* The assignment in push() and the move in pop() never meet in a cell.
THEOREM CellsExclusive == SPSCSpec => []CellExclusive
<1>1. SPSCInv => CellExclusive
  BY Ordered, Apart DEF CellExclusive
<1> QED
  BY <1>1, SPSCInvariant, PTL

LEMMA ItemsLen ==
  ASSUME SPSCInv
  PROVE  /\ Len(Items) = Distance(head, tail)
         /\ DOMAIN Items = 1..Distance(head, tail)
         /\ \A i \in 1..Distance(head, tail) :
              Items[i] = IF i = 1 /\ pop_at = "publish" THEN val
                         ELSE buffer[(head + i - 1) % Capacity]
<1>1. Distance(head, tail) \in Nat
  BY Ordered, Zenon
<1> QED
  BY <1>1 DEF Items

\* What size() tells a side bounds the number of elements until that side
\* changes it.
THEOREM SizesBound == SPSCSpec => []SizeIsABound
<1>1. ASSUME SPSCInv PROVE SizeIsABound
  <2>1. /\ Len(Items) = Distance(head, tail)
        /\ Distance(head, tail) \in Nat /\ Distance(head, tail) <= Distance(head_seen, tail)
    BY <1>1, Ordered, ItemsLen, Zenon
  <2>2. /\ Distance(head_seen, tail) \in Slots /\ Distance(head, tail_seen) \in Slots
        /\ Distance(head, tail_seen) <= Distance(head, tail)
        /\ \A n \in Slots : n \in Nat
        /\ told["producer"] # Unknown => told["producer"] \in Slots
        /\ told["consumer"] # Unknown => told["consumer"] \in Slots
    <3>1. \A n \in Slots : n \in Nat
      BY SPSCQueueAssumption DEF Slots
    <3> QED
      BY <1>1, <3>1, IndexTypes, Zenon DEF SPSCInv, SPSCTypeOK, InOrder
  <2> QED
    BY <1>1, <2>1, <2>2 DEF SizeIsABound, SPSCInv, Promised
<1> QED
  BY <1>1, SPSCInvariant, PTL

\* push() finds the room and pop() the element that size() reported.
THEOREM PromisesKept == SPSCSpec => PromiseKept
<1> DEFINE A == /\ push_at = "test" /\ push_at' = "failed" =>
                     told["producer"] \in {Unknown, Capacity - 1}
                /\ pop_at = "test" /\ pop_at' = "failed" =>
                     told["consumer"] \in {Unknown, 0}
<1>1. ASSUME SPSCInv, SPSCNext PROVE A
  <2>0. /\ head \in Slots /\ tail \in Slots /\ head_seen \in Slots
        /\ Capacity \in Nat
        /\ \A n \in Slots : n \in Nat /\ n < Capacity
        /\ \A a, b \in Slots : Distance(a, b) \in Slots
        /\ told["producer"] \in Slots \cup {Unknown}
        /\ told["consumer"] \in Slots \cup {Unknown}
    <3>1. \A a, b \in Slots : Distance(a, b) \in Slots
      BY IndexTypes, Zenon
    <3>2. Capacity \in Nat /\ \A n \in Slots : n \in Nat /\ n < Capacity
      BY SPSCQueueAssumption DEF Slots
    <3> QED
      BY <1>1, <3>1, <3>2, Zenon DEF SPSCInv, SPSCTypeOK
  <2>1. ASSUME push_at = "test", push_at' = "failed", told["producer"] # Unknown
        PROVE  told["producer"] = Capacity - 1
    <3>1. PushTest
      BY <1>1, <2>1, Zenon DEF SPSCNext, Push, PushWrite, PushPublish, PushReturn,
        Pop, PopTest, PopRead, PopPublish, PopReturn, SizeForProducer, SizeForConsumer
    <3>2. NextIndex(tail) \in Loadable(head_seen, head)
      BY <2>1, <3>1, Zenon DEF PushTest
    <3>3. /\ NextIndex(tail) \in Slots
          /\ Distance(NextIndex(tail), tail) <= Distance(head_seen, tail)
      BY <1>1, <3>2, Forward, Zenon DEF SPSCInv
    <3>4. Distance(NextIndex(tail), tail) = Capacity - 1
      BY <2>0, <3>3, Apart
    <3>5. Distance(head_seen, tail) <= told["producer"]
      BY <1>1, <2>1, Zenon DEF SPSCInv, Promised
    <3> QED
      BY <2>0, <2>1, <3>3, <3>4, <3>5
  <2>2. ASSUME pop_at = "test", pop_at' = "failed", told["consumer"] # Unknown
        PROVE  told["consumer"] = 0
    <3>1. PopTest
      BY <1>1, <2>2, Zenon DEF SPSCNext, Push, PushTest, PushWrite, PushPublish, PushReturn,
        Pop, PopRead, PopPublish, PopReturn, SizeForProducer, SizeForConsumer
    <3>2. head \in Loadable(tail_seen, tail)
      BY <2>2, <3>1, Zenon DEF PopTest
    <3>3. Distance(head, tail_seen) <= Distance(head, head)
      BY <1>1, <3>2, Forward, Zenon DEF SPSCInv
    <3>4. Distance(head, head) = 0
      BY <2>0, Apart, Zenon
    <3>5. told["consumer"] <= Distance(head, tail_seen) /\ tail_seen \in Slots
      BY <1>1, <2>2, Zenon DEF SPSCInv, Promised, SPSCTypeOK
    <3> QED
      BY <2>0, <2>2, <3>3, <3>4, <3>5
  <2> QED
    BY <2>1, <2>2, Zenon
<1>2. SPSCInv /\ [SPSCNext]_spscVars => [A]_spscVars
  BY <1>1, Zenon
<1> QED
  BY <1>2, SPSCInvariant, PTL DEF SPSCSpec, PromiseKept

----------------------------------------------------------------------------
(* The refinement.                                                         *)

LEMMA CellOf ==
  ASSUME SPSCInv, NEW i \in 1..Distance(head, tail)
  PROVE  /\ i \in 1..Capacity
         /\ (head + i - 1) % Capacity =
              IF head + i - 1 < Capacity THEN head + i - 1
              ELSE head + i - 1 - Capacity
         /\ (head + i - 1) % Capacity # tail
         /\ (head + i - 1) % Capacity = head <=> i = 1
<1>1. /\ head \in Slots /\ tail \in Slots /\ Capacity \in Nat
      /\ Distance(head, tail) \in Nat /\ Distance(head, tail) < Capacity
  BY Ordered, SPSCQueueAssumption, Zenon
<1>2. Distance(head, tail) = IF head <= tail THEN tail - head ELSE tail - head + Capacity
  BY <1>1, DistanceIs, Zenon
<1>3. i \in 1..Capacity
  BY <1>1
<1>4. (head + i - 1) % Capacity =
        IF head + i - 1 < Capacity THEN head + i - 1 ELSE head + i - 1 - Capacity
  BY <1>1, <1>3, CellIs, Zenon
<1> DEFINE c == (head + i - 1) % Capacity
<1>5. c = IF head + i - 1 < Capacity THEN head + i - 1 ELSE head + i - 1 - Capacity
  BY <1>4, Zenon
<1> HIDE DEF c
<1>6. c # tail /\ (c = head <=> i = 1)
  BY <1>1, <1>2, <1>3, <1>5 DEF Slots
<1> QED
  BY <1>3, <1>4, <1>6, Zenon DEF c

\* Steps that leave the elements alone.
LEMMA ItemsKept ==
  ASSUME SPSCInv, UNCHANGED <<head, tail, buffer, val>>,
         pop_at' = "publish" <=> pop_at = "publish"
  PROVE  Items' = Items
  BY Zenon DEF Items

LEMMA ItemsWrite ==
  ASSUME SPSCInv, PushWrite
  PROVE  Items' = Items
<1>1. /\ UNCHANGED <<head, tail, pop_at, val>>
      /\ buffer' = [buffer EXCEPT ![tail] = arg]
  BY Zenon DEF PushWrite
<1>2. \A i \in 1..Distance(head, tail) :
        buffer'[(head + i - 1) % Capacity] = buffer[(head + i - 1) % Capacity]
  BY <1>1, CellOf DEF SPSCInv, SPSCTypeOK
<1> QED
  BY <1>1, <1>2, Zenon DEF Items

LEMMA ItemsRead ==
  ASSUME SPSCInv, PopRead
  PROVE  Items' = Items
<1>1. /\ UNCHANGED <<head, tail>> /\ pop_at = "read" /\ pop_at' = "publish"
      /\ val' = buffer[head]
      /\ buffer' = [buffer EXCEPT ![head] = Nothing]
  BY Zenon DEF PopRead
<1>2. ASSUME NEW i \in 1..Distance(head, tail), i # 1
      PROVE  buffer'[(head + i - 1) % Capacity] = buffer[(head + i - 1) % Capacity]
  BY <1>1, <1>2, CellOf DEF SPSCInv, SPSCTypeOK
<1>3. 1 \in 1..Distance(head, tail) => (head + 1 - 1) % Capacity = head
  BY CellOf, Zenon
<1> DEFINE old(i) == IF i = 1 /\ pop_at = "publish" THEN val
                     ELSE buffer[(head + i - 1) % Capacity]
           new(i) == IF i = 1 /\ pop_at' = "publish" THEN val'
                     ELSE buffer'[(head + i - 1) % Capacity]
<1>4. ASSUME NEW i \in 1..Distance(head, tail) PROVE new(i) = old(i)
  <2>1. CASE i = 1
    BY <1>1, <1>3, <2>1, Zenon
  <2>2. CASE i # 1
    BY <1>2, <2>2, Zenon
  <2> QED
    BY <2>1, <2>2, Zenon
<1>5. /\ Items = [i \in 1..Distance(head, tail) |-> old(i)]
      /\ Items' = [i \in 1..Distance(head, tail) |-> new(i)]
  BY <1>1 DEF Items
<1> HIDE DEF old, new
<1> QED
  BY <1>4, <1>5, Zenon

\* The store of tail_ appends the argument.
LEMMA ItemsPut ==
  ASSUME SPSCInv, PushPublish
  PROVE  Len(Items) < Capacity - 1 /\ Items' = Append(Items, arg)
<1>1. /\ UNCHANGED <<head, buffer, pop_at, val>>
      /\ tail' = NextIndex(tail) /\ push_at = "publish"
  BY Zenon DEF PushPublish
<1>2. /\ head \in Slots /\ tail \in Slots /\ Capacity \in Nat
      /\ Distance(head, tail) \in Nat /\ Distance(head, tail) < Capacity - 1
      /\ pop_at = "publish" => Distance(head, tail) >= 1
  BY <1>1, Ordered, SPSCQueueAssumption, Zenon
<1>3. Distance(head, tail') = Distance(head, tail) + 1
  <2>1. NextIndex(tail) # head
    BY <1>2, Apart
  <2> QED
    BY <1>1, <1>2, <2>1, StepEnd, Zenon
<1> DEFINE n == Distance(head, tail)
           cell(i) == IF i = 1 /\ pop_at = "publish" THEN val
                      ELSE buffer[(head + i - 1) % Capacity]
<1>4. Items = [i \in 1..n |-> cell(i)] /\ Items' = [i \in 1..(n + 1) |-> cell(i)]
  BY <1>1, <1>3, Zenon DEF Items
<1>5. cell(n + 1) = arg
  <2>1. n + 1 \in 1..Capacity
    BY <1>2
  <2>2. (head + (n + 1) - 1) % Capacity =
          IF head + (n + 1) - 1 < Capacity THEN head + (n + 1) - 1
          ELSE head + (n + 1) - 1 - Capacity
    BY <1>2, <2>1, CellIs, Zenon
  <2>3. n = IF head <= tail THEN tail - head ELSE tail - head + Capacity
    BY <1>2, DistanceIs, Zenon
  <2>4. (head + (n + 1) - 1) % Capacity = tail
    BY <1>2, <2>2, <2>3 DEF Slots
  <2>5. ~(n + 1 = 1 /\ pop_at = "publish")
    BY <1>2
  <2>6. buffer[tail] = arg
    BY <1>1, Zenon DEF SPSCInv, Tested
  <2> QED
    BY <2>4, <2>5, <2>6, Zenon
<1>6. n \in Nat
  BY <1>2, Zenon
<1> HIDE DEF n, cell
<1>7. Items' = Append(Items, arg)
  BY <1>4, <1>5, <1>6
<1>8. Len(Items) = n
  BY <1>4, <1>6
<1> QED
  BY <1>2, <1>7, <1>8, Zenon DEF n

\* The store of head_ removes the value that pop() moved out.
LEMMA ItemsTake ==
  ASSUME SPSCInv, PopPublish
  PROVE  Items # <<>> /\ Items' = Tail(Items) /\ Head(Items) = val
<1>1. /\ UNCHANGED <<tail, buffer, val>>
      /\ head' = NextIndex(head) /\ pop_at = "publish" /\ pop_at' = "ok"
  BY Zenon DEF PopPublish
<1>2. /\ head \in Slots /\ tail \in Slots /\ Capacity \in Nat
      /\ Distance(head, tail) \in Nat /\ Distance(head, tail) < Capacity
      /\ Distance(head, tail) >= 1
  BY <1>1, Ordered, SPSCQueueAssumption, Zenon
<1>3. Distance(head', tail) = Distance(head, tail) - 1
  <2>1. head # tail
    BY <1>2, Apart
  <2> QED
    BY <1>1, <1>2, <2>1, StepStart, Zenon
<1> DEFINE n == Distance(head, tail)
           old(i) == IF i = 1 THEN val ELSE buffer[(head + i - 1) % Capacity]
           new(i) == buffer[(head' + i - 1) % Capacity]
<1>4. Items = [i \in 1..n |-> old(i)] /\ Items' = [i \in 1..(n - 1) |-> new(i)]
  BY <1>1, <1>3, Zenon DEF Items
<1>5. ASSUME NEW i \in 1..(n - 1) PROVE new(i) = old(i + 1)
  <2>1. i \in 1..Capacity /\ i + 1 \in 1..Capacity /\ i + 1 # 1
    BY <1>2
  <2>2. head' \in Slots /\ head' = IF head + 1 = Capacity THEN 0 ELSE head + 1
    BY <1>1, <1>2, NextIs, IndexTypes, Zenon
  <2>3. (head + (i + 1) - 1) % Capacity =
          IF head + (i + 1) - 1 < Capacity THEN head + (i + 1) - 1
          ELSE head + (i + 1) - 1 - Capacity
    BY <1>2, <2>1, CellIs, Zenon
  <2>4. (head' + i - 1) % Capacity =
          IF head' + i - 1 < Capacity THEN head' + i - 1 ELSE head' + i - 1 - Capacity
    BY <2>1, <2>2, CellIs, Zenon
  <2>5. (head' + i - 1) % Capacity = (head + (i + 1) - 1) % Capacity
    BY <1>2, <2>1, <2>2, <2>3, <2>4 DEF Slots
  <2> QED
    BY <2>1, <2>5, Zenon
<1>6. n \in Nat /\ n >= 1 /\ old(1) = val
  BY <1>2, Zenon
<1> HIDE DEF n, old, new
<1> DEFINE S == {old(i) : i \in 1..n} \cup {new(i) : i \in 1..(n - 1)}
<1>7. Items \in Seq(S) /\ Len(Items) = n /\ Items # <<>>
  BY <1>4, <1>6
<1>8. Head(Items) = val
  BY <1>4, <1>6, <1>7
<1>9. Items' \in Seq(S) /\ Len(Items') = n - 1
  BY <1>4, <1>6
<1>10. \A i \in 1..(n - 1) : Items'[i] = Items[i + 1]
  BY <1>4, <1>5, <1>6
<1> HIDE DEF S
<1>11. /\ Tail(Items) \in Seq(S) /\ Len(Tail(Items)) = n - 1
       /\ \A i \in 1..Len(Tail(Items)) : Tail(Items)[i] = Items[i + 1]
  BY <1>7, HeadTailProperties, Zenon
<1>12. Items' = Tail(Items)
  BY <1>9, <1>10, <1>11, SeqEqual, Zenon
<1> QED
  BY <1>7, <1>8, <1>12, Zenon

LEMMA SPSCFifoStarts == SPSCInit => Fifo!FifoInit
<1> SUFFICES ASSUME SPSCInit PROVE Fifo!FifoInit
  BY Zenon
<1>1. Distance(head, tail) = 0
  <2>1. 0 \in Slots
    BY SPSCQueueAssumption DEF Slots
  <2> QED
    BY <2>1, Apart, Zenon DEF SPSCInit
<1>2. Items = <<>>
  BY <1>1 DEF Items
<1>3. /\ Offered = [c \in Sides |-> Nothing]
      /\ Taken = [c \in Sides |-> Nothing]
  BY Zenon DEF SPSCInit, Offered, Taken
<1> QED
  BY <1>2, <1>3, Zenon DEF Fifo!FifoInit

\* Every step of the ring is a step or a stutter of the FIFO.
LEMMA SPSCFifoStep ==
  ASSUME SPSCInv, [SPSCNext]_spscVars
  PROVE  [Fifo!FifoNext]_(Fifo!fifoVars)
<1> DEFINE Same == Items' = Items /\ Offered' = Offered /\ Taken' = Taken
<1>0. Same => UNCHANGED Fifo!fifoVars
  BY Zenon DEF Fifo!fifoVars
<1>1. ASSUME NEW v \in Values, Push(v) PROVE Fifo!Offer("producer", v)
  <2>1. Items' = Items /\ Taken' = Taken
    BY <1>1, ItemsKept, Zenon DEF Push, cells, Taken
  <2>2. Offered' = [Offered EXCEPT !["producer"] = v]
    BY <1>1, Zenon DEF Push, Offered, Sides
  <2> QED
    BY <2>1, <2>2, Zenon DEF Fifo!Offer
<1>2. CASE PushTest \/ SizeForProducer \/ SizeForConsumer
  <2>1. UNCHANGED <<head, tail, buffer, val, arg, pop_at>>
    BY <1>2, Zenon DEF PushTest, SizeForProducer, SizeForConsumer, cells
  <2>2. Same
    BY <2>1, ItemsKept, Zenon DEF Offered, Taken
  <2> QED
    BY <1>0, <2>2, Zenon
<1>3. CASE PushWrite
  <2>1. Same
    BY <1>3, ItemsWrite, Zenon DEF PushWrite, Offered, Taken
  <2> QED
    BY <1>0, <2>1, Zenon
<1>4. CASE PushPublish
  <2>1. Offered' = Offered /\ Taken' = Taken /\ Offered["producer"] = arg
    BY <1>4, Zenon DEF PushPublish, Offered, Taken, Sides
  <2>2. Fifo!Put("producer")
    BY <1>4, <2>1, ItemsPut, Zenon DEF Fifo!Put
  <2> QED
    BY <2>2, Zenon DEF Fifo!FifoNext, Sides
<1>5. CASE PushReturn
  <2>1. Items' = Items /\ Taken' = Taken
    BY <1>5, ItemsKept, Zenon DEF PushReturn, cells, Taken
  <2>2. /\ Offered' = [Offered EXCEPT !["producer"] = Nothing]
        /\ Taken = [Taken EXCEPT !["producer"] = Nothing]
    BY <1>5, Zenon DEF PushReturn, Offered, Taken, Sides
  <2>3. Fifo!Leave("producer")
    BY <2>1, <2>2, Zenon DEF Fifo!Leave
  <2> QED
    BY <2>3, Zenon DEF Fifo!FifoNext, Sides
<1>6. CASE Pop \/ PopTest
  <2>1. /\ UNCHANGED <<head, tail, buffer, val, arg>>
        /\ pop_at \notin {"publish", "ok"} /\ pop_at' \notin {"publish", "ok"}
    BY <1>6, Zenon DEF Pop, PopTest, cells
  <2>2. Items' = Items
    BY <2>1, ItemsKept, Zenon
  <2>3. Same
    BY <2>1, <2>2, Zenon DEF Offered, Taken
  <2> QED
    BY <1>0, <2>3, Zenon
<1>7. CASE PopRead
  <2>1. arg' = arg /\ pop_at # "ok" /\ pop_at' # "ok"
    BY <1>7, Zenon DEF PopRead
  <2>2. Same
    BY <1>7, <2>1, ItemsRead, Zenon DEF Offered, Taken
  <2> QED
    BY <1>0, <2>2, Zenon
<1>8. CASE PopPublish
  <2>1. Offered' = Offered
    BY <1>8, Zenon DEF PopPublish, Offered
  <2>2. Taken' = [Taken EXCEPT !["consumer"] = val]
    BY <1>8, Zenon DEF PopPublish, Taken, Sides
  <2>3. Fifo!Take("consumer")
    BY <1>8, <2>1, <2>2, ItemsTake, Zenon DEF Fifo!Take
  <2> QED
    BY <2>3, Zenon DEF Fifo!FifoNext, Sides
<1>9. CASE PopReturn
  <2>1. /\ UNCHANGED <<head, tail, buffer, arg>>
        /\ pop_at \in {"ok", "failed"} /\ pop_at' = "idle"
    BY <1>9, Zenon DEF PopReturn, cells
  <2>2. Items' = Items
    BY <2>1, Zenon DEF Items
  <2>3. /\ Offered' = [Offered EXCEPT !["consumer"] = Nothing]
        /\ Taken' = [Taken EXCEPT !["consumer"] = Nothing]
    BY <2>1, Zenon DEF Offered, Taken, Sides
  <2>4. Fifo!Leave("consumer")
    BY <2>2, <2>3, Zenon DEF Fifo!Leave
  <2> QED
    BY <2>4, Zenon DEF Fifo!FifoNext, Sides
<1>10. CASE UNCHANGED spscVars
  <2>1. UNCHANGED <<head, tail, buffer, val, arg, pop_at>>
    BY <1>10, Zenon DEF spscVars, cells
  <2>2. Same
    BY <2>1, ItemsKept, Zenon DEF Offered, Taken
  <2> QED
    BY <1>0, <2>2, Zenon
<1>11. ASSUME NEW v \in Values, Push(v) PROVE Fifo!FifoNext
  BY <1>1, <1>11, Zenon DEF Fifo!FifoNext, Sides
<1> QED
  BY <1>0, <1>2, <1>3, <1>4, <1>5, <1>6, <1>7, <1>8, <1>9, <1>10, <1>11, Zenon DEF SPSCNext

\* For any values and any capacity the ring is a FIFO of Capacity - 1
\* elements, although each side may see an old index of the other: push()'s
\* store of tail_ appends, pop()'s store of head_ takes the oldest value.
THEOREM SPSCImplementsFifo == SPSCSpec => RefinesFifo
<1>1. SPSCInit => Fifo!FifoInit
  BY SPSCFifoStarts, Zenon
<1>2. SPSCInv /\ [SPSCNext]_spscVars => [Fifo!FifoNext]_(Fifo!fifoVars)
  BY SPSCFifoStep, Zenon
<1> QED
  BY <1>1, <1>2, SPSCInvariant, PTL DEF SPSCSpec, RefinesFifo, Fifo!FifoSpec

=============================================================================
