-------------------------- MODULE PoolQueueProofs --------------------------
(***************************************************************************)
(* MPMCQueue for any number of threads, any values and any capacity: the    *)
(* sequence numbers give each slot one owner at a time, and the ring        *)
(* implements a bounded FIFO.  Then ThreadPool, which extends it: a pool is *)
(* a queue to its queue, so that invariant holds in it; on top of it come   *)
(* the phases of the pool, how many tokens the semaphore has for the tasks  *)
(* in the ring, and which tasks were submitted.  ThreadPoolProofs goes on   *)
(* with the tasks that are taken out.                                       *)
(***************************************************************************)
EXTENDS ThreadPool, TLAPS

----------------------------------------------------------------------------
(* Sequences.                                                              *)

LEMMA EmptySeq ==
  ASSUME NEW S
  PROVE  <<>> \in Seq(S) /\ Len(<<>>) = 0
OBVIOUS

LEMMA SameSeq ==
  ASSUME NEW S, NEW s \in Seq(S), NEW t \in Seq(S), Len(s) = Len(t),
         \A i \in 1..Len(s) : s[i] = t[i]
  PROVE  s = t
OBVIOUS

LEMMA AppendFacts ==
  ASSUME NEW S, NEW s \in Seq(S), NEW e \in S
  PROVE  /\ Append(s, e) \in Seq(S) /\ Append(s, e) # <<>>
         /\ Len(Append(s, e)) = Len(s) + 1 /\ Append(s, e)[Len(s) + 1] = e
         /\ \A i \in 1..Len(s) : Append(s, e)[i] = s[i]
OBVIOUS

LEMMA SubSeqFacts ==
  ASSUME NEW S, NEW s, NEW m \in Int, NEW n \in Int, \A i \in m..n : s[i] \in S
  PROVE  /\ SubSeq(s, m, n) \in Seq(S)
         /\ Len(SubSeq(s, m, n)) = IF m <= n THEN n - m + 1 ELSE 0
         /\ \A i \in 1..(n - m + 1) : SubSeq(s, m, n)[i] = s[m + i - 1]
OBVIOUS

LEMMA SubSeqNone ==
  ASSUME NEW s, NEW m \in Int, NEW n \in Int, n < m
  PROVE  SubSeq(s, m, n) = <<>>
OBVIOUS

LEMMA SubSeqHead ==
  ASSUME NEW S, NEW s \in Seq(S), NEW m \in 1..Len(s), NEW n \in m..Len(s)
  PROVE  /\ Head(SubSeq(s, m, n)) = s[m]
         /\ Tail(SubSeq(s, m, n)) = SubSeq(s, m + 1, n)
OBVIOUS

----------------------------------------------------------------------------
(* Slots of positions.  These are the only facts used about SlotOf.        *)

LEMMA SlotRange ==
  ASSUME NEW p \in Nat
  PROVE  SlotOf(p) \in Slots
  BY MPMCQueueAssumption DEF SlotOf, Slots

\* Quotients that differ put positions a round or more apart.
LEMMA Rounds ==
  ASSUME NEW c \in Nat, NEW a \in Nat, NEW b \in Nat, a < b
  PROVE  c * b >= c * a + c
<1>1. PICK k \in Nat : b = a + 1 + k
  <2>1. b - a - 1 \in Nat /\ b = a + 1 + (b - a - 1)
    OBVIOUS
  <2> QED
    BY <2>1, Zenon
<1>2. c * b = c * a + c + c * k /\ c * k >= 0
  BY <1>1
<1> QED
  BY <1>2

\* Two positions less than a round apart have different slots.
LEMMA SlotWindow ==
  ASSUME NEW p \in Nat, NEW q \in Nat, p < q + Capacity, q < p + Capacity,
         SlotOf(p) = SlotOf(q)
  PROVE  p = q
<1> DEFINE a == p \div Capacity
           b == q \div Capacity
<1>0. Capacity \in Nat /\ Capacity > 0
  BY MPMCQueueAssumption
<1>1. /\ a \in Nat /\ b \in Nat /\ SlotOf(p) \in Nat
      /\ p = Capacity * a + SlotOf(p) /\ q = Capacity * b + SlotOf(q)
  BY <1>0 DEF SlotOf
<1> HIDE DEF a, b
<1>2. ~(a < b) /\ ~(b < a)
  BY <1>0, <1>1, Rounds
<1> QED
  BY <1>1, <1>2

\* A position and the one a round later share a slot.
LEMMA SlotRound ==
  ASSUME NEW p \in Nat
  PROVE  SlotOf(p + Capacity) = SlotOf(p)
<1> DEFINE q == p + Capacity
           a == p \div Capacity
           b == q \div Capacity
<1>0. Capacity \in Nat /\ Capacity > 0 /\ q \in Nat
  BY MPMCQueueAssumption
<1>1. /\ a \in Nat /\ p = Capacity * a + SlotOf(p)
      /\ SlotOf(p) \in Nat /\ SlotOf(p) < Capacity
  BY <1>0 DEF SlotOf
<1>2. /\ b \in Nat /\ q = Capacity * b + SlotOf(q)
      /\ SlotOf(q) \in Nat /\ SlotOf(q) < Capacity
  <2> HIDE DEF q
  <2> QED
    BY <1>0 DEF SlotOf
<1> HIDE DEF a, b
<1>3. Capacity * (a + 1) = Capacity * a + Capacity
  BY <1>0, <1>1
<1>4. ~(a + 1 < b) /\ ~(b < a + 1)
  <2>1. ASSUME a + 1 < b PROVE FALSE
    <3>1. Capacity * b >= Capacity * (a + 1) + Capacity
      BY <1>0, <1>1, <1>2, <2>1, Rounds
    <3> QED
      BY <1>0, <1>1, <1>2, <1>3, <3>1
  <2>2. ASSUME b < a + 1 PROVE FALSE
    <3>1. Capacity * (a + 1) >= Capacity * b + Capacity
      BY <1>0, <1>1, <1>2, <2>2, Rounds
    <3> QED
      BY <1>0, <1>1, <1>2, <1>3, <3>1
  <2> QED
    BY <2>1, <2>2, Zenon
<1>5. b = a + 1
  BY <1>1, <1>2, <1>4
<1>6. q = Capacity * a + Capacity + SlotOf(q)
  BY <1>2, <1>3, <1>5, Zenon
<1> QED
  BY <1>0, <1>1, <1>2, <1>6

----------------------------------------------------------------------------
(* The inductive invariant.  The positions dequeue_pos to dequeue_pos +     *)
(* Capacity - 1 have one slot each: those below enqueue_pos hold a value or *)
(* are being filled, the others are free or are being emptied.              *)

Pushing(t) == at[t] \in {"push_data", "push_publish"}
Popping(t) == at[t] \in {"pop_data", "pop_free"}

Bounds ==
  /\ dequeue_pos <= enqueue_pos
  /\ enqueue_pos <= dequeue_pos + Capacity
  /\ Len(log) = enqueue_pos

\* A slot between the two positions is published, or its producer owns it.
Filled ==
  \A p \in Nat : dequeue_pos <= p /\ p < enqueue_pos =>
    \/ /\ sequence[SlotOf(p)] = p + 1
       /\ data[SlotOf(p)] = log[p + 1]
    \/ /\ sequence[SlotOf(p)] = p
       /\ \E t \in Threads : Pushing(t) /\ pos[t] = p

\* A slot past them is free, or the consumer of the last round owns it.
Free ==
  \A p \in Nat : enqueue_pos <= p /\ p < dequeue_pos + Capacity =>
    \/ sequence[SlotOf(p)] = p
    \/ /\ sequence[SlotOf(p)] = p + 1 - Capacity
       /\ \E t \in Threads : Popping(t) /\ pos[t] + Capacity = p

\* What a thread between its claim and its store of the sequence knows.
Producers ==
  /\ \A t \in Threads : Pushing(t) =>
       /\ dequeue_pos <= pos[t] /\ pos[t] < enqueue_pos
       /\ sequence[SlotOf(pos[t])] = pos[t]
       /\ log[pos[t] + 1] = arg[t]
       /\ at[t] = "push_publish" => data[SlotOf(pos[t])] = arg[t]
  /\ \A t, u \in Threads : Pushing(t) /\ Pushing(u) /\ pos[t] = pos[u] => t = u

Consumers ==
  /\ \A t \in Threads : Popping(t) =>
       /\ pos[t] < dequeue_pos /\ enqueue_pos <= pos[t] + Capacity
       /\ sequence[SlotOf(pos[t])] = pos[t] + 1
       /\ at[t] = "pop_data" => data[SlotOf(pos[t])] = log[pos[t] + 1]
  /\ \A t, u \in Threads : Popping(t) /\ Popping(u) /\ pos[t] = pos[u] => t = u

\* What the test of the sequence is still worth at the compare_exchange.
Candidates ==
  \A t \in Threads :
    /\ at[t] \in {"push_seq", "push_claim"} => pos[t] <= enqueue_pos
    /\ at[t] = "push_claim" /\ pos[t] = enqueue_pos =>
         sequence[SlotOf(pos[t])] = pos[t]
    /\ at[t] \in {"pop_seq", "pop_claim"} => pos[t] <= dequeue_pos
    /\ at[t] = "pop_claim" /\ pos[t] = dequeue_pos =>
         sequence[SlotOf(pos[t])] = pos[t] + 1

\* The sequence of a slot never falls behind a position that was handed out.
Advanced ==
  \A p \in Nat :
    /\ p < enqueue_pos => sequence[SlotOf(p)] >= p
    /\ p < dequeue_pos => sequence[SlotOf(p)] >= p + 1

\* push() carries its argument.
Carries ==
  \A t \in Threads :
    at[t] \in {"push_load", "push_seq", "push_claim", "push_data", "push_publish"} =>
      arg[t] \in Values

QueueInv ==
  /\ QueueTypeOK
  /\ Carries
  /\ Bounds
  /\ Filled
  /\ Free
  /\ Producers
  /\ Consumers
  /\ Candidates
  /\ Advanced

LEMMA QueueInvInit == QueueInit => QueueInv
<1> SUFFICES ASSUME QueueInit PROVE QueueInv
  BY Zenon
<1> USE MPMCQueueAssumption
<1>1. QueueTypeOK /\ Carries
  BY DEF QueueInit, QueueTypeOK, Carries, Slots, Places
<1>2. \A t \in Threads : ~Pushing(t) /\ ~Popping(t)
  BY Zenon DEF QueueInit, Pushing, Popping
<1>3. Bounds /\ Candidates /\ Advanced
  BY EmptySeq DEF QueueInit, Bounds, Candidates, Advanced
<1>4. Filled /\ Producers /\ Consumers
  BY <1>2 DEF QueueInit, Filled, Producers, Consumers
<1>5. Free
  <2>1. \A p \in Nat : p < Capacity => SlotOf(p) = p /\ p \in Slots
    BY DEF SlotOf, Slots
  <2> QED
    BY <2>1 DEF QueueInit, Free
<1> QED
  BY <1>1, <1>3, <1>4, <1>5, Zenon DEF QueueInv

LEMMA LoadRange ==
  ASSUME NEW p \in Nat, NEW q \in Loadable(p)
  PROVE  q \in Nat /\ q <= p
BY MPMCQueueAssumption DEF Loadable

LEMMA QueueTypeStep ==
  ASSUME QueueTypeOK, Carries, [QueueNext]_queueVars
  PROVE  QueueTypeOK' /\ Carries'
<1> USE MPMCQueueAssumption DEF QueueTypeOK, Carries, Goto
<1>1. CASE UNCHANGED queueVars
  BY <1>1, Zenon DEF queueVars, ring, calls
<1>2. ASSUME NEW t \in Threads, NEW v \in Values, Push(t, v)
      PROVE  QueueTypeOK' /\ Carries'
  BY <1>2, Zenon DEF Push, ring, Places
<1>3. ASSUME NEW t \in Threads, Pop(t) \/ Return(t)
      PROVE  QueueTypeOK' /\ Carries'
  <2>1. CASE Pop(t)
    BY <2>1, Zenon DEF Pop, ring, Places
  <2>2. CASE Return(t)
    <3>1. QueueTypeOK'
      BY <2>2, Zenon DEF Return, ring, Places
    <3>2. Carries'
      BY <2>2, Zenon DEF Return
    <3> QED
      BY <3>1, <3>2, Zenon
  <2> QED
    BY <1>3, <2>1, <2>2, Zenon
<1>4. ASSUME NEW t \in Threads, PushStep(t)
      PROVE  QueueTypeOK' /\ Carries'
  <2>1. CASE PushLoad(t) \/ PushMiss(t)
    <3>1. PICK p \in Loadable(enqueue_pos) : pos' = [pos EXCEPT ![t] = p]
      BY <2>1, Zenon DEF PushLoad, PushMiss
    <3>2. p \in Nat
      BY LoadRange, Zenon
    <3>3. /\ at[t] \in {"push_load", "push_claim"}
          /\ at' = [at EXCEPT ![t] = "push_seq"]
          /\ UNCHANGED <<ring, arg, out, log>>
      BY <2>1, Zenon DEF PushLoad, PushMiss
    <3> QED
      BY <3>1, <3>2, <3>3, Zenon DEF ring, Places
  <2>2. CASE PushSeq(t)
    BY <2>2, ZenonT(30) DEF PushSeq, ring, Places
  <2>3. CASE PushClaim(t)
    <3>1. arg[t] \in Values /\ log' = Append(log, arg[t])
      BY <2>3, Zenon DEF PushClaim
    <3>2. log' \in Seq(Values)
      BY <3>1, AppendFacts, Zenon
    <3> QED
      BY <2>3, <3>2 DEF PushClaim, Places
  <2>4. CASE PushData(t)
    BY <2>4, Zenon DEF PushData, Places
  <2>5. CASE PushPublish(t)
    <3>1. pos[t] + 1 \in Nat
      OBVIOUS
    <3>2. sequence' \in [Slots -> Nat]
      BY <2>5, <3>1, Zenon DEF PushPublish
    <3> QED
      BY <2>5, <3>2, Zenon DEF PushPublish, Places
  <2> QED
    BY <1>4, <2>1, <2>2, <2>3, <2>4, <2>5, Zenon DEF PushStep
<1>5. ASSUME NEW t \in Threads, PopStep(t)
      PROVE  QueueTypeOK' /\ Carries'
  <2>1. CASE PopLoad(t) \/ PopMiss(t)
    <3>1. PICK p \in Loadable(dequeue_pos) : pos' = [pos EXCEPT ![t] = p]
      BY <2>1, Zenon DEF PopLoad, PopMiss
    <3>2. p \in Nat
      BY LoadRange, Zenon
    <3>3. /\ at[t] \in {"pop_load", "pop_claim"}
          /\ at' = [at EXCEPT ![t] = "pop_seq"]
          /\ UNCHANGED <<ring, arg, out, log>>
      BY <2>1, Zenon DEF PopLoad, PopMiss
    <3> QED
      BY <3>1, <3>2, <3>3, Zenon DEF ring, Places
  <2>2. CASE PopSeq(t)
    BY <2>2, ZenonT(30) DEF PopSeq, ring, Places
  <2>3. CASE PopClaim(t)
    BY <2>3 DEF PopClaim, Places
  <2>4. CASE PopData(t)
    <3>1. data[SlotOf(pos[t])] \in Values \cup {Nothing}
      BY SlotRange, Zenon
    <3> QED
      BY <2>4, <3>1, Zenon DEF PopData, Places
  <2>5. CASE PopFree(t)
    <3>1. pos[t] + Capacity \in Nat
      OBVIOUS
    <3>2. sequence' \in [Slots -> Nat]
      BY <2>5, <3>1, Zenon DEF PopFree
    <3> QED
      BY <2>5, <3>2, Zenon DEF PopFree, Places
  <2> QED
    BY <1>5, <2>1, <2>2, <2>3, <2>4, <2>5, Zenon DEF PopStep
<1> QED
  BY <1>1, <1>2, <1>3, <1>4, <1>5, Zenon DEF QueueNext

\* The parts of QueueInv that remain to be shown of the next state.
RingInv ==
  Bounds /\ Filled /\ Free /\ Producers /\ Consumers /\ Candidates /\ Advanced

\* The other threads stay where they are.
Alone(t) ==
  \A u \in Threads : u # t =>
    at'[u] = at[u] /\ pos'[u] = pos[u] /\ arg'[u] = arg[u]

\* A step of a thread that owns no slot before or after it.
LEMMA QuietStep ==
  ASSUME QueueInv, NEW t \in Threads, UNCHANGED <<ring, log>>, Alone(t),
         ~Owns(t), at'[t] \notin {"push_data", "push_publish", "pop_data", "pop_free"},
         at'[t] \in {"push_seq", "push_claim"} => pos'[t] <= enqueue_pos,
         at'[t] = "push_claim" => sequence[SlotOf(pos'[t])] = pos'[t],
         at'[t] \in {"pop_seq", "pop_claim"} => pos'[t] <= dequeue_pos,
         at'[t] = "pop_claim" => sequence[SlotOf(pos'[t])] = pos'[t] + 1
  PROVE  RingInv'
<1> USE DEF QueueInv, ring
<1>1. \A u \in Threads : /\ Pushing(u)' <=> Pushing(u)
                         /\ Popping(u)' <=> Popping(u)
                         /\ Pushing(u) \/ Popping(u) => u # t
  BY Zenon DEF Alone, Owns, Pushing, Popping
<1>2. Filled'
  BY <1>1 DEF Filled, Alone
<1>3. Free'
  BY <1>1 DEF Free, Alone
<1>4. Producers'
  BY <1>1 DEF Producers, Alone
<1>5. Consumers'
  BY <1>1 DEF Consumers, Alone
<1>6. Candidates'
  BY DEF Candidates, Alone
<1> QED
  BY <1>2, <1>3, <1>4, <1>5, <1>6, Zenon DEF RingInv, Bounds, Advanced

LEMMA QuietSteps ==
  ASSUME QueueInv, NEW t \in Threads,
         \/ \E v \in Values : Push(t, v)
         \/ PushLoad(t) \/ PushSeq(t) \/ PushMiss(t)
         \/ Pop(t) \/ PopLoad(t) \/ PopSeq(t) \/ PopMiss(t)
         \/ Return(t)
  PROVE  RingInv'
<1> USE DEF Owns, Goto, Alone
<1>0. QueueTypeOK /\ Candidates
  BY Zenon DEF QueueInv
<1>1. CASE (\E v \in Values : Push(t, v)) \/ Pop(t) \/ Return(t)
  BY <1>0, <1>1, QuietStep, ZenonT(30) DEF Push, Pop, Return, Returned, QueueTypeOK
<1>2. CASE PushLoad(t) \/ PushMiss(t)
  <2>1. PICK p \in Loadable(enqueue_pos) : pos' = [pos EXCEPT ![t] = p]
    BY <1>2, Zenon DEF PushLoad, PushMiss
  <2>2. p <= enqueue_pos
    BY <1>0, LoadRange, Zenon DEF QueueTypeOK
  <2>3. /\ at[t] \in {"push_load", "push_claim"}
        /\ at' = [at EXCEPT ![t] = "push_seq"]
        /\ UNCHANGED <<ring, arg, log>>
    BY <1>2, Zenon DEF PushLoad, PushMiss
  <2>4. at'[t] = "push_seq" /\ pos'[t] = p /\ Alone(t) /\ ~Owns(t)
    BY <1>0, <2>1, <2>3, Zenon DEF QueueTypeOK
  <2>5. UNCHANGED <<ring, log>>
    BY <2>3, Zenon
  <2> HIDE DEF Owns, Alone, Goto
  <2> QED
    BY <2>2, <2>4, <2>5, QuietStep, Zenon
<1>3. CASE PushSeq(t)
  <2>1. /\ at[t] = "push_seq"
        /\ pos' = pos
        /\ at'[t] \in {"push_claim", "push_failed", "push_load"}
        /\ UNCHANGED <<ring, log>>
        /\ Alone(t) /\ ~Owns(t)
    BY <1>0, <1>3, Zenon DEF PushSeq, QueueTypeOK
  <2>2. pos[t] \in Nat /\ sequence[SlotOf(pos[t])] \in Nat
    BY <1>0, SlotRange, Zenon DEF QueueTypeOK
  <2>3. at'[t] = "push_claim" => sequence[SlotOf(pos[t])] - (pos[t]) = 0
    BY <1>0, <1>3, Zenon DEF PushSeq, QueueTypeOK
  <2>4. pos[t] <= enqueue_pos
    BY <1>0, <2>1, Zenon DEF Candidates
  <2> HIDE DEF Owns, Alone, Goto
  <2> QED
    BY <2>1, <2>2, <2>3, <2>4, QuietStep
<1>4. CASE PopLoad(t) \/ PopMiss(t)
  <2>1. PICK p \in Loadable(dequeue_pos) : pos' = [pos EXCEPT ![t] = p]
    BY <1>4, Zenon DEF PopLoad, PopMiss
  <2>2. p <= dequeue_pos
    BY <1>0, LoadRange, Zenon DEF QueueTypeOK
  <2>3. /\ at[t] \in {"pop_load", "pop_claim"}
        /\ at' = [at EXCEPT ![t] = "pop_seq"]
        /\ UNCHANGED <<ring, arg, log>>
    BY <1>4, Zenon DEF PopLoad, PopMiss
  <2>4. at'[t] = "pop_seq" /\ pos'[t] = p /\ Alone(t) /\ ~Owns(t)
    BY <1>0, <2>1, <2>3, Zenon DEF QueueTypeOK
  <2>5. UNCHANGED <<ring, log>>
    BY <2>3, Zenon
  <2> HIDE DEF Owns, Alone, Goto
  <2> QED
    BY <2>2, <2>4, <2>5, QuietStep, Zenon
<1>5. CASE PopSeq(t)
  <2>1. /\ at[t] = "pop_seq"
        /\ pos' = pos
        /\ at'[t] \in {"pop_claim", "pop_failed", "pop_load"}
        /\ UNCHANGED <<ring, log>>
        /\ Alone(t) /\ ~Owns(t)
    BY <1>0, <1>5, Zenon DEF PopSeq, QueueTypeOK
  <2>2. pos[t] \in Nat /\ sequence[SlotOf(pos[t])] \in Nat
    BY <1>0, SlotRange, Zenon DEF QueueTypeOK
  <2>3. at'[t] = "pop_claim" => sequence[SlotOf(pos[t])] - (pos[t] + 1) = 0
    BY <1>0, <1>5, Zenon DEF PopSeq, QueueTypeOK
  <2>4. pos[t] <= dequeue_pos
    BY <1>0, <2>1, Zenon DEF Candidates
  <2> HIDE DEF Owns, Alone, Goto
  <2> QED
    BY <2>1, <2>2, <2>3, <2>4, QuietStep
<1> QED
  BY <1>1, <1>2, <1>3, <1>4, <1>5, Zenon

\* The threads that own slots own different ones: their positions lie less
\* than a round apart.
LEMMA OwnersApart == QueueInv => SlotExclusive
<1> SUFFICES ASSUME QueueInv,
                    NEW t \in Threads, NEW u \in Threads, Owns(t), Owns(u),
                    SlotOf(pos[t]) = SlotOf(pos[u])
             PROVE  t = u
  BY Zenon DEF SlotExclusive
<1>0. /\ enqueue_pos \in Nat /\ dequeue_pos \in Nat /\ Capacity \in Nat
      /\ pos[t] \in Nat /\ pos[u] \in Nat
      /\ Bounds /\ Producers /\ Consumers
  BY MPMCQueueAssumption, Zenon DEF QueueInv, QueueTypeOK
<1>1. /\ Pushing(t) \/ Popping(t)
      /\ Pushing(u) \/ Popping(u)
  BY Zenon DEF Owns, Pushing, Popping
<1>2. pos[t] < pos[u] + Capacity /\ pos[u] < pos[t] + Capacity
  BY <1>0, <1>1, SMTT(30) DEF Bounds, Producers, Consumers
<1>3. pos[t] = pos[u]
  BY <1>0, <1>2, SlotWindow, Zenon
<1>4. ~(Pushing(t) /\ Popping(u)) /\ ~(Popping(t) /\ Pushing(u))
  BY <1>0, <1>3 DEF Producers, Consumers
<1> QED
  BY <1>0, <1>1, <1>3, <1>4, Zenon DEF Producers, Consumers

\* What the step proofs below use of the types.
LEMMA Typed ==
  ASSUME QueueInv
  PROVE  /\ enqueue_pos \in Nat /\ dequeue_pos \in Nat
         /\ Capacity \in Nat /\ Capacity > 1
         /\ sequence \in [Slots -> Nat]
         /\ \A t \in Threads : pos[t] \in Nat
         /\ \A p \in Nat : SlotOf(p) \in Slots /\ sequence[SlotOf(p)] \in Nat
         /\ DOMAIN at = Threads /\ DOMAIN data = Slots
         /\ log \in Seq(Values)
BY MPMCQueueAssumption, SlotRange DEF QueueInv, QueueTypeOK

\* The compare_exchange of push() succeeds only when a slot is free, and the
\* consumer of the last round has left it.
LEMMA ClaimIsFree ==
  ASSUME QueueInv, sequence[SlotOf(enqueue_pos)] = enqueue_pos
  PROVE  /\ enqueue_pos < dequeue_pos + Capacity
         /\ \A u \in Threads : Popping(u) => enqueue_pos < pos[u] + Capacity
<1>0. Bounds /\ Filled /\ Consumers
  BY Zenon DEF QueueInv
<1>t. /\ enqueue_pos \in Nat /\ dequeue_pos \in Nat
      /\ Capacity \in Nat /\ Capacity > 1
      /\ \A t \in Threads : pos[t] \in Nat
  BY Typed, Zenon
<1>1. ASSUME enqueue_pos = dequeue_pos + Capacity PROVE FALSE
  <2>1. SlotOf(enqueue_pos) = SlotOf(dequeue_pos)
    BY <1>1, <1>t, SlotRound, Zenon
  <2>2. \/ sequence[SlotOf(dequeue_pos)] = dequeue_pos
        \/ sequence[SlotOf(dequeue_pos)] = dequeue_pos + 1
    BY <1>0, <1>1, <1>t DEF Filled
  <2>3. enqueue_pos = dequeue_pos \/ enqueue_pos = dequeue_pos + 1
    BY <2>1, <2>2, Zenon
  <2> QED
    BY <1>1, <2>3, <1>t
<1>2. ASSUME NEW u \in Threads, Popping(u), enqueue_pos = pos[u] + Capacity
      PROVE  FALSE
  <2>1. SlotOf(enqueue_pos) = SlotOf(pos[u])
    BY <1>2, <1>t, SlotRound, Zenon
  <2>2. sequence[SlotOf(pos[u])] = pos[u] + 1
    BY <1>0, <1>2, Zenon DEF Consumers
  <2>3. enqueue_pos = pos[u] + 1
    BY <2>1, <2>2, Zenon
  <2> QED
    BY <1>2, <2>3, <1>t
<1>3. enqueue_pos < dequeue_pos + Capacity
  BY <1>0, <1>1, <1>t DEF Bounds
<1>4. ASSUME NEW u \in Threads, Popping(u)
      PROVE  enqueue_pos < pos[u] + Capacity
  <2>1. enqueue_pos <= pos[u] + Capacity
    BY <1>0, <1>4, Zenon DEF Consumers
  <2>2. enqueue_pos # pos[u] + Capacity
    BY <1>2, <1>4, Zenon
  <2> QED
    BY <1>t, <2>1, <2>2
<1> QED
  BY <1>3, <1>4, Zenon

\* The compare_exchange of pop() succeeds only on a published slot.
LEMMA ClaimIsPublished ==
  ASSUME QueueInv, sequence[SlotOf(dequeue_pos)] = dequeue_pos + 1
  PROVE  /\ dequeue_pos < enqueue_pos
         /\ data[SlotOf(dequeue_pos)] = log[dequeue_pos + 1]
         /\ \A u \in Threads : Pushing(u) => dequeue_pos < pos[u]
<1>0. Bounds /\ Filled /\ Free /\ Producers
  BY Zenon DEF QueueInv
<1>t. /\ enqueue_pos \in Nat /\ dequeue_pos \in Nat
      /\ Capacity \in Nat /\ Capacity > 1
      /\ \A t \in Threads : pos[t] \in Nat
  BY Typed, Zenon
<1>1. ASSUME dequeue_pos = enqueue_pos PROVE FALSE
  <2>1. \/ sequence[SlotOf(dequeue_pos)] = dequeue_pos
        \/ sequence[SlotOf(dequeue_pos)] = dequeue_pos + 1 - Capacity
    BY <1>0, <1>1, <1>t DEF Free
  <2>2. \/ dequeue_pos + 1 = dequeue_pos
        \/ dequeue_pos + 1 = dequeue_pos + 1 - Capacity
    BY <2>1, Zenon
  <2> QED
    BY <2>2, <1>t
<1>2. dequeue_pos < enqueue_pos
  BY <1>0, <1>1, <1>t DEF Bounds
<1>3. data[SlotOf(dequeue_pos)] = log[dequeue_pos + 1]
  <2>1. \/ data[SlotOf(dequeue_pos)] = log[dequeue_pos + 1]
        \/ sequence[SlotOf(dequeue_pos)] = dequeue_pos
    BY <1>0, <1>2, <1>t DEF Filled
  <2>2. sequence[SlotOf(dequeue_pos)] # dequeue_pos
    BY <1>t
  <2> QED
    BY <2>1, <2>2, Zenon
<1>4. ASSUME NEW u \in Threads, Pushing(u)
      PROVE  dequeue_pos < pos[u]
  <2>1. dequeue_pos <= pos[u] /\ sequence[SlotOf(pos[u])] = pos[u]
    BY <1>0, <1>4, Zenon DEF Producers
  <2>2. dequeue_pos # pos[u]
    BY <2>1, <1>t
  <2> QED
    BY <2>1, <2>2, <1>t
<1> QED
  BY <1>2, <1>3, <1>4, Zenon

LEMMA PushClaimStep ==
  ASSUME QueueInv, NEW t \in Threads, PushClaim(t)
  PROVE  RingInv'
<1>0. Bounds /\ Filled /\ Free /\ Producers /\ Consumers /\ Candidates /\ Advanced
  BY Zenon DEF QueueInv
<1>t. /\ enqueue_pos \in Nat /\ dequeue_pos \in Nat
      /\ Capacity \in Nat /\ Capacity > 1
      /\ \A u \in Threads : pos[u] \in Nat
      /\ log \in Seq(Values) /\ arg[t] \in Values
      /\ DOMAIN at = Threads
  BY Typed, Zenon DEF QueueInv, Carries, PushClaim
<1>1. /\ enqueue_pos' = enqueue_pos + 1
      /\ UNCHANGED <<dequeue_pos, sequence, data, pos, arg>>
      /\ log' = Append(log, arg[t])
      /\ at[t] = "push_claim" /\ pos[t] = enqueue_pos
      /\ at'[t] = "push_data"
      /\ \A u \in Threads : u # t => at'[u] = at[u]
  BY <1>t, Zenon DEF PushClaim, Goto
<1>2. sequence[SlotOf(enqueue_pos)] = enqueue_pos
  BY <1>0, <1>1, Zenon DEF Candidates
<1>3. /\ enqueue_pos < dequeue_pos + Capacity
      /\ \A u \in Threads : Popping(u) => enqueue_pos < pos[u] + Capacity
  BY <1>2, ClaimIsFree, Zenon
<1>4. /\ Len(log) = enqueue_pos
      /\ Len(log') = enqueue_pos + 1
      /\ log'[enqueue_pos + 1] = arg[t]
      /\ \A p \in Nat : p < enqueue_pos => log'[p + 1] = log[p + 1]
  BY <1>0, <1>1, <1>t, AppendFacts DEF Bounds
<1>5. /\ Pushing(t)' /\ ~Pushing(t) /\ ~Popping(t) /\ ~Popping(t)'
      /\ \A u \in Threads : u # t => /\ Pushing(u)' <=> Pushing(u)
                                     /\ Popping(u)' <=> Popping(u)
  BY <1>1, Zenon DEF Pushing, Popping
<1>6. Bounds'
  BY <1>0, <1>1, <1>3, <1>4, <1>t DEF Bounds
<1>7. Filled'
  <2> SUFFICES ASSUME NEW p \in Nat, dequeue_pos <= p, p < enqueue_pos + 1
               PROVE  \/ /\ sequence[SlotOf(p)] = p + 1
                         /\ data[SlotOf(p)] = log'[p + 1]
                      \/ /\ sequence[SlotOf(p)] = p
                         /\ \E u \in Threads : Pushing(u)' /\ pos[u] = p
    BY <1>1, Zenon DEF Filled
  <2>1. CASE p = enqueue_pos
    BY <2>1, <1>1, <1>2, <1>5, Zenon
  <2>2. CASE p # enqueue_pos
    <3>1. p < enqueue_pos
      BY <2>2, <1>t
    <3>2. log'[p + 1] = log[p + 1]
      BY <3>1, <1>4, Zenon
    <3> QED
      BY <1>0, <1>5, <3>1, <3>2, Zenon DEF Filled
  <2> QED
    BY <2>1, <2>2, Zenon
<1>8. Free'
  <2> SUFFICES ASSUME NEW p \in Nat, enqueue_pos + 1 <= p, p < dequeue_pos + Capacity
               PROVE  \/ sequence[SlotOf(p)] = p
                      \/ /\ sequence[SlotOf(p)] = p + 1 - Capacity
                         /\ \E u \in Threads : Popping(u)' /\ pos[u] + Capacity = p
    BY <1>1, Zenon DEF Free
  <2>1. enqueue_pos <= p
    BY <1>t
  <2> QED
    BY <1>0, <1>5, <2>1, Zenon DEF Free
<1>9. Producers'
  <2>1. ASSUME NEW u \in Threads, Pushing(u)'
        PROVE  /\ dequeue_pos <= pos[u] /\ pos[u] < enqueue_pos + 1
               /\ sequence[SlotOf(pos[u])] = pos[u]
               /\ log'[pos[u] + 1] = arg[u]
               /\ at'[u] = "push_publish" => data[SlotOf(pos[u])] = arg[u]
    <3>1. CASE u = t
      BY <3>1, <1>0, <1>1, <1>2, <1>4, <1>t DEF Bounds
    <3>2. CASE u # t
      <4>1. Pushing(u) /\ at'[u] = at[u]
        BY <2>1, <3>2, <1>1, <1>5, Zenon
      <4>2. pos[u] < enqueue_pos
        BY <4>1, <1>0, Zenon DEF Producers
      <4>3. log'[pos[u] + 1] = log[pos[u] + 1]
        BY <4>2, <1>4, <1>t, Zenon
      <4> QED
        BY <1>0, <1>t, <4>1, <4>2, <4>3 DEF Producers
    <3> QED
      BY <3>1, <3>2, Zenon
  <2>2. ASSUME NEW u \in Threads, NEW w \in Threads,
               Pushing(u)', Pushing(w)', pos[u] = pos[w]
        PROVE  u = w
    <3>1. \A x \in Threads : x # t /\ Pushing(x)' => pos[x] < enqueue_pos
      BY <1>0, <1>5, Zenon DEF Producers
    <3> QED
      BY <2>2, <3>1, <1>0, <1>1, <1>5, <1>t, SMTT(30) DEF Producers
  <2> QED
    BY <1>1, <2>1, <2>2, Zenon DEF Producers
<1>10. Consumers'
  <2>1. ASSUME NEW u \in Threads, Popping(u)'
        PROVE  /\ pos[u] < dequeue_pos /\ enqueue_pos + 1 <= pos[u] + Capacity
               /\ sequence[SlotOf(pos[u])] = pos[u] + 1
               /\ at'[u] = "pop_data" => data[SlotOf(pos[u])] = log'[pos[u] + 1]
    <3>1. Popping(u) /\ at'[u] = at[u]
      BY <2>1, <1>1, <1>5, Zenon
    <3>2. pos[u] < dequeue_pos
      BY <3>1, <1>0, Zenon DEF Consumers
    <3>3. log'[pos[u] + 1] = log[pos[u] + 1]
      BY <3>2, <1>0, <1>4, <1>t DEF Bounds
    <3>4. enqueue_pos + 1 <= pos[u] + Capacity
      BY <3>1, <1>3, <1>t
    <3> QED
      BY <1>0, <3>1, <3>2, <3>3, <3>4, Zenon DEF Consumers
  <2>2. ASSUME NEW u \in Threads, NEW w \in Threads,
               Popping(u)', Popping(w)', pos[u] = pos[w]
        PROVE  u = w
    BY <2>2, <1>0, <1>5, Zenon DEF Consumers
  <2> QED
    BY <1>1, <2>1, <2>2, Zenon DEF Consumers
<1>11. Candidates'
  <2>1. ASSUME NEW u \in Threads
        PROVE  /\ at'[u] \in {"push_seq", "push_claim"} => pos[u] <= enqueue_pos
               /\ at'[u] \in {"pop_seq", "pop_claim"} => pos[u] <= dequeue_pos
               /\ at'[u] = "pop_claim" /\ pos[u] = dequeue_pos =>
                    sequence[SlotOf(pos[u])] = pos[u] + 1
    BY <1>0, <1>1, Zenon DEF Candidates
  <2> QED
    BY <2>1, <1>1, <1>t DEF Candidates
<1>12. Advanced'
  <2>1. ASSUME NEW p \in Nat, p < enqueue_pos + 1
        PROVE  sequence[SlotOf(p)] >= p
    <3>1. CASE p = enqueue_pos
      BY <3>1, <1>2, <1>t
    <3>2. CASE p # enqueue_pos
      BY <3>2, <2>1, <1>0, <1>t DEF Advanced
    <3> QED
      BY <3>1, <3>2, Zenon
  <2> QED
    BY <2>1, <1>0, <1>1, Zenon DEF Advanced
<1> QED
  BY <1>6, <1>7, <1>8, <1>9, <1>10, <1>11, <1>12, Zenon DEF RingInv

LEMMA PopClaimStep ==
  ASSUME QueueInv, NEW t \in Threads, PopClaim(t)
  PROVE  RingInv'
<1>0. Bounds /\ Filled /\ Free /\ Producers /\ Consumers /\ Candidates /\ Advanced
  BY Zenon DEF QueueInv
<1>t. /\ enqueue_pos \in Nat /\ dequeue_pos \in Nat
      /\ Capacity \in Nat /\ Capacity > 1
      /\ \A u \in Threads : pos[u] \in Nat
      /\ DOMAIN at = Threads
  BY Typed, Zenon
<1>1. /\ dequeue_pos' = dequeue_pos + 1
      /\ UNCHANGED <<enqueue_pos, sequence, data, pos, arg, log>>
      /\ at[t] = "pop_claim" /\ pos[t] = dequeue_pos
      /\ at'[t] = "pop_data"
      /\ \A u \in Threads : u # t => at'[u] = at[u]
  BY <1>t, Zenon DEF PopClaim, Goto
<1>2. sequence[SlotOf(dequeue_pos)] = dequeue_pos + 1
  BY <1>0, <1>1, Zenon DEF Candidates
<1>3. /\ dequeue_pos < enqueue_pos
      /\ data[SlotOf(dequeue_pos)] = log[dequeue_pos + 1]
      /\ \A u \in Threads : Pushing(u) => dequeue_pos < pos[u]
  BY <1>2, ClaimIsPublished, Zenon
<1>4. /\ Popping(t)' /\ ~Popping(t) /\ ~Pushing(t) /\ ~Pushing(t)'
      /\ \A u \in Threads : u # t => /\ Pushing(u)' <=> Pushing(u)
                                     /\ Popping(u)' <=> Popping(u)
  BY <1>1, Zenon DEF Pushing, Popping
<1>5. Bounds'
  BY <1>0, <1>1, <1>3, <1>t DEF Bounds
<1>6. Filled'
  <2> SUFFICES ASSUME NEW p \in Nat, dequeue_pos + 1 <= p, p < enqueue_pos
               PROVE  \/ /\ sequence[SlotOf(p)] = p + 1
                         /\ data[SlotOf(p)] = log[p + 1]
                      \/ /\ sequence[SlotOf(p)] = p
                         /\ \E u \in Threads : Pushing(u)' /\ pos[u] = p
    BY <1>1, Zenon DEF Filled
  <2>1. dequeue_pos <= p
    BY <1>t
  <2> QED
    BY <1>0, <1>4, <2>1, Zenon DEF Filled
<1>7. Free'
  <2> SUFFICES ASSUME NEW p \in Nat, enqueue_pos <= p, p < dequeue_pos + 1 + Capacity
               PROVE  \/ sequence[SlotOf(p)] = p
                      \/ /\ sequence[SlotOf(p)] = p + 1 - Capacity
                         /\ \E u \in Threads : Popping(u)' /\ pos[u] + Capacity = p
    BY <1>1, Zenon DEF Free
  <2>1. CASE p = dequeue_pos + Capacity
    <3>1. SlotOf(p) = SlotOf(dequeue_pos)
      BY <2>1, <1>t, SlotRound, Zenon
    <3>2. dequeue_pos + 1 = p + 1 - Capacity
      BY <2>1, <1>t
    <3>3. sequence[SlotOf(p)] = p + 1 - Capacity
      BY <3>1, <3>2, <1>2, Zenon
    <3>4. pos[t] + Capacity = p
      BY <1>1, <2>1, Zenon
    <3> QED
      BY <3>3, <3>4, <1>4, Zenon
  <2>2. CASE p # dequeue_pos + Capacity
    <3>1. p < dequeue_pos + Capacity
      BY <2>2, <1>t
    <3> QED
      BY <1>0, <1>4, <3>1, Zenon DEF Free
  <2> QED
    BY <2>1, <2>2, Zenon
<1>8. Producers'
  <2>1. ASSUME NEW u \in Threads, Pushing(u)'
        PROVE  /\ dequeue_pos + 1 <= pos[u] /\ pos[u] < enqueue_pos
               /\ sequence[SlotOf(pos[u])] = pos[u]
               /\ log[pos[u] + 1] = arg[u]
               /\ at'[u] = "push_publish" => data[SlotOf(pos[u])] = arg[u]
    <3>1. Pushing(u) /\ at'[u] = at[u]
      BY <2>1, <1>1, <1>4, Zenon
    <3>2. dequeue_pos + 1 <= pos[u]
      BY <3>1, <1>3, <1>t
    <3> QED
      BY <1>0, <3>1, <3>2, Zenon DEF Producers
  <2>2. ASSUME NEW u \in Threads, NEW w \in Threads,
               Pushing(u)', Pushing(w)', pos[u] = pos[w]
        PROVE  u = w
    BY <2>2, <1>0, <1>4, Zenon DEF Producers
  <2> QED
    BY <1>1, <2>1, <2>2, Zenon DEF Producers
<1>9. Consumers'
  <2>1. ASSUME NEW u \in Threads, Popping(u)'
        PROVE  /\ pos[u] < dequeue_pos + 1 /\ enqueue_pos <= pos[u] + Capacity
               /\ sequence[SlotOf(pos[u])] = pos[u] + 1
               /\ at'[u] = "pop_data" => data[SlotOf(pos[u])] = log[pos[u] + 1]
    <3>1. CASE u = t
      BY <3>1, <1>0, <1>1, <1>2, <1>3, <1>t DEF Bounds
    <3>2. CASE u # t
      <4>1. Popping(u) /\ at'[u] = at[u]
        BY <2>1, <3>2, <1>1, <1>4, Zenon
      <4> QED
        BY <1>0, <1>t, <4>1 DEF Consumers
    <3> QED
      BY <3>1, <3>2, Zenon
  <2>2. ASSUME NEW u \in Threads, NEW w \in Threads,
               Popping(u)', Popping(w)', pos[u] = pos[w]
        PROVE  u = w
    <3>1. \A x \in Threads : x # t /\ Popping(x)' => pos[x] < dequeue_pos
      BY <1>0, <1>4, Zenon DEF Consumers
    <3> QED
      BY <2>2, <3>1, <1>0, <1>1, <1>4, <1>t DEF Consumers
  <2> QED
    BY <1>1, <2>1, <2>2, Zenon DEF Consumers
<1>10. Candidates'
  <2>1. ASSUME NEW u \in Threads
        PROVE  /\ at'[u] \in {"push_seq", "push_claim"} => pos[u] <= enqueue_pos
               /\ at'[u] = "push_claim" /\ pos[u] = enqueue_pos =>
                    sequence[SlotOf(pos[u])] = pos[u]
               /\ at'[u] \in {"pop_seq", "pop_claim"} => pos[u] <= dequeue_pos
    BY <1>0, <1>1, Zenon DEF Candidates
  <2> QED
    BY <2>1, <1>1, <1>t DEF Candidates
<1>11. Advanced'
  <2>1. ASSUME NEW p \in Nat, p < dequeue_pos + 1
        PROVE  sequence[SlotOf(p)] >= p + 1
    <3>1. CASE p = dequeue_pos
      BY <3>1, <1>2, <1>t
    <3>2. CASE p # dequeue_pos
      BY <3>2, <2>1, <1>0, <1>t DEF Advanced
    <3> QED
      BY <3>1, <3>2, Zenon
  <2> QED
    BY <2>1, <1>0, <1>1, Zenon DEF Advanced
<1> QED
  BY <1>5, <1>6, <1>7, <1>8, <1>9, <1>10, <1>11, Zenon DEF RingInv

\* A step of the owner of a slot that changes only the data of that slot.
LEMMA DataStep ==
  ASSUME QueueInv, NEW t \in Threads, PushData(t) \/ PopData(t)
  PROVE  RingInv'
<1>0. Bounds /\ Filled /\ Free /\ Producers /\ Consumers /\ Candidates /\ Advanced
  BY Zenon DEF QueueInv
<1>t. /\ enqueue_pos \in Nat /\ dequeue_pos \in Nat
      /\ Capacity \in Nat /\ Capacity > 1
      /\ \A u \in Threads : pos[u] \in Nat
      /\ \A p \in Nat : SlotOf(p) \in Slots
      /\ DOMAIN at = Threads /\ DOMAIN data = Slots
  BY Typed, Zenon
<1>1. /\ UNCHANGED <<enqueue_pos, dequeue_pos, sequence, pos, arg, log>>
      /\ \A u \in Threads : u # t => at'[u] = at[u]
      /\ \/ at[t] = "push_data" /\ at'[t] = "push_publish"
         \/ at[t] = "pop_data" /\ at'[t] = "pop_free"
  BY <1>t, Zenon DEF PushData, PopData, Goto
<1>2. /\ \A i \in Slots : i # SlotOf(pos[t]) => data'[i] = data[i]
      /\ at[t] = "push_data" => data'[SlotOf(pos[t])] = arg[t]
  BY <1>t, Zenon DEF PushData, PopData
<1>3. /\ Owns(t)
      /\ \A u \in Threads : /\ Pushing(u)' <=> Pushing(u)
                            /\ Popping(u)' <=> Popping(u)
                            /\ Pushing(u) \/ Popping(u) => Owns(u)
  BY <1>1, Zenon DEF Pushing, Popping, Owns
<1>4. \A u \in Threads : u # t /\ (Pushing(u) \/ Popping(u)) =>
        data'[SlotOf(pos[u])] = data[SlotOf(pos[u])]
  BY <1>2, <1>3, <1>t, OwnersApart, Zenon DEF SlotExclusive
<1>5. Filled'
  <2>1. ASSUME NEW p \in Nat, dequeue_pos <= p, p < enqueue_pos,
               sequence[SlotOf(p)] = p + 1
        PROVE  SlotOf(p) # SlotOf(pos[t])
    <3>1. CASE Pushing(t)
      <4>1. /\ dequeue_pos <= pos[t] /\ pos[t] < enqueue_pos
            /\ sequence[SlotOf(pos[t])] = pos[t]
        BY <3>1, <1>0, Zenon DEF Producers
      <4>2. p < pos[t] + Capacity /\ pos[t] < p + Capacity
        BY <2>1, <4>1, <1>0, <1>t DEF Bounds
      <4>3. SlotOf(p) = SlotOf(pos[t]) => p = pos[t]
        BY <4>2, <1>t, SlotWindow, Zenon
      <4>4. p # p + 1
        OBVIOUS
      <4> QED
        BY <2>1, <4>1, <4>3, <4>4, Zenon
    <3>2. CASE Popping(t)
      <4>1. pos[t] < dequeue_pos /\ enqueue_pos <= pos[t] + Capacity
        BY <3>2, <1>0, Zenon DEF Consumers
      <4>2. p < pos[t] + Capacity /\ pos[t] < p + Capacity /\ p # pos[t]
        BY <2>1, <4>1, <1>t
      <4> QED
        BY <4>2, <1>t, SlotWindow, Zenon
    <3> QED
      BY <3>1, <3>2, <1>1, Zenon DEF Pushing, Popping
  <2>2. ASSUME NEW p \in Nat, dequeue_pos <= p, p < enqueue_pos
        PROVE  \/ /\ sequence[SlotOf(p)] = p + 1
                  /\ data'[SlotOf(p)] = log[p + 1]
               \/ /\ sequence[SlotOf(p)] = p
                  /\ \E u \in Threads : Pushing(u)' /\ pos[u] = p
    <3>1. CASE /\ sequence[SlotOf(p)] = p + 1
               /\ data[SlotOf(p)] = log[p + 1]
      BY <2>1, <2>2, <3>1, <1>2, <1>t, Zenon
    <3>2. CASE /\ sequence[SlotOf(p)] = p
               /\ \E u \in Threads : Pushing(u) /\ pos[u] = p
      BY <3>2, <1>3, Zenon
    <3> QED
      BY <2>2, <3>1, <3>2, <1>0, Zenon DEF Filled
  <2> QED
    BY <2>2, <1>1, Zenon DEF Filled
<1>6. Free'
  BY <1>0, <1>1, <1>3, Zenon DEF Free
<1>7. Producers'
  <2>1. ASSUME NEW u \in Threads, Pushing(u), at'[u] = "push_publish"
        PROVE  data'[SlotOf(pos[u])] = arg[u]
    <3>1. CASE u = t
      BY <2>1, <3>1, <1>1, <1>2, Zenon
    <3>2. CASE u # t
      BY <2>1, <3>2, <1>0, <1>1, <1>4, Zenon DEF Producers
    <3> QED
      BY <3>1, <3>2, Zenon
  <2> QED
    BY <2>1, <1>0, <1>1, <1>3, Zenon DEF Producers
<1>8. Consumers'
  <2>1. ASSUME NEW u \in Threads, Popping(u), at'[u] = "pop_data"
        PROVE  data'[SlotOf(pos[u])] = log[pos[u] + 1]
    BY <2>1, <1>0, <1>1, <1>4, Zenon DEF Consumers
  <2> QED
    BY <2>1, <1>0, <1>1, <1>3, Zenon DEF Consumers
<1>9. Candidates'
  BY <1>0, <1>1, Zenon DEF Candidates
<1> QED
  BY <1>0, <1>1, <1>5, <1>6, <1>7, <1>8, <1>9, Zenon DEF RingInv, Bounds, Advanced

\* The store of the sequence hands the slot to the consumers.
LEMMA PushPublishStep ==
  ASSUME QueueInv, NEW t \in Threads, PushPublish(t)
  PROVE  RingInv'
<1>0. Bounds /\ Filled /\ Free /\ Producers /\ Consumers /\ Candidates /\ Advanced
  BY Zenon DEF QueueInv
<1>t. /\ enqueue_pos \in Nat /\ dequeue_pos \in Nat
      /\ Capacity \in Nat /\ Capacity > 1
      /\ \A u \in Threads : pos[u] \in Nat
      /\ \A p \in Nat : SlotOf(p) \in Slots /\ sequence[SlotOf(p)] \in Nat
      /\ DOMAIN at = Threads /\ DOMAIN sequence = Slots
  BY Typed, Zenon
<1>1. /\ UNCHANGED <<enqueue_pos, dequeue_pos, data, pos, arg, log>>
      /\ at[t] = "push_publish" /\ at'[t] = "push_ok"
      /\ \A u \in Threads : u # t => at'[u] = at[u]
  BY <1>t, Zenon DEF PushPublish, Goto
<1>2. /\ \A i \in Slots : i # SlotOf(pos[t]) => sequence'[i] = sequence[i]
      /\ sequence'[SlotOf(pos[t])] = pos[t] + 1
  BY <1>t, Zenon DEF PushPublish
<1>3. /\ Pushing(t) /\ ~Pushing(t)' /\ ~Popping(t) /\ ~Popping(t)'
      /\ \A u \in Threads : u # t => /\ Pushing(u)' <=> Pushing(u)
                                     /\ Popping(u)' <=> Popping(u)
  BY <1>1, Zenon DEF Pushing, Popping
<1>4. \A u \in Threads : u # t /\ (Pushing(u) \/ Popping(u)) =>
        sequence'[SlotOf(pos[u])] = sequence[SlotOf(pos[u])]
  <2>1. Owns(t) /\ \A u \in Threads : Pushing(u) \/ Popping(u) => Owns(u)
    BY <1>1, Zenon DEF Owns, Pushing, Popping
  <2> QED
    BY <2>1, <1>2, <1>t, OwnersApart, Zenon DEF SlotExclusive
<1>5. /\ dequeue_pos <= pos[t] /\ pos[t] < enqueue_pos
      /\ enqueue_pos <= dequeue_pos + Capacity
      /\ sequence[SlotOf(pos[t])] = pos[t]
      /\ data[SlotOf(pos[t])] = log[pos[t] + 1]
  BY <1>0, <1>1, <1>3, Zenon DEF Producers, Bounds
<1>p. ASSUME NEW p \in Nat, dequeue_pos <= p, p < dequeue_pos + Capacity, p # pos[t]
      PROVE  SlotOf(p) # SlotOf(pos[t])
  <2>1. p < pos[t] + Capacity /\ pos[t] < p + Capacity
    BY <1>p, <1>5, <1>t
  <2> QED
    BY <2>1, <1>p, <1>t, SlotWindow, Zenon
<1>6. Filled'
  <2>1. ASSUME NEW p \in Nat, dequeue_pos <= p, p < enqueue_pos
        PROVE  \/ /\ sequence'[SlotOf(p)] = p + 1
                  /\ data[SlotOf(p)] = log[p + 1]
               \/ /\ sequence'[SlotOf(p)] = p
                  /\ \E u \in Threads : Pushing(u)' /\ pos[u] = p
    <3>1. CASE p = pos[t]
      BY <3>1, <1>2, <1>5, Zenon
    <3>2. CASE p # pos[t]
      <4>1. p < dequeue_pos + Capacity
        BY <2>1, <1>5, <1>t
      <4>2. sequence'[SlotOf(p)] = sequence[SlotOf(p)]
        BY <2>1, <3>2, <4>1, <1>p, <1>2, <1>t, Zenon
      <4>3. \A u \in Threads : Pushing(u) /\ pos[u] = p => Pushing(u)'
        BY <3>2, <1>3, Zenon
      <4> QED
        BY <2>1, <4>2, <4>3, <1>0, Zenon DEF Filled
    <3> QED
      BY <3>1, <3>2, Zenon
  <2> QED
    BY <2>1, <1>1, Zenon DEF Filled
<1>7. Free'
  <2>1. ASSUME NEW p \in Nat, enqueue_pos <= p, p < dequeue_pos + Capacity
        PROVE  sequence'[SlotOf(p)] = sequence[SlotOf(p)]
    <3>1. dequeue_pos <= p /\ p # pos[t]
      BY <2>1, <1>5, <1>t, SMTT(30)
    <3> QED
      BY <2>1, <3>1, <1>p, <1>2, <1>t, Zenon
  <2> QED
    BY <2>1, <1>0, <1>1, <1>3, Zenon DEF Free
<1>8. Producers'
  BY <1>0, <1>1, <1>3, <1>4, SMTT(30) DEF Producers
<1>9. Consumers'
  BY <1>0, <1>1, <1>3, <1>4, Zenon DEF Consumers
<1>10. Candidates'
  <2>1. ASSUME NEW u \in Threads, at[u] = "push_claim", pos[u] = enqueue_pos
        PROVE  SlotOf(pos[u]) # SlotOf(pos[t])
    <3>1. sequence[SlotOf(pos[u])] = enqueue_pos
      BY <2>1, <1>0, Zenon DEF Candidates
    <3>2. enqueue_pos # pos[t]
      BY <1>5, <1>t
    <3> QED
      BY <3>1, <3>2, <1>5, Zenon
  <2>2. ASSUME NEW u \in Threads, at[u] = "pop_claim", pos[u] = dequeue_pos
        PROVE  SlotOf(pos[u]) # SlotOf(pos[t])
    <3>1. sequence[SlotOf(pos[u])] = dequeue_pos + 1
      BY <2>2, <1>0, Zenon DEF Candidates
    <3>2. SlotOf(pos[u]) = SlotOf(pos[t]) => dequeue_pos = pos[t]
      BY <2>2, <1>p, <1>t
    <3>3. dequeue_pos # dequeue_pos + 1
      BY <1>t
    <3> QED
      BY <3>1, <3>2, <3>3, <1>5, Zenon
  <2>3. ASSUME NEW u \in Threads
        PROVE  /\ at'[u] = "push_claim" /\ pos[u] = enqueue_pos =>
                    sequence'[SlotOf(pos[u])] = pos[u]
               /\ at'[u] = "pop_claim" /\ pos[u] = dequeue_pos =>
                    sequence'[SlotOf(pos[u])] = pos[u] + 1
    BY <2>1, <2>2, <1>0, <1>1, <1>2, <1>t DEF Candidates
  <2> QED
    BY <2>3, <1>0, <1>1, Zenon DEF Candidates
<1>11. Advanced'
  <2>1. \A p \in Nat : sequence'[SlotOf(p)] >= sequence[SlotOf(p)]
    <3>1. ASSUME NEW p \in Nat
          PROVE  sequence'[SlotOf(p)] >= sequence[SlotOf(p)]
      <4>1. CASE SlotOf(p) = SlotOf(pos[t])
        BY <4>1, <1>2, <1>5, <1>t
      <4>2. CASE SlotOf(p) # SlotOf(pos[t])
        BY <4>2, <1>2, <1>t
      <4> QED
        BY <4>1, <4>2, Zenon
    <3> QED
      BY <3>1, Zenon
  <2>2. \A p \in Nat : sequence'[SlotOf(p)] \in Nat
    <3>1. ASSUME NEW p \in Nat
          PROVE  sequence'[SlotOf(p)] \in Nat
      <4>1. CASE SlotOf(p) = SlotOf(pos[t])
        BY <4>1, <1>2, <1>t
      <4>2. CASE SlotOf(p) # SlotOf(pos[t])
        BY <4>2, <1>2, <1>t, Zenon
      <4> QED
        BY <4>1, <4>2, Zenon
    <3> QED
      BY <3>1, Zenon
  <2>3. ASSUME NEW p \in Nat
        PROVE  /\ p < enqueue_pos => sequence'[SlotOf(p)] >= p
               /\ p < dequeue_pos => sequence'[SlotOf(p)] >= p + 1
    BY <2>1, <2>2, <1>0, <1>t DEF Advanced
  <2> QED
    BY <2>3, <1>1, Zenon DEF Advanced
<1> QED
  BY <1>0, <1>1, <1>6, <1>7, <1>8, <1>9, <1>10, <1>11, Zenon DEF RingInv, Bounds

\* The store of the sequence hands the slot to the producers of the next
\* round.
LEMMA PopFreeStep ==
  ASSUME QueueInv, NEW t \in Threads, PopFree(t)
  PROVE  RingInv'
<1>0. Bounds /\ Filled /\ Free /\ Producers /\ Consumers /\ Candidates /\ Advanced
  BY Zenon DEF QueueInv
<1>t. /\ enqueue_pos \in Nat /\ dequeue_pos \in Nat
      /\ Capacity \in Nat /\ Capacity > 1
      /\ \A u \in Threads : pos[u] \in Nat
      /\ \A p \in Nat : SlotOf(p) \in Slots /\ sequence[SlotOf(p)] \in Nat
      /\ DOMAIN at = Threads /\ DOMAIN sequence = Slots
  BY Typed, Zenon
<1>1. /\ UNCHANGED <<enqueue_pos, dequeue_pos, data, pos, arg, log>>
      /\ at[t] = "pop_free" /\ at'[t] = "pop_ok"
      /\ \A u \in Threads : u # t => at'[u] = at[u]
  BY <1>t, Zenon DEF PopFree, Goto
<1>2. /\ \A i \in Slots : i # SlotOf(pos[t]) => sequence'[i] = sequence[i]
      /\ sequence'[SlotOf(pos[t])] = pos[t] + Capacity
  BY <1>t, Zenon DEF PopFree
<1>3. /\ Popping(t) /\ ~Popping(t)' /\ ~Pushing(t) /\ ~Pushing(t)'
      /\ \A u \in Threads : u # t => /\ Pushing(u)' <=> Pushing(u)
                                     /\ Popping(u)' <=> Popping(u)
  BY <1>1, Zenon DEF Pushing, Popping
<1>4. \A u \in Threads : u # t /\ (Pushing(u) \/ Popping(u)) =>
        sequence'[SlotOf(pos[u])] = sequence[SlotOf(pos[u])]
  <2>1. Owns(t) /\ \A u \in Threads : Pushing(u) \/ Popping(u) => Owns(u)
    BY <1>1, Zenon DEF Owns, Pushing, Popping
  <2> QED
    BY <2>1, <1>2, <1>t, OwnersApart, Zenon DEF SlotExclusive
<1>5. /\ pos[t] < dequeue_pos /\ enqueue_pos <= pos[t] + Capacity
      /\ dequeue_pos <= enqueue_pos
      /\ sequence[SlotOf(pos[t])] = pos[t] + 1
      /\ SlotOf(pos[t] + Capacity) = SlotOf(pos[t])
  BY <1>0, <1>3, <1>t, SlotRound, Zenon DEF Consumers, Bounds
<1>p. ASSUME NEW p \in Nat, dequeue_pos <= p, p < dequeue_pos + Capacity,
             p # pos[t] + Capacity
      PROVE  SlotOf(p) # SlotOf(pos[t])
  <2>1. CASE p < pos[t] + Capacity
    <3>1. pos[t] < p + Capacity /\ p # pos[t]
      BY <1>p, <1>5, <1>t
    <3> QED
      BY <2>1, <3>1, <1>t, SlotWindow, Zenon
  <2>2. CASE pos[t] + Capacity < p
    <3>1. /\ pos[t] + Capacity \in Nat
          /\ p < (pos[t] + Capacity) + Capacity
          /\ pos[t] + Capacity < p + Capacity
      BY <1>p, <2>2, <1>5, <1>t
    <3>2. SlotOf(p) # SlotOf(pos[t] + Capacity)
      BY <1>p, <3>1, SlotWindow, Zenon
    <3> QED
      BY <3>2, <1>5, Zenon
  <2> QED
    BY <1>p, <2>1, <2>2, <1>t
<1>6. Filled'
  <2>1. ASSUME NEW p \in Nat, dequeue_pos <= p, p < enqueue_pos
        PROVE  sequence'[SlotOf(p)] = sequence[SlotOf(p)]
    <3>1. p < dequeue_pos + Capacity /\ p # pos[t] + Capacity
      BY <2>1, <1>5, <1>t
    <3> QED
      BY <2>1, <3>1, <1>p, <1>2, <1>t, Zenon
  <2> QED
    BY <2>1, <1>0, <1>1, <1>3, Zenon DEF Filled
<1>7. Free'
  <2>1. ASSUME NEW p \in Nat, enqueue_pos <= p, p < dequeue_pos + Capacity
        PROVE  \/ sequence'[SlotOf(p)] = p
               \/ /\ sequence'[SlotOf(p)] = p + 1 - Capacity
                  /\ \E u \in Threads : Popping(u)' /\ pos[u] + Capacity = p
    <3>1. CASE p = pos[t] + Capacity
      BY <3>1, <1>2, <1>5, Zenon
    <3>2. CASE p # pos[t] + Capacity
      <4>1. dequeue_pos <= p
        BY <2>1, <1>5, <1>t
      <4>2. sequence'[SlotOf(p)] = sequence[SlotOf(p)]
        BY <2>1, <3>2, <4>1, <1>p, <1>2, <1>t, Zenon
      <4>3. \A u \in Threads : Popping(u) /\ pos[u] + Capacity = p => Popping(u)'
        BY <3>2, <1>3, Zenon
      <4> QED
        BY <2>1, <4>2, <4>3, <1>0, Zenon DEF Free
    <3> QED
      BY <3>1, <3>2, Zenon
  <2> QED
    BY <2>1, <1>1, Zenon DEF Free
<1>8. Producers'
  BY <1>0, <1>1, <1>3, <1>4, SMTT(30) DEF Producers
<1>9. Consumers'
  BY <1>0, <1>1, <1>3, <1>4, Zenon DEF Consumers
<1>10. Candidates'
  <2>1. ASSUME NEW u \in Threads, at[u] = "push_claim", pos[u] = enqueue_pos
        PROVE  SlotOf(pos[u]) # SlotOf(pos[t])
    <3>1. sequence[SlotOf(pos[u])] = enqueue_pos
      BY <2>1, <1>0, Zenon DEF Candidates
    <3>2. SlotOf(pos[u]) = SlotOf(pos[t]) => enqueue_pos = pos[t] + 1
      BY <3>1, <1>5, Zenon
    <3>3. SlotOf(enqueue_pos) = SlotOf(pos[t]) => enqueue_pos >= pos[t] + Capacity
      <4>1. pos[t] < enqueue_pos + Capacity /\ pos[t] # enqueue_pos
        BY <1>5, <1>t
      <4>2. enqueue_pos < pos[t] + Capacity => SlotOf(enqueue_pos) # SlotOf(pos[t])
        BY <4>1, <1>t, SlotWindow, Zenon
      <4> QED
        BY <4>2, <1>t
    <3> QED
      BY <2>1, <3>2, <3>3, <1>t
  <2>2. ASSUME NEW u \in Threads, at[u] = "pop_claim", pos[u] = dequeue_pos
        PROVE  SlotOf(pos[u]) # SlotOf(pos[t])
    <3>1. sequence[SlotOf(pos[u])] = dequeue_pos + 1
      BY <2>2, <1>0, Zenon DEF Candidates
    <3>2. dequeue_pos + 1 # pos[t] + 1
      BY <1>5, <1>t, SMTT(30)
    <3> QED
      BY <3>1, <3>2, <1>5, Zenon
  <2>3. ASSUME NEW u \in Threads
        PROVE  /\ at'[u] = "push_claim" /\ pos[u] = enqueue_pos =>
                    sequence'[SlotOf(pos[u])] = pos[u]
               /\ at'[u] = "pop_claim" /\ pos[u] = dequeue_pos =>
                    sequence'[SlotOf(pos[u])] = pos[u] + 1
    BY <2>1, <2>2, <1>0, <1>1, <1>2, <1>t, SMTT(30) DEF Candidates
  <2> QED
    BY <2>3, <1>0, <1>1, Zenon DEF Candidates
<1>11. Advanced'
  <2>1. \A p \in Nat : sequence'[SlotOf(p)] >= sequence[SlotOf(p)]
    <3>1. ASSUME NEW p \in Nat
          PROVE  sequence'[SlotOf(p)] >= sequence[SlotOf(p)]
      <4>1. CASE SlotOf(p) = SlotOf(pos[t])
        BY <4>1, <1>2, <1>5, <1>t, SMTT(30)
      <4>2. CASE SlotOf(p) # SlotOf(pos[t])
        BY <4>2, <1>2, <1>t
      <4> QED
        BY <4>1, <4>2, Zenon
    <3> QED
      BY <3>1, Zenon
  <2>2. \A p \in Nat : sequence'[SlotOf(p)] \in Nat
    <3>1. ASSUME NEW p \in Nat
          PROVE  sequence'[SlotOf(p)] \in Nat
      <4>1. CASE SlotOf(p) = SlotOf(pos[t])
        BY <4>1, <1>2, <1>t
      <4>2. CASE SlotOf(p) # SlotOf(pos[t])
        BY <4>2, <1>2, <1>t, Zenon
      <4> QED
        BY <4>1, <4>2, Zenon
    <3> QED
      BY <3>1, Zenon
  <2>3. ASSUME NEW p \in Nat
        PROVE  /\ p < enqueue_pos => sequence'[SlotOf(p)] >= p
               /\ p < dequeue_pos => sequence'[SlotOf(p)] >= p + 1
    BY <2>1, <2>2, <1>0, <1>t DEF Advanced
  <2> QED
    BY <2>3, <1>1, Zenon DEF Advanced
<1> QED
  BY <1>0, <1>1, <1>6, <1>7, <1>8, <1>9, <1>10, <1>11, Zenon DEF RingInv, Bounds

LEMMA QueueInvStep == QueueInv /\ [QueueNext]_queueVars => QueueInv'
<1> SUFFICES ASSUME QueueInv, [QueueNext]_queueVars
             PROVE  QueueInv'
  BY Zenon
<1>1. QueueTypeOK' /\ Carries'
  BY QueueTypeStep, Zenon DEF QueueInv
<1>2. RingInv'
  <2>1. CASE UNCHANGED queueVars
    <3>1. UNCHANGED <<enqueue_pos, dequeue_pos, sequence, data, at, pos, arg, log>>
      BY <2>1, Zenon DEF queueVars, ring, calls
    <3>2. RingInv
      BY Zenon DEF QueueInv, RingInv
    <3>3. Bounds' /\ Candidates' /\ Advanced'
      BY <3>1, <3>2, Zenon DEF RingInv, Bounds, Candidates, Advanced
    <3>4. Filled' /\ Free'
      BY <3>1, <3>2, SMTT(30) DEF RingInv, Filled, Free, Pushing, Popping
    <3>5. Producers'
      BY <3>1, <3>2, Zenon DEF RingInv, Producers, Pushing
    <3>6. Consumers'
      BY <3>1, <3>2, Zenon DEF RingInv, Consumers, Popping
    <3> QED
      BY <3>3, <3>4, <3>5, <3>6, Zenon DEF RingInv
  <2>2. ASSUME NEW t \in Threads,
               \/ \E v \in Values : Push(t, v)
               \/ Pop(t) \/ PushStep(t) \/ PopStep(t) \/ Return(t)
        PROVE  RingInv'
    BY <2>2, QuietSteps, PushClaimStep, PopClaimStep, DataStep, PushPublishStep,
      PopFreeStep, Zenon DEF PushStep, PopStep
  <2> QED
    BY <2>1, <2>2, Zenon DEF QueueNext
<1> QED
  BY <1>1, <1>2, Zenon DEF QueueInv, RingInv

LEMMA QueueInvHolds == QueueSpec => []QueueInv
BY QueueInvInit, QueueInvStep, PTL DEF QueueSpec

\* The queue keeps its types whatever the threads do.
THEOREM QueueTypeCorrect == QueueSpec => []QueueTypeOK
<1>1. QueueInv => QueueTypeOK
  BY Zenon DEF QueueInv
<1> QED
  BY <1>1, QueueInvHolds, PTL

\* Slot::data has one owner at a time: a producer from its compare_exchange to
\* its store of the sequence, then a consumer from and to the same points.
THEOREM SlotsExclusive == QueueSpec => []SlotExclusive
BY OwnersApart, QueueInvHolds, PTL

----------------------------------------------------------------------------
(* Failures.                                                               *)

LEMMA PushFailsRightly ==
  ASSUME QueueInv, NEW t \in Threads, at[t] = "push_seq",
         sequence[SlotOf(pos[t])] < pos[t]
  PROVE  \/ enqueue_pos = dequeue_pos + Capacity
         \/ \E u \in Threads : /\ at[u] \in {"pop_data", "pop_free"}
                               /\ pos[u] + Capacity = enqueue_pos
<1>0. Bounds /\ Free /\ Candidates /\ Advanced
  BY Zenon DEF QueueInv
<1>t. /\ enqueue_pos \in Nat /\ dequeue_pos \in Nat /\ Capacity \in Nat
      /\ pos[t] \in Nat /\ sequence[SlotOf(pos[t])] \in Nat
  BY Typed, Zenon
<1>1. pos[t] = enqueue_pos
  <2>1. pos[t] <= enqueue_pos
    BY <1>0, Zenon DEF Candidates
  <2>2. ~(pos[t] < enqueue_pos)
    BY <1>0, <1>t DEF Advanced
  <2> QED
    BY <2>1, <2>2, <1>t
<1>2. sequence[SlotOf(enqueue_pos)] # enqueue_pos
  BY <1>1, <1>t
<1>3. CASE enqueue_pos < dequeue_pos + Capacity
  <2>1. \E u \in Threads : Popping(u) /\ pos[u] + Capacity = enqueue_pos
    BY <1>0, <1>2, <1>3, <1>t DEF Free
  <2> QED
    BY <2>1, Zenon DEF Popping
<1> QED
  BY <1>0, <1>3, <1>t DEF Bounds

LEMMA PopFailsRightly ==
  ASSUME QueueInv, NEW t \in Threads, at[t] = "pop_seq",
         sequence[SlotOf(pos[t])] < pos[t] + 1
  PROVE  \/ enqueue_pos = dequeue_pos
         \/ \E u \in Threads : /\ at[u] \in {"push_data", "push_publish"}
                               /\ pos[u] = dequeue_pos
<1>0. Bounds /\ Filled /\ Candidates /\ Advanced
  BY Zenon DEF QueueInv
<1>t. /\ enqueue_pos \in Nat /\ dequeue_pos \in Nat
      /\ pos[t] \in Nat /\ sequence[SlotOf(pos[t])] \in Nat
  BY Typed, Zenon
<1>1. pos[t] = dequeue_pos
  <2>1. pos[t] <= dequeue_pos
    BY <1>0, Zenon DEF Candidates
  <2>2. ~(pos[t] < dequeue_pos)
    BY <1>0, <1>t DEF Advanced
  <2> QED
    BY <2>1, <2>2, <1>t
<1>2. sequence[SlotOf(dequeue_pos)] # dequeue_pos + 1
  BY <1>1, <1>t
<1>3. CASE dequeue_pos < enqueue_pos
  <2>1. \E u \in Threads : Pushing(u) /\ pos[u] = dequeue_pos
    BY <1>0, <1>2, <1>3, <1>t DEF Filled
  <2> QED
    BY <2>1, Zenon DEF Pushing
<1> QED
  BY <1>0, <1>3, <1>t DEF Bounds

\* A thread reaches a failed return only by its own test of the sequence.
LEMMA FailingStep ==
  ASSUME QueueInv, [QueueNext]_queueVars, NEW t \in Threads
  PROVE  /\ at[t] = "push_seq" /\ at'[t] = "push_failed" => PushSeq(t)
         /\ at[t] = "pop_seq" /\ at'[t] = "pop_failed" => PopSeq(t)
<1>0. DOMAIN at = Threads
  BY Typed, Zenon
<1>1. CASE UNCHANGED queueVars
  BY <1>1, Zenon DEF queueVars, calls
<1>2. ASSUME NEW u \in Threads,
             \/ \E v \in Values : Push(u, v)
             \/ Pop(u) \/ PushStep(u) \/ PopStep(u) \/ Return(u)
      PROVE  /\ at[t] = "push_seq" /\ at'[t] = "push_failed" => PushSeq(t)
             /\ at[t] = "pop_seq" /\ at'[t] = "pop_failed" => PopSeq(t)
  <2>1. PICK place : at' = [at EXCEPT ![u] = place]
    BY <1>2, Zenon DEF Push, Pop, PushStep, PushLoad, PushSeq, PushClaim, PushMiss,
      PushData, PushPublish, PopStep, PopLoad, PopSeq, PopClaim, PopMiss, PopData,
      PopFree, Return, Goto
  <2>2. u # t => at'[t] = at[t]
    BY <2>1, <1>0, Zenon
  <2>3. at[u] = "push_seq" => PushSeq(u)
    BY <1>2, Zenon DEF Push, Pop, PushStep, PushLoad, PushClaim, PushMiss, PushData,
      PushPublish, PopStep, PopLoad, PopSeq, PopClaim, PopMiss, PopData, PopFree,
      Return, Returned
  <2>4. at[u] = "pop_seq" => PopSeq(u)
    BY <1>2, Zenon DEF Push, Pop, PushStep, PushLoad, PushSeq, PushClaim, PushMiss,
      PushData, PushPublish, PopStep, PopLoad, PopClaim, PopMiss, PopData, PopFree,
      Return, Returned
  <2> QED
    BY <2>2, <2>3, <2>4, Zenon
<1> QED
  BY <1>1, <1>2, Zenon DEF QueueNext

\* push() and pop() fail only on a full or an empty ring, or when the next
\* slot is still held by the thread that claimed it before: never because a
\* relaxed load of the position returned an old value.
THEOREM FailsForReason == QueueSpec => FailsRightly
<1>1. ASSUME QueueInv, [QueueNext]_queueVars
      PROVE  \A t \in Threads :
               /\ at[t] = "push_seq" /\ at'[t] = "push_failed" =>
                    \/ enqueue_pos = dequeue_pos + Capacity
                    \/ \E u \in Threads : /\ at[u] \in {"pop_data", "pop_free"}
                                          /\ pos[u] + Capacity = enqueue_pos
               /\ at[t] = "pop_seq" /\ at'[t] = "pop_failed" =>
                    \/ enqueue_pos = dequeue_pos
                    \/ \E u \in Threads : /\ at[u] \in {"push_data", "push_publish"}
                                          /\ pos[u] = dequeue_pos
  <2> SUFFICES ASSUME NEW t \in Threads
               PROVE  /\ at[t] = "push_seq" /\ at'[t] = "push_failed" =>
                           \/ enqueue_pos = dequeue_pos + Capacity
                           \/ \E u \in Threads : /\ at[u] \in {"pop_data", "pop_free"}
                                                 /\ pos[u] + Capacity = enqueue_pos
                      /\ at[t] = "pop_seq" /\ at'[t] = "pop_failed" =>
                           \/ enqueue_pos = dequeue_pos
                           \/ \E u \in Threads :
                                /\ at[u] \in {"push_data", "push_publish"}
                                /\ pos[u] = dequeue_pos
    BY Zenon
  <2>t. /\ pos[t] \in Nat /\ sequence[SlotOf(pos[t])] \in Nat
        /\ DOMAIN at = Threads
    BY <1>1, Typed, Zenon
  <2>1. ASSUME at[t] = "push_seq", at'[t] = "push_failed"
        PROVE  sequence[SlotOf(pos[t])] < pos[t]
    <3>1. PushSeq(t)
      BY <1>1, <2>1, FailingStep, Zenon
    <3>2. sequence[SlotOf(pos[t])] - pos[t] < 0
      BY <2>1, <2>t, <3>1, Zenon DEF PushSeq, Goto
    <3> QED
      BY <3>2, <2>t
  <2>2. ASSUME at[t] = "pop_seq", at'[t] = "pop_failed"
        PROVE  sequence[SlotOf(pos[t])] < pos[t] + 1
    <3>1. PopSeq(t)
      BY <1>1, <2>2, FailingStep, Zenon
    <3>2. sequence[SlotOf(pos[t])] - (pos[t] + 1) < 0
      BY <2>2, <2>t, <3>1, Zenon DEF PopSeq, Goto
    <3> QED
      BY <3>2, <2>t
  <2>3. ASSUME at[t] = "push_seq", at'[t] = "push_failed"
        PROVE  \/ enqueue_pos = dequeue_pos + Capacity
               \/ \E u \in Threads : /\ at[u] \in {"pop_data", "pop_free"}
                                     /\ pos[u] + Capacity = enqueue_pos
    BY <1>1, <2>1, <2>3, PushFailsRightly, Zenon
  <2>4. ASSUME at[t] = "pop_seq", at'[t] = "pop_failed"
        PROVE  \/ enqueue_pos = dequeue_pos
               \/ \E u \in Threads : /\ at[u] \in {"push_data", "push_publish"}
                                     /\ pos[u] = dequeue_pos
    BY <1>1, <2>2, <2>4, PopFailsRightly, Zenon
  <2> QED
    BY <2>3, <2>4, Zenon
<1> QED
  BY <1>1, QueueInvHolds, PTL DEF QueueSpec, FailsRightly

----------------------------------------------------------------------------
(* The ring implements a bounded FIFO.                                     *)

LEMMA FifoStarts == QueueInit => Fifo!FifoInit
<1> SUFFICES ASSUME QueueInit PROVE Fifo!FifoInit
  BY Zenon
<1>1. Items = <<>>
  BY SubSeqNone DEF QueueInit, Items
<1>2. Got = [t \in Threads |-> Nothing]
  BY Zenon DEF QueueInit, Got
<1> QED
  BY <1>1, <1>2, Zenon DEF QueueInit, Fifo!FifoInit

\* The compare_exchange of push() appends.
LEMMA PushClaimPuts ==
  ASSUME QueueInv, NEW t \in Threads, PushClaim(t)
  PROVE  Fifo!Put(t)
<1>t. /\ enqueue_pos \in Nat /\ dequeue_pos \in Nat
      /\ Capacity \in Nat /\ DOMAIN at = Threads
      /\ log \in Seq(Values) /\ arg[t] \in Values
      /\ dequeue_pos <= enqueue_pos /\ Len(log) = enqueue_pos
  BY Typed, Zenon DEF QueueInv, Carries, PushClaim, Bounds
<1>1. enqueue_pos < dequeue_pos + Capacity
  BY ClaimIsFree, Zenon DEF PushClaim, QueueInv, Candidates
<1>2. /\ log' = Append(log, arg[t]) /\ log' \in Seq(Values)
      /\ Len(log') = enqueue_pos + 1
      /\ \A i \in 1..enqueue_pos : log'[i] = log[i]
      /\ log'[enqueue_pos + 1] = arg[t]
  BY <1>t, AppendFacts DEF PushClaim
<1>3. /\ Items \in Seq(Values)
      /\ Len(Items) = enqueue_pos - dequeue_pos
      /\ \A i \in 1..(enqueue_pos - dequeue_pos) : Items[i] = log[dequeue_pos + i]
  <2>1. \A i \in (dequeue_pos + 1)..enqueue_pos : log[i] \in Values
    BY <1>t
  <2> QED
    BY <2>1, <1>t, SubSeqFacts, SMTT(30) DEF Items
<1>4. /\ Items' \in Seq(Values)
      /\ Len(Items') = enqueue_pos + 1 - dequeue_pos
      /\ \A i \in 1..(enqueue_pos + 1 - dequeue_pos) : Items'[i] = log'[dequeue_pos + i]
  <2>1. \A i \in (dequeue_pos + 1)..(enqueue_pos + 1) : log'[i] \in Values
    BY <1>t, <1>2
  <2>2. Items' = SubSeq(log', dequeue_pos + 1, enqueue_pos + 1)
    BY Zenon DEF Items, PushClaim
  <2> QED
    BY <2>1, <2>2, <1>t, SubSeqFacts
<1>5. Items' = Append(Items, arg[t])
  <2>1. /\ Append(Items, arg[t]) \in Seq(Values)
        /\ Len(Append(Items, arg[t])) = Len(Items')
    <3>1. /\ Append(Items, arg[t]) \in Seq(Values)
          /\ Len(Append(Items, arg[t])) = Len(Items) + 1
      BY <1>3, <1>t, AppendFacts
    <3>2. Len(Items) + 1 = Len(Items')
      <4>1. enqueue_pos - dequeue_pos + 1 = enqueue_pos + 1 - dequeue_pos
        BY <1>t
      <4> QED
        BY <4>1, <1>3, <1>4, Zenon
    <3> QED
      BY <3>1, <3>2, Zenon
  <2>2. ASSUME NEW i \in 1..Len(Items')
        PROVE  Items'[i] = Append(Items, arg[t])[i]
    <3>1. CASE i = enqueue_pos + 1 - dequeue_pos
      <4>1. Items'[i] = arg[t]
        BY <3>1, <1>2, <1>4, <1>t
      <4>2. i = Len(Items) + 1
        BY <3>1, <1>3, <1>t
      <4> QED
        BY <4>1, <4>2, <1>3, <1>t, AppendFacts
    <3>2. CASE i # enqueue_pos + 1 - dequeue_pos
      <4>1. i \in 1..(enqueue_pos - dequeue_pos) /\ dequeue_pos + i \in 1..enqueue_pos
        BY <2>2, <3>2, <1>4, <1>t
      <4>2. Items'[i] = log[dequeue_pos + i]
        BY <2>2, <4>1, <1>2, <1>4, Zenon
      <4> QED
        BY <4>1, <4>2, <1>3, <1>t, AppendFacts
    <3> QED
      BY <3>1, <3>2, Zenon
  <2> QED
    BY <2>1, <2>2, <1>4, SameSeq, Zenon
<1>6. Got' = Got
  BY <1>t, Zenon DEF PushClaim, Goto, Got
<1>7. Len(Items) < Capacity /\ arg' = arg
  BY <1>1, <1>3, <1>t DEF PushClaim
<1> QED
  BY <1>5, <1>6, <1>7, Zenon DEF Fifo!Put

\* The compare_exchange of pop() takes the oldest value.
LEMMA PopClaimTakes ==
  ASSUME QueueInv, NEW t \in Threads, PopClaim(t)
  PROVE  Fifo!Take(t)
<1>t. /\ enqueue_pos \in Nat /\ dequeue_pos \in Nat
      /\ DOMAIN at = Threads /\ log \in Seq(Values)
      /\ Len(log) = enqueue_pos
  BY Typed, Zenon DEF QueueInv, Bounds
<1>1. /\ dequeue_pos < enqueue_pos
      /\ data[SlotOf(dequeue_pos)] = log[dequeue_pos + 1]
  BY ClaimIsPublished, Zenon DEF PopClaim, QueueInv, Candidates
<1>2. /\ dequeue_pos + 1 \in 1..Len(log)
      /\ enqueue_pos \in (dequeue_pos + 1)..Len(log)
      /\ dequeue_pos + 1 + 1 = dequeue_pos' + 1
  BY <1>1, <1>t DEF PopClaim
<1>3. /\ Head(Items) = log[dequeue_pos + 1]
      /\ Tail(Items) = SubSeq(log, dequeue_pos + 1 + 1, enqueue_pos)
  BY <1>2, <1>t, SubSeqHead, Zenon DEF Items
<1>4. Items' = Tail(Items)
  BY <1>2, <1>3, Zenon DEF Items, PopClaim
<1>5. Items # <<>>
  <2>1. \A i \in (dequeue_pos + 1)..enqueue_pos : log[i] \in Values
    BY <1>t
  <2>2. Len(Items) = enqueue_pos - dequeue_pos
    BY <2>1, <1>1, <1>t, SubSeqFacts DEF Items
  <2> QED
    BY <2>2, <1>1, <1>t, EmptySeq
<1>6. Got' = [Got EXCEPT ![t] = Head(Items)]
  <2>1. /\ pos' = pos /\ data' = data /\ out' = out
        /\ at' = [at EXCEPT ![t] = "pop_data"]
        /\ pos[t] = dequeue_pos
    BY Zenon DEF PopClaim, Goto
  <2>2. data[SlotOf(pos[t])] = Head(Items)
    BY <2>1, <1>1, <1>3, Zenon
  <2> QED
    BY <2>1, <2>2, <1>t, Zenon DEF Got
<1> QED
  BY <1>4, <1>5, <1>6, Zenon DEF Fifo!Take, PopClaim

\* Every other step inside a call leaves the abstract queue as it is: moving
\* the value out of a slot only moves it from the slot to the caller.
LEMMA OtherStepsStutter ==
  ASSUME QueueInv, NEW t \in Threads,
         \/ Pop(t) \/ PushLoad(t) \/ PushSeq(t) \/ PushMiss(t)
         \/ PopLoad(t) \/ PopSeq(t) \/ PopMiss(t)
         \/ PushData(t) \/ PushPublish(t) \/ PopData(t) \/ PopFree(t)
  PROVE  UNCHANGED <<Items, arg, Got>>
<1>t. /\ DOMAIN at = Threads /\ DOMAIN data = Slots /\ DOMAIN out = Threads
      /\ DOMAIN pos = Threads
      /\ \A u \in Threads : pos[u] \in Nat /\ SlotOf(pos[u]) \in Slots
  BY Typed, Zenon DEF QueueInv, QueueTypeOK
<1>1. UNCHANGED <<Items, arg>>
  BY Zenon DEF Items, Pop, PushLoad, PushSeq, PushMiss, PopLoad, PopSeq, PopMiss, PushData,
    PushPublish, PopData, PopFree, ring
<1>2. CASE \/ Pop(t) \/ PushLoad(t) \/ PushSeq(t) \/ PushMiss(t)
           \/ PopLoad(t) \/ PopSeq(t) \/ PopMiss(t)
  <2>1. /\ UNCHANGED <<data, out>>
        /\ at[t] # "pop_data" /\ at'[t] # "pop_data"
        /\ \A u \in Threads : u # t => at'[u] = at[u] /\ pos'[u] = pos[u]
    BY <1>2, <1>t, Zenon DEF Pop, PushLoad, PushSeq, PushMiss, PopLoad, PopSeq, PopMiss, ring, Goto
  <2> QED
    BY <2>1, <1>1, Zenon DEF Got
<1>3. CASE PushPublish(t) \/ PopFree(t)
  <2>1. /\ UNCHANGED <<data, out, pos>>
        /\ at[t] # "pop_data" /\ at'[t] # "pop_data"
        /\ \A u \in Threads : u # t => at'[u] = at[u]
    BY <1>3, <1>t, Zenon DEF PushPublish, PopFree, Goto
  <2> QED
    BY <2>1, <1>1, Zenon DEF Got
<1>4. CASE PushData(t) \/ PopData(t)
  <2>1. /\ pos' = pos
        /\ \A u \in Threads : u # t => at'[u] = at[u] /\ out'[u] = out[u]
        /\ \A i \in Slots : i # SlotOf(pos[t]) => data'[i] = data[i]
        /\ Owns(t)
    BY <1>4, <1>t, Zenon DEF PushData, PopData, Goto, Owns
  <2>2. ASSUME NEW u \in Threads, u # t, at[u] = "pop_data"
        PROVE  data'[SlotOf(pos[u])] = data[SlotOf(pos[u])]
    <3>1. SlotOf(pos[u]) # SlotOf(pos[t])
      BY <2>1, <2>2, OwnersApart, Zenon DEF SlotExclusive, Owns
    <3> QED
      BY <2>1, <3>1, <1>t, Zenon
  <2>3. \/ /\ at[t] = "push_data" /\ at'[t] = "push_publish" /\ out'[t] = out[t]
        \/ /\ at[t] = "pop_data" /\ at'[t] = "pop_free"
           /\ out'[t] = data[SlotOf(pos[t])]
    BY <1>4, <1>t, Zenon DEF PushData, PopData, Goto
  <2>4. \A u \in Threads :
          (IF at'[u] = "pop_data" THEN data'[SlotOf(pos'[u])] ELSE out'[u])
            = (IF at[u] = "pop_data" THEN data[SlotOf(pos[u])] ELSE out[u])
    BY <2>1, <2>2, <2>3, Zenon
  <2>5. Got' = Got
    BY <2>4, Zenon DEF Got
  <2> QED
    BY <2>5, <1>1, Zenon
<1> QED
  BY <1>2, <1>3, <1>4, Zenon

LEMMA FifoStep ==
  ASSUME QueueInv, [QueueNext]_queueVars
  PROVE  [Fifo!FifoNext]_(Fifo!fifoVars)
<1>t. DOMAIN at = Threads /\ DOMAIN out = Threads
  BY Typed, Zenon DEF QueueInv, QueueTypeOK
<1>1. CASE UNCHANGED queueVars
  BY <1>1, Zenon DEF queueVars, ring, calls, Fifo!fifoVars, Items, Got
<1>2. ASSUME NEW t \in Threads, NEW v \in Values, Push(t, v)
      PROVE  Fifo!Offer(t, v)
  <2>1. /\ Items' = Items
        /\ arg' = [arg EXCEPT ![t] = v]
    BY <1>2, Zenon DEF Push, ring, Items
  <2>2. Got' = Got
    BY <1>2, <1>t, Zenon DEF Push, ring, Goto, Got
  <2> QED
    BY <2>1, <2>2, Zenon DEF Fifo!Offer
<1>3. ASSUME NEW t \in Threads, Return(t)
      PROVE  Fifo!Leave(t)
  <2>1. /\ Items' = Items
        /\ arg' = [arg EXCEPT ![t] = Nothing]
    BY <1>3, Zenon DEF Return, ring, Items
  <2>2. Got' = [Got EXCEPT ![t] = Nothing]
    <3>1. /\ data' = data
          /\ at'[t] # "pop_data" /\ out'[t] = Nothing
          /\ \A u \in Threads : u # t => /\ at'[u] = at[u] /\ out'[u] = out[u]
                                         /\ pos'[u] = pos[u]
      BY <1>3, <1>t, Typed, Zenon DEF Return, ring, Goto, QueueInv, QueueTypeOK
    <3> QED
      BY <3>1, Zenon DEF Got
  <2> QED
    BY <2>1, <2>2, Zenon DEF Fifo!Leave
<1>4. ASSUME NEW t \in Threads, Pop(t) \/ PushStep(t) \/ PopStep(t)
      PROVE  Fifo!Put(t) \/ Fifo!Take(t) \/ UNCHANGED Fifo!fifoVars
  <2>1. CASE PushClaim(t)
    BY <2>1, PushClaimPuts, Zenon
  <2>2. CASE PopClaim(t)
    BY <2>2, PopClaimTakes, Zenon
  <2>3. CASE ~PushClaim(t) /\ ~PopClaim(t)
    BY <1>4, <2>3, OtherStepsStutter, Zenon DEF PushStep, PopStep, Fifo!fifoVars
  <2> QED
    BY <2>1, <2>2, <2>3, Zenon
<1> QED
  BY <1>1, <1>2, <1>3, <1>4, Zenon DEF QueueNext, Fifo!FifoNext

\* For any number of threads and any capacity the ring is a bounded FIFO:
\* the compare_exchange of push() appends, that of pop() takes the oldest
\* value, and that value is what pop() moves out.
THEOREM ImplementsFifo == QueueSpec => RefinesFifo
<1>1. QueueInit => Fifo!FifoInit
  BY FifoStarts, Zenon
<1>2. QueueInv /\ [QueueNext]_queueVars => [Fifo!FifoNext]_(Fifo!fifoVars)
  BY FifoStep, Zenon
<1> QED
  BY <1>1, <1>2, QueueInvHolds, PTL DEF QueueSpec, RefinesFifo, Fifo!FifoSpec

----------------------------------------------------------------------------
(* The pool and its queue.                                                 *)

\* Every step of the pool is a step of its queue, or none.
LEMMA PoolStepOfQueue == [PoolNext]_vars => [QueueNext]_queueVars
<1> SUFFICES ASSUME [PoolNext]_vars PROVE [QueueNext]_queueVars
  BY Zenon
<1> USE DEF Tasks
<1>1. CASE UNCHANGED vars
  BY <1>1, Zenon DEF vars
<1>2. CASE ConstructStep
  BY <1>2, Zenon DEF ConstructStep, StartWorker, Constructed, ConstructFails
<1>3. ASSUME NEW t \in Threads, NEW x \in Tasks, Submit(t, x) \/ SubmitTooLate(t, x)
      PROVE  [QueueNext]_queueVars
  BY <1>3, Zenon DEF Submit, SubmitTooLate, QueueNext
<1>4. ASSUME NEW t \in Threads, InQueue(t) \/ SubmitStep(t)
      PROVE  [QueueNext]_queueVars
  BY <1>4, Zenon DEF InQueue, SubmitStep, SubmitRefused, SubmitRelease, SubmitUnlock, QueueNext
<1>5. ASSUME NEW w \in Workers, WorkerStep(w)
      PROVE  [QueueNext]_queueVars
  BY <1>5, ThreadPoolAssumption, Zenon
  DEF WorkerStep, Acquire, Begin, PopFails, TestStop, TaskReturns, TaskThrows, Catch,
      QueueNext
<1>6. CASE Shutdown \/ ShutdownStep \/ take_errors
  BY <1>6, Zenon DEF Shutdown, ShutdownStep, RequestStop, ReleaseWorkers, ShutdownUnlock, Join,
      take_errors
<1> QED
  BY <1>1, <1>2, <1>3, <1>4, <1>5, <1>6, Zenon DEF PoolNext

LEMMA PoolQueueInv == PoolSpec => []QueueInv
<1>1. PoolInit => QueueInv
  BY QueueInvInit, Zenon DEF PoolInit
<1> QED
  BY <1>1, PoolStepOfQueue, QueueInvStep, PTL DEF PoolSpec

\* The pool drives its queue as the threads of MPMCQueue may: what is proved
\* of the queue, the FIFO order included, holds inside the pool.
THEOREM PoolImplementsQueue == PoolSpec => QueueSpec
<1>1. PoolInit => QueueInit
  BY Zenon DEF PoolInit
<1> QED
  BY <1>1, PoolStepOfQueue, PTL DEF PoolSpec, QueueSpec

----------------------------------------------------------------------------
(* The inductive invariant.                                                *)

InPush == {"push_load", "push_seq", "push_claim", "push_data", "push_publish",
           "push_ok", "push_failed"}
InPop == {"pop_load", "pop_seq", "pop_claim", "pop_data", "pop_free", "pop_ok",
          "pop_failed"}

\* Before the compare_exchange succeeds.
Trying == {"push_load", "push_seq", "push_claim"}
Seeking == {"pop_load", "pop_seq", "pop_claim"}

\* Where a thread can be in the queue, seen from where it is in the pool.
Fits(t, spot, place) ==
  /\ t \in Workers => spot \in {"unborn", "acquire", "pop", "test", "run", "submit",
                                "unlock", "catch", "exited"}
  /\ t \in Clients => spot \in {"waiting", "construct", "gone", "user", "submit",
                                "unlock", "stopping", "leave", "join"}
  /\ spot = "submit" => place \in InPush
  /\ spot = "unlock" => place = "push_ok"
  /\ spot = "pop" => place \in InPop
  /\ spot \notin {"submit", "unlock", "pop"} => place = "idle"

Control == \A t \in Threads : Fits(t, where[t], at[t])

InSubmit(t) == where[t] \in {"submit", "unlock"}

\* submit() excludes itself and shutdown(); nothing is submitted before the
\* pool is constructed.
Phases ==
  /\ \A t \in Threads : InSubmit(t) => mutex = t /\ accepting
  /\ where[Owner] = "construct" => accepting
  /\ where[Owner] \in {"stopping", "leave", "join", "gone"} => ~accepting

\* The pool is not constructed, or never will be.
Unopened == where[Owner] \in {"construct", "gone"} \/ Started # Workers

Unused ==
  Unopened =>
    /\ enqueue_pos = 0
    /\ \A t \in Threads :
         /\ where[t] \notin {"user", "submit", "unlock", "run", "catch"}
         /\ at[t] # "pop_ok"

\* The tokens of shutdown() are out.
Released == ~accepting /\ where[Owner] # "stopping"

Failed(w) == at[w] = "pop_failed" \/ where[w] \in {"test", "exited"}

\* The workers that have taken a token and no task yet.
Poppers == {w \in Workers : at[w] \in Seeking}

\* A push() past its compare_exchange.
Committed(t) == at[t] \in {"push_data", "push_publish", "push_ok"}

Committing(t) == where[t] = "submit" /\ Committed(t)

\* The task in the ring whose token is still to come.
Uncommitted == IF \E t \in Threads : Committing(t) THEN 1 ELSE 0

\* Until shutdown() releases its tokens there is one token for each task in
\* the ring, so no pop() fails; afterwards one fails only on an empty ring.
Tokens == ~Released =>
  available + Cardinality(Poppers) + Uncommitted = enqueue_pos - dequeue_pos

\* Only one push() is under way, so it is the last one.
Latest == \A t \in Threads : Pushing(t) => pos[t] + 1 = enqueue_pos

FailsEmpty ==
  \A w \in Workers : Failed(w) => Released /\ enqueue_pos = dequeue_pos

Positions == 1..Len(log)

Logged(x) == \E i \in Positions : log[i] = x

\* What can have become of a task that submit() queues.
Kept == {"submitted", "accepted", "returned", "threw"}

Placed(t) ==
  /\ arg[t] \in Tasks
  /\ IF Committed(t) THEN Logged(arg[t])
     ELSE ~Logged(arg[t]) /\ fate[arg[t]] = "submitted"

\* A task is in the log once, from the compare_exchange of its push() on.
Submitted ==
  /\ \A i, j \in Positions : log[i] = log[j] => i = j
  /\ \A t \in Threads : InSubmit(t) => Placed(t)
  /\ \A x \in Tasks :
       /\ Logged(x) => fate[x] \in Kept
       /\ fate[x] \in Kept => Logged(x) \/ \E t \in Threads : InSubmit(t) /\ arg[t] = x

\* A worker between the compare_exchange of its pop() and the call of the task.
Claimed(w) == at[w] \in {"pop_data", "pop_free", "pop_ok"}

Popped(i) == i <= dequeue_pos /\ \A w \in Workers : Claimed(w) => pos[w] + 1 # i

Claims ==
  /\ \A w \in Workers : Claimed(w) => pos[w] < dequeue_pos
  /\ \A w, v \in Workers : Claimed(w) /\ Claimed(v) /\ pos[w] = pos[v] => w = v
  /\ \A w \in Workers : at[w] \in {"pop_free", "pop_ok"} => out[w] = log[pos[w] + 1]

\* The tasks that ran are those whose position was popped and handed on.
Counts ==
  \A x \in Tasks :
    /\ runs[x] \in {0, 1}
    /\ runs[x] = 1 <=> \E i \in Positions : log[i] = x /\ Popped(i)

InTask(w) == where[w] \in {"run", "submit", "unlock", "catch"}

\* A task that was called is running, or has returned or thrown.
Running ==
  /\ \A w \in Workers :
       IF InTask(w)
         THEN /\ running[w] \in Tasks
              /\ runs[running[w]] = 1
              /\ IF where[w] = "catch" THEN fate[running[w]] = "threw"
                 ELSE fate[running[w]] \in {"submitted", "accepted"}
         ELSE running[w] = Nothing
  /\ \A w, v \in Workers : running[w] = running[v] /\ running[w] # Nothing => w = v
  /\ \A x \in Tasks :
       /\ runs[x] = 1 => \/ fate[x] \in {"returned", "threw"}
                         \/ \E w \in Workers : running[w] = x
       /\ fate[x] \in {"returned", "threw"} => runs[x] = 1

\* A thrown exception is kept.
Caught ==
  \A x \in Tasks :
    fate[x] = "threw" <=>
      \/ x \in errors \cup taken
      \/ \E w \in Workers : where[w] = "catch" /\ running[w] = x

PoolInv ==
  /\ PoolTypeOK
  /\ Control
  /\ Phases
  /\ Unused
  /\ Tokens
  /\ Latest
  /\ FailsEmpty
  /\ Submitted
  /\ Claims
  /\ Counts
  /\ Running
  /\ Caught

----------------------------------------------------------------------------
(* What the steps do, thread by thread.                                    *)

\* The other threads stay where they are.
Only(t) ==
  \A u \in Threads : u # t =>
    /\ where'[u] = where[u] /\ at'[u] = at[u]
    /\ pos'[u] = pos[u] /\ arg'[u] = arg[u] /\ out'[u] = out[u]

\* Thread t alone moves, to this place of the pool and this one of the queue.
Moves(t, spot, place) == Only(t) /\ where'[t] = spot /\ at'[t] = place

\* The locals of t in push() or pop() stay.
Keeps(t) == pos'[t] = pos[t] /\ arg'[t] = arg[t] /\ out'[t] = out[t]

LEMMA Domains ==
  ASSUME PoolTypeOK
  PROVE  /\ DOMAIN where = Threads /\ DOMAIN at = Threads /\ DOMAIN pos = Threads
         /\ DOMAIN arg = Threads /\ DOMAIN out = Threads
BY Zenon DEF PoolTypeOK, QueueTypeOK

LEMMA ClientMoves ==
  ASSUME PoolTypeOK, Control
  PROVE  /\ Owner \in Threads /\ Workers \subseteq Threads /\ Clients \subseteq Threads
         /\ \A w \in Workers : StartWorker(w) => Moves(w, "acquire", "idle") /\ Keeps(w)
         /\ Shutdown => /\ Moves(Owner, IF accepting THEN "stopping" ELSE "join", "idle")
                        /\ Keeps(Owner)
         /\ ConstructFails => Moves(Owner, "stopping", "idle") /\ Keeps(Owner)
         /\ ReleaseWorkers => /\ Moves(Owner, IF Started = Workers THEN "leave" ELSE "join", "idle")
                              /\ Keeps(Owner)
         /\ ShutdownUnlock => Moves(Owner, "join", "idle") /\ Keeps(Owner)
         /\ Join => /\ Moves(Owner, IF Started = Workers THEN "user" ELSE "gone", "idle")
                    /\ Keeps(Owner)
<1>1. Owner \in Threads /\ Workers \subseteq Threads /\ Clients \subseteq Threads
  BY ThreadPoolAssumption, Zenon
<1> USE Domains DEF Moves, Only, Keeps, Enter, queueVars, calls, Control, Fits
<1>2. ASSUME NEW w \in Workers, StartWorker(w)
      PROVE  Moves(w, "acquire", "idle") /\ Keeps(w)
  BY <1>1, <1>2, Zenon DEF StartWorker
<1>3. ASSUME Shutdown
      PROVE  Moves(Owner, IF accepting THEN "stopping" ELSE "join", "idle") /\ Keeps(Owner)
  BY <1>1, <1>3, Zenon DEF Shutdown
<1>4. ASSUME ConstructFails
      PROVE  Moves(Owner, "stopping", "idle") /\ Keeps(Owner)
  BY <1>1, <1>4, Zenon DEF ConstructFails
<1>5. ASSUME ReleaseWorkers
      PROVE  /\ Moves(Owner, IF Started = Workers THEN "leave" ELSE "join", "idle")
             /\ Keeps(Owner)
  BY <1>1, <1>5, Zenon DEF ReleaseWorkers
<1>6. ASSUME ShutdownUnlock
      PROVE  Moves(Owner, "join", "idle") /\ Keeps(Owner)
  BY <1>1, <1>6, Zenon DEF ShutdownUnlock
<1>7. ASSUME Join
      PROVE  Moves(Owner, IF Started = Workers THEN "user" ELSE "gone", "idle") /\ Keeps(Owner)
  BY <1>1, <1>7, Zenon DEF Join
<1> QED
  BY <1>1, <1>2, <1>3, <1>4, <1>5, <1>6, <1>7, Zenon

LEMMA SubmitMoves ==
  ASSUME PoolTypeOK, Control, NEW t \in Threads
  PROVE  /\ \A x \in Tasks : Submit(t, x) =>
              Moves(t, "submit", "push_load") /\ arg'[t] = x /\ pos'[t] = pos[t]
         /\ SubmitRefused(t) => Moves(t, IF t \in Workers THEN "run" ELSE "user", "idle")
         /\ SubmitRelease(t) => Moves(t, "unlock", "push_ok") /\ Keeps(t)
         /\ SubmitUnlock(t) => Moves(t, IF t \in Workers THEN "run" ELSE "user", "idle")
<1> USE Domains DEF Moves, Only, Keeps, Enter, LeaveSubmit, Goto, Return
<1>1. ASSUME NEW x \in Tasks, Submit(t, x)
      PROVE  Moves(t, "submit", "push_load") /\ arg'[t] = x /\ pos'[t] = pos[t]
  BY <1>1, Zenon DEF Submit, Push
<1>2. ASSUME SubmitRefused(t)
      PROVE  Moves(t, IF t \in Workers THEN "run" ELSE "user", "idle")
  BY <1>2, Zenon DEF SubmitRefused
<1>3. ASSUME SubmitRelease(t)
      PROVE  Moves(t, "unlock", "push_ok") /\ Keeps(t)
  BY <1>3, Zenon DEF SubmitRelease, queueVars, calls
<1>4. ASSUME SubmitUnlock(t)
      PROVE  Moves(t, IF t \in Workers THEN "run" ELSE "user", "idle")
  BY <1>4, Zenon DEF SubmitUnlock
<1> QED
  BY <1>1, <1>2, <1>3, <1>4, Zenon

LEMMA WorkerMoves ==
  ASSUME PoolTypeOK, Control, NEW w \in Workers
  PROVE  /\ Acquire(w) => Moves(w, "pop", "pop_load") /\ at[w] = "idle"
         /\ Begin(w) => Moves(w, "run", "idle")
         /\ PopFails(w) => Moves(w, "test", "idle")
         /\ TestStop(w) => Moves(w, IF w \in stop THEN "exited" ELSE "acquire", "idle")
         /\ TaskReturns(w) => Moves(w, "acquire", "idle")
         /\ TaskThrows(w) => Moves(w, "catch", "idle")
         /\ Catch(w) => Moves(w, "acquire", "idle")
<1>0. w \in Threads
  BY ThreadPoolAssumption, Zenon
<1> USE <1>0, Domains DEF Moves, Only, Enter, Goto, queueVars, calls
<1>1. ASSUME Acquire(w)
      PROVE  Moves(w, "pop", "pop_load") /\ at[w] = "idle"
  BY <1>1, Zenon DEF Acquire, Pop
<1>2. ASSUME Begin(w)
      PROVE  Moves(w, "run", "idle")
  BY <1>2, Zenon DEF Begin, Return
<1>3. ASSUME PopFails(w)
      PROVE  Moves(w, "test", "idle")
  BY <1>3, Zenon DEF PopFails, Return
<1>4. ASSUME TestStop(w)
      PROVE  Moves(w, IF w \in stop THEN "exited" ELSE "acquire", "idle")
  BY <1>4, Zenon DEF TestStop, Control, Fits
<1>5. ASSUME TaskReturns(w)
      PROVE  Moves(w, "acquire", "idle")
  BY <1>5, Zenon DEF TaskReturns, Control, Fits
<1>6. ASSUME TaskThrows(w)
      PROVE  Moves(w, "catch", "idle")
  BY <1>6, Zenon DEF TaskThrows, Control, Fits
<1>7. ASSUME Catch(w)
      PROVE  Moves(w, "acquire", "idle")
  BY <1>7, Zenon DEF Catch, Control, Fits
<1> QED
  BY <1>1, <1>2, <1>3, <1>4, <1>5, <1>6, <1>7, Zenon

\* The searching steps of push() and pop() claim nothing.
Searches(t) == PushLoad(t) \/ PushSeq(t) \/ PushMiss(t)
Looks(t) == PopLoad(t) \/ PopSeq(t) \/ PopMiss(t)

LEMMA QueueMoves ==
  ASSUME PoolTypeOK, NEW t \in Threads
  PROVE  /\ Searches(t) => /\ at[t] \in Trying /\ at'[t] \in Trying \cup {"push_failed"}
                           /\ UNCHANGED <<ring, log, arg, out>>
         /\ PushClaim(t) => at[t] \in Trying /\ at'[t] = "push_data"
         /\ PushData(t) => at[t] = "push_data" /\ at'[t] = "push_publish"
         /\ PushPublish(t) => at[t] = "push_publish" /\ at'[t] = "push_ok"
         /\ Looks(t) => /\ at[t] \in Seeking /\ at'[t] \in Seeking \cup {"pop_failed"}
                        /\ at'[t] = "pop_failed" => PopSeq(t)
                        /\ UNCHANGED <<ring, log, arg, out>>
         /\ PopClaim(t) => at[t] \in Seeking /\ at'[t] = "pop_data"
         /\ PopData(t) => at[t] = "pop_data" /\ at'[t] = "pop_free"
         /\ PopFree(t) => at[t] = "pop_free" /\ at'[t] = "pop_ok"
<1> USE Domains DEF Goto, Trying, Seeking
<1>1. ASSUME Searches(t)
      PROVE  /\ at[t] \in Trying /\ at'[t] \in Trying \cup {"push_failed"}
             /\ UNCHANGED <<ring, log, arg, out>>
  BY <1>1, Zenon DEF Searches, PushLoad, PushSeq, PushMiss
<1>2. PushClaim(t) => at[t] \in Trying /\ at'[t] = "push_data"
  BY Zenon DEF PushClaim
<1>3. PushData(t) => at[t] = "push_data" /\ at'[t] = "push_publish"
  BY Zenon DEF PushData
<1>4. PushPublish(t) => at[t] = "push_publish" /\ at'[t] = "push_ok"
  BY Zenon DEF PushPublish
<1>5. ASSUME Looks(t)
      PROVE  /\ at[t] \in Seeking /\ at'[t] \in Seeking \cup {"pop_failed"}
             /\ at'[t] = "pop_failed" => PopSeq(t)
             /\ UNCHANGED <<ring, log, arg, out>>
  <2>1. CASE PopSeq(t)
    BY <2>1, Zenon DEF PopSeq
  <2>2. CASE PopLoad(t) \/ PopMiss(t)
    BY <2>2, Zenon DEF PopLoad, PopMiss
  <2> QED
    BY <1>5, <2>1, <2>2, Zenon DEF Looks
<1>6. PopClaim(t) => at[t] \in Seeking /\ at'[t] = "pop_data"
  BY Zenon DEF PopClaim
<1>7. PopData(t) => at[t] = "pop_data" /\ at'[t] = "pop_free"
  BY Zenon DEF PopData
<1>8. PopFree(t) => at[t] = "pop_free" /\ at'[t] = "pop_ok"
  BY Zenon DEF PopFree
<1> QED
  BY <1>1, <1>2, <1>3, <1>4, <1>5, <1>6, <1>7, <1>8, Zenon

\* A step inside the queue is one of these and moves one thread.
LEMMA InQueueMoves ==
  ASSUME PoolTypeOK, NEW t \in Threads, InQueue(t)
  PROVE  /\ UNCHANGED poolVars /\ Only(t) /\ arg'[t] = arg[t]
         /\ \/ Searches(t) \/ PushClaim(t) \/ PushData(t) \/ PushPublish(t)
            \/ Looks(t) \/ PopClaim(t) \/ PopData(t) \/ PopFree(t)
<1> USE Domains DEF Only, Goto
<1>0. UNCHANGED poolVars
  BY Zenon DEF InQueue
<1>1. \/ Searches(t) \/ PushClaim(t) \/ PushData(t) \/ PushPublish(t)
      \/ Looks(t) \/ PopClaim(t) \/ PopData(t) \/ PopFree(t)
  BY Zenon DEF InQueue, PushStep, PopStep, Searches, Looks
<1>2. CASE Searches(t)
  BY <1>0, <1>1, <1>2, Zenon DEF poolVars, Searches, PushLoad, PushSeq, PushMiss
<1>3. CASE Looks(t)
  BY <1>0, <1>1, <1>3, Zenon DEF poolVars, Looks, PopLoad, PopSeq, PopMiss
<1>4. CASE PushClaim(t)
  BY <1>0, <1>1, <1>4, Zenon DEF poolVars, PushClaim
<1>5. CASE PushData(t)
  BY <1>0, <1>1, <1>5, Zenon DEF poolVars, PushData
<1>6. CASE PushPublish(t)
  BY <1>0, <1>1, <1>6, Zenon DEF poolVars, PushPublish
<1>7. CASE PopClaim(t)
  BY <1>0, <1>1, <1>7, Zenon DEF poolVars, PopClaim
<1>8. CASE PopData(t)
  BY <1>0, <1>1, <1>8, Zenon DEF poolVars, PopData
<1>9. CASE PopFree(t)
  BY <1>0, <1>1, <1>9, Zenon DEF poolVars, PopFree
<1> QED
  BY <1>1, <1>2, <1>3, <1>4, <1>5, <1>6, <1>7, <1>8, <1>9, Zenon

\* The steps outside the queue, and all the others.
OffQueue ==
  \/ UNCHANGED vars
  \/ ConstructStep \/ Shutdown \/ ShutdownStep \/ take_errors
  \/ \E t \in Threads, x \in Tasks : SubmitTooLate(t, x)
  \/ \E t \in Threads : SubmitRelease(t)
  \/ \E w \in Workers : TestStop(w) \/ TaskReturns(w) \/ TaskThrows(w) \/ Catch(w)

LEMMA OffQueueKeeps ==
  ASSUME OffQueue
  PROVE  UNCHANGED queueVars
BY Zenon DEF OffQueue, vars, ConstructStep, StartWorker, Constructed, ConstructFails, Shutdown,
  ShutdownStep, RequestStop, ReleaseWorkers, ShutdownUnlock, Join, take_errors, SubmitTooLate,
  SubmitRelease, TestStop, TaskReturns, TaskThrows, Catch

LEMMA PoolSteps ==
  ASSUME [PoolNext]_vars
  PROVE  \/ OffQueue
         \/ \E t \in Threads : InQueue(t)
         \/ \E t \in Threads, x \in Tasks : Submit(t, x)
         \/ \E t \in Threads : SubmitRefused(t) \/ SubmitUnlock(t)
         \/ \E w \in Workers : Acquire(w) \/ Begin(w) \/ PopFails(w)
BY Zenon DEF OffQueue, PoolNext, SubmitStep, WorkerStep

----------------------------------------------------------------------------
(* Control.                                                                *)

LEMMA ControlMove ==
  ASSUME Control, NEW t \in Threads, Only(t), Fits(t, where'[t], at'[t])
  PROVE  Control'
BY DEF Control, Only, Fits

LEMMA ControlStep ==
  ASSUME PoolTypeOK, Control, Unused, [PoolNext]_vars
  PROVE  Control'
<1>0. /\ Owner \in Threads /\ Workers \subseteq Threads /\ Owner \in Clients
      /\ Owner \notin Workers /\ \A t \in Threads : t \in Workers <=> t \notin Clients
  BY ThreadPoolAssumption, Zenon
<1>1. CASE UNCHANGED vars
  BY <1>1, Zenon DEF vars, queueVars, calls, poolVars, Control, Fits
<1>2. CASE Constructed
  <2>1. /\ at' = at
        /\ \A t \in Threads : where'[t] = IF t \in Clients THEN "user" ELSE where[t]
    BY <1>2, Zenon DEF Constructed, queueVars, calls
  <2>2. where[Owner] = "construct" /\ Started = Workers
    BY <1>2, Zenon DEF Constructed
  <2> QED
    BY <1>0, <2>1, <2>2, Zenon DEF Control, Fits, Unused, Unopened
<1>3. ASSUME NEW w \in Workers, StartWorker(w)
      PROVE  Control'
  BY <1>0, <1>3, ClientMoves, ControlMove, Zenon DEF Moves, Fits
<1>4. ASSUME NEW t \in Threads, NEW x \in Tasks, Submit(t, x)
      PROVE  Control'
  BY <1>4, SubmitMoves, ControlMove, Zenon DEF Moves, Fits, InPush
<1>5. ASSUME NEW t \in Threads, NEW x \in Tasks, SubmitTooLate(t, x)
      PROVE  Control'
  BY <1>5, Zenon DEF SubmitTooLate, queueVars, calls, Control, Fits
<1>6. ASSUME NEW t \in Threads, InQueue(t)
      PROVE  Control'
  <2>1. /\ Only(t) /\ where'[t] = where[t]
        /\ \/ Searches(t) \/ PushClaim(t) \/ PushData(t) \/ PushPublish(t)
           \/ Looks(t) \/ PopClaim(t) \/ PopData(t) \/ PopFree(t)
    BY <1>6, InQueueMoves, Zenon DEF poolVars
  <2>2. at[t] # "idle" /\ at[t] # "push_ok" /\ (at[t] \in InPush => at'[t] \in InPush)
          /\ (at[t] \in InPop => at'[t] \in InPop)
    BY <2>1, QueueMoves, Zenon DEF Trying, Seeking, InPush, InPop
  <2>3. Fits(t, where[t], at[t])
    BY Zenon DEF Control
  <2>4. Fits(t, where'[t], at'[t])
    BY <2>1, <2>2, <2>3, Zenon DEF Fits
  <2> QED
    BY <2>1, <2>4, ControlMove, Zenon
<1>7. ASSUME NEW t \in Threads, SubmitStep(t)
      PROVE  Control'
  BY <1>0, <1>7, SubmitMoves, ControlMove, Zenon DEF SubmitStep, Moves, Fits
<1>8. ASSUME NEW w \in Workers, WorkerStep(w)
      PROVE  Control'
  BY <1>0, <1>8, WorkerMoves, ControlMove, Zenon DEF WorkerStep, Moves, Fits, InPop
<1>9. ASSUME NEW w \in Workers, RequestStop(w)
      PROVE  Control'
  BY <1>9, Zenon DEF RequestStop, queueVars, calls, Control, Fits
<1>10. CASE Shutdown \/ ConstructFails \/ ReleaseWorkers \/ ShutdownUnlock \/ Join
  BY <1>0, <1>10, ClientMoves, ControlMove, Zenon DEF Moves, Fits
<1>11. CASE take_errors
  BY <1>11, Zenon DEF take_errors, queueVars, calls, Control, Fits
<1> QED
  BY <1>1, <1>2, <1>3, <1>4, <1>5, <1>6, <1>7, <1>8, <1>9, <1>10, <1>11, Zenon
  DEF PoolNext, ConstructStep, ShutdownStep

----------------------------------------------------------------------------
(* The phases of the pool.                                                 *)

\* A step that leaves accepting_ and the mutex alone and enters no submit().
LEMMA PhasesMove ==
  ASSUME Phases, NEW t \in Threads, Only(t), UNCHANGED <<accepting, mutex>>,
         InSubmit(t)' => InSubmit(t),
         t = Owner => /\ where'[t] = "construct" => where[t] = "construct"
                      /\ where'[t] \in {"stopping", "leave", "join", "gone"} =>
                           where[t] \in {"stopping", "leave", "join", "gone"},
         Owner \in Threads
  PROVE  Phases'
<1>1. \A u \in Threads : InSubmit(u)' => mutex' = u /\ accepting'
  BY Zenon DEF Phases, Only, InSubmit
<1>2. where'[Owner] = "construct" => accepting'
  BY Zenon DEF Phases, Only
<1>3. where'[Owner] \in {"stopping", "leave", "join", "gone"} => ~accepting'
  BY Zenon DEF Phases, Only
<1> QED
  BY <1>1, <1>2, <1>3, Zenon DEF Phases

LEMMA PhasesStep ==
  ASSUME PoolTypeOK, Control, Unused, Phases, [PoolNext]_vars
  PROVE  Phases'
<1>0. /\ Owner \in Threads /\ Workers \subseteq Threads /\ Owner \in Clients
      /\ Owner \notin Workers /\ NoThread \notin Threads
  BY ThreadPoolAssumption, Zenon
<1>1. mutex = NoThread \/ ~accepting \/ where[Owner] = "construct" =>
        \A t \in Threads : ~InSubmit(t)
  BY <1>0, Zenon DEF Phases, Unused, Unopened, InSubmit
<1>2. CASE UNCHANGED vars
  BY <1>2, Zenon DEF vars, poolVars, Phases, InSubmit
<1>3. CASE Constructed
  <2>1. /\ where[Owner] = "construct" /\ UNCHANGED <<accepting, mutex>>
        /\ \A t \in Threads : where'[t] = IF t \in Clients THEN "user" ELSE where[t]
    BY <1>3, Zenon DEF Constructed
  <2>2. where'[Owner] = "user"
    BY <1>0, <2>1, Zenon
  <2>3. \A t \in Threads : ~InSubmit(t)'
    BY <1>1, <2>1, Zenon DEF InSubmit
  <2> QED
    BY <2>2, <2>3, Zenon DEF Phases
<1>4. ASSUME NEW w \in Workers, StartWorker(w)
      PROVE  Phases'
  <2>1. Moves(w, "acquire", "idle") /\ UNCHANGED <<accepting, mutex>>
    BY <1>4, ClientMoves, Zenon DEF StartWorker
  <2> QED
    BY <1>0, <2>1, PhasesMove, Zenon DEF Moves, InSubmit
<1>5. ASSUME NEW t \in Threads, NEW x \in Tasks, Submit(t, x)
      PROVE  Phases'
  <2>1. /\ Moves(t, "submit", "push_load") /\ mutex = NoThread /\ mutex' = t
        /\ accepting /\ accepting' = accepting
    BY <1>5, SubmitMoves, Zenon DEF Submit
  <2>2. \A u \in Threads : InSubmit(u)' => u = t
    BY <1>1, <2>1, Zenon DEF Moves, Only, InSubmit
  <2>3. where'[Owner] \notin {"stopping", "leave", "join", "gone"}
    BY <1>0, <2>1, Zenon DEF Moves, Only, Phases
  <2> QED
    BY <2>1, <2>2, <2>3, Zenon DEF Phases
<1>6. ASSUME NEW t \in Threads, NEW x \in Tasks, SubmitTooLate(t, x)
      PROVE  Phases'
  BY <1>6, Zenon DEF SubmitTooLate, Phases, InSubmit
<1>7. ASSUME NEW t \in Threads, InQueue(t)
      PROVE  Phases'
  BY <1>7, Zenon DEF InQueue, poolVars, Phases, InSubmit
<1>8. ASSUME NEW t \in Threads, SubmitStep(t)
      PROVE  Phases'
  <2>1. CASE SubmitRelease(t)
    <3>1. Moves(t, "unlock", "push_ok") /\ where[t] = "submit" /\ UNCHANGED <<accepting, mutex>>
      BY <2>1, SubmitMoves, Zenon DEF SubmitRelease
    <3> QED
      BY <1>0, <3>1, PhasesMove, Zenon DEF Moves, InSubmit
  <2>2. CASE SubmitRefused(t) \/ SubmitUnlock(t)
    <3>1. /\ Moves(t, IF t \in Workers THEN "run" ELSE "user", "idle")
          /\ where[t] \in {"submit", "unlock"} /\ accepting' = accepting
      BY <2>2, SubmitMoves, Zenon DEF SubmitRefused, SubmitUnlock
    <3>2. mutex = t /\ accepting
      BY <3>1, Zenon DEF Phases, InSubmit
    <3>3. \A u \in Threads : ~InSubmit(u)'
      BY <3>1, <3>2, Zenon DEF Phases, InSubmit, Moves, Only
    <3>4. where'[Owner] \notin {"stopping", "leave", "join", "gone"}
      BY <1>0, <3>1, <3>2, Zenon DEF Moves, Only, Phases
    <3> QED
      BY <3>1, <3>2, <3>3, <3>4, Zenon DEF Phases
  <2> QED
    BY <1>8, <2>1, <2>2, Zenon DEF SubmitStep
<1>9. ASSUME NEW w \in Workers, WorkerStep(w)
      PROVE  Phases'
  <2>1. /\ Only(w) /\ where'[w] \notin {"submit", "unlock"}
    BY <1>9, WorkerMoves, Zenon DEF WorkerStep, Moves
  <2>2. UNCHANGED <<accepting, mutex>>
    BY <1>9, Zenon DEF WorkerStep, Acquire, Begin, PopFails, TestStop, TaskReturns, TaskThrows, Catch
  <2> QED
    BY <1>0, <2>1, <2>2, PhasesMove, Zenon DEF InSubmit
<1>10. ASSUME NEW w \in Workers, RequestStop(w)
       PROVE  Phases'
  BY <1>10, Zenon DEF RequestStop, Phases, InSubmit
<1>11. CASE Shutdown \/ ConstructFails
  <2>1. /\ Only(Owner) /\ where'[Owner] \in {"stopping", "join"} /\ ~accepting'
        /\ (mutex = NoThread \/ where[Owner] = "construct")
    BY <1>11, ClientMoves, Zenon DEF Shutdown, ConstructFails, Moves
  <2>2. \A t \in Threads : ~InSubmit(t)'
    BY <1>0, <1>1, <2>1, Zenon DEF Only, InSubmit
  <2> QED
    BY <2>1, <2>2, Zenon DEF Phases
<1>12. CASE ReleaseWorkers \/ Join
  <2>1. /\ Only(Owner) /\ where'[Owner] \in {"leave", "join", "user", "gone"}
        /\ where[Owner] \in {"stopping", "join"} /\ UNCHANGED <<accepting, mutex>>
    BY <1>12, ClientMoves, Zenon DEF ReleaseWorkers, Join, Moves
  <2> QED
    BY <1>0, <2>1, PhasesMove, Zenon DEF InSubmit
<1>13. CASE ShutdownUnlock
  <2>1. /\ Only(Owner) /\ where'[Owner] = "join" /\ where[Owner] = "leave"
        /\ accepting' = accepting
    BY <1>13, ClientMoves, Zenon DEF ShutdownUnlock, Moves
  <2>2. ~accepting
    BY <2>1, Zenon DEF Phases
  <2>3. \A t \in Threads : ~InSubmit(t)'
    BY <1>0, <1>1, <2>1, <2>2, Zenon DEF Only, InSubmit
  <2> QED
    BY <2>1, <2>2, <2>3, Zenon DEF Phases
<1>14. CASE take_errors
  BY <1>14, Zenon DEF take_errors, Phases, InSubmit
<1> QED
  BY <1>2, <1>3, <1>4, <1>5, <1>6, <1>7, <1>8, <1>9, <1>10, <1>11, <1>12, <1>13, <1>14, Zenon
  DEF PoolNext, ConstructStep, ShutdownStep

----------------------------------------------------------------------------
(* A pool whose constructor has not returned was not used.                 *)

LEMMA OpenedMove ==
  ASSUME NEW t \in Threads, Only(t), where'[t] # "unborn",
         t = Owner => where'[t] \notin {"construct", "gone"} \/ Unopened,
         Owner \in Threads, Workers \subseteq Threads
  PROVE  Unopened' => Unopened
BY Zenon DEF Unopened, Started, Only

LEMMA UnusedMove ==
  ASSUME Unused, NEW t \in Threads, Only(t), Unopened' => Unopened,
         Unopened => /\ enqueue_pos' = enqueue_pos /\ at'[t] # "pop_ok"
                     /\ where'[t] \notin {"user", "submit", "unlock", "run", "catch"}
  PROVE  Unused'
BY Zenon DEF Unused, Only

\* The thread inside push() or pop().
LEMMA Inside ==
  ASSUME Control, Phases, NEW t \in Threads
  PROVE  /\ at[t] \in InPush => InSubmit(t) /\ mutex = t /\ accepting
         /\ at[t] \in InPop => t \in Workers /\ where[t] = "pop"
<1>1. Fits(t, where[t], at[t])
  BY Zenon DEF Control
<1>2. at[t] \in InPush => InSubmit(t)
  BY <1>1, Zenon DEF Fits, InPush, InPop, InSubmit
<1>3. at[t] \in InPop => where[t] = "pop"
  BY <1>1, Zenon DEF Fits, InPush, InPop
<1>4. where[t] = "pop" => t \in Workers
  BY <1>1, ThreadPoolAssumption, Zenon DEF Fits
<1> QED
  BY <1>2, <1>3, <1>4, Zenon DEF Phases

LEMMA UnusedStep ==
  ASSUME QueueInv, PoolTypeOK, Control, Phases, Unused, [PoolNext]_vars
  PROVE  Unused'
<1>0. /\ Owner \in Threads /\ Workers \subseteq Threads /\ Owner \in Clients
      /\ Owner \notin Workers
  BY ThreadPoolAssumption, Zenon
<1> USE DEF queueVars, ring
<1>1. CASE UNCHANGED vars
  BY <1>1, Zenon DEF vars, poolVars, calls, Unused, Unopened, Started
<1>2. CASE Constructed
  <2>1. /\ Started = Workers
        /\ \A t \in Threads : where'[t] = IF t \in Clients THEN "user" ELSE where[t]
    BY <1>2, Zenon DEF Constructed
  <2>2. where'[Owner] = "user"
    BY <1>0, <2>1, Zenon
  <2>3. Started' = Workers
    BY <1>0, <2>1, ThreadPoolAssumption, Zenon DEF Started
  <2> QED
    BY <2>2, <2>3, Zenon DEF Unused, Unopened
<1>3. ASSUME NEW w \in Workers, StartWorker(w)
      PROVE  Unused'
  <2>1. /\ Moves(w, "acquire", "idle") /\ where[Owner] = "construct"
        /\ enqueue_pos' = enqueue_pos
    BY <1>3, ClientMoves, Zenon DEF StartWorker
  <2> QED
    BY <1>0, <2>1, UnusedMove, Zenon DEF Moves, Unopened
<1>4. ASSUME NEW t \in Threads, NEW x \in Tasks, Submit(t, x)
      PROVE  Unused'
  <2>1. Moves(t, "submit", "push_load") /\ where[t] \in {"user", "run"}
    BY <1>4, SubmitMoves, Zenon DEF Submit
  <2>2. ~Unopened
    BY <2>1, Zenon DEF Unused
  <2> QED
    BY <1>0, <2>1, <2>2, OpenedMove, UnusedMove, Zenon DEF Moves
<1>5. ASSUME NEW t \in Threads, NEW x \in Tasks, SubmitTooLate(t, x)
      PROVE  Unused'
  BY <1>5, Zenon DEF SubmitTooLate, calls, Unused, Unopened, Started
<1>6. ASSUME NEW t \in Threads, InQueue(t)
      PROVE  Unused'
  <2>1. /\ Only(t) /\ where' = where
        /\ \/ Searches(t) \/ PushClaim(t) \/ PushData(t) \/ PushPublish(t)
           \/ Looks(t) \/ PopClaim(t) \/ PopData(t) \/ PopFree(t)
    BY <1>6, InQueueMoves, Zenon DEF poolVars
  <2>2. Unopened' <=> Unopened
    BY <2>1, Zenon DEF Unopened, Started
  <2>3. ASSUME Unopened
        PROVE  enqueue_pos' = enqueue_pos /\ at'[t] # "pop_ok"
    <3>1. /\ where[t] \notin {"user", "submit", "unlock", "run", "catch"}
          /\ enqueue_pos = 0
      BY <2>3, Zenon DEF Unused
    <3>2. at[t] \notin InPush
      BY <3>1, Inside, Zenon DEF InSubmit
    <3>3. ~Popping(t)
      BY <3>1, Typed, SMTT(30) DEF QueueInv, Consumers, Bounds
    <3>4. Looks(t) \/ PopClaim(t)
      BY <2>1, <3>2, <3>3, QueueMoves, Zenon DEF InPush, Trying, Popping
    <3>5. at'[t] # "pop_ok"
      BY <3>4, QueueMoves, Zenon DEF Seeking
    <3>6. enqueue_pos' = enqueue_pos
      BY <3>4, QueueMoves, Zenon DEF PopClaim
    <3> QED
      BY <3>5, <3>6, Zenon
  <2>4. Unopened => where'[t] \notin {"user", "submit", "unlock", "run", "catch"}
    BY <2>1, Zenon DEF Unused
  <2> QED
    BY <2>1, <2>2, <2>3, <2>4, UnusedMove, Zenon
<1>7. ASSUME NEW t \in Threads, SubmitStep(t)
      PROVE  Unused'
  <2>1. /\ Only(t) /\ where[t] \in {"submit", "unlock"}
        /\ where'[t] \in {"unlock", "run", "user"}
    BY <1>7, SubmitMoves, Zenon DEF SubmitStep, SubmitRefused, SubmitRelease, SubmitUnlock, Moves
  <2>2. ~Unopened
    BY <2>1, Zenon DEF Unused
  <2> QED
    BY <1>0, <2>1, <2>2, OpenedMove, UnusedMove, Zenon
<1>8. ASSUME NEW w \in Workers, WorkerStep(w)
      PROVE  Unused'
  <2>1. /\ Only(w) /\ at'[w] # "pop_ok"
        /\ where'[w] \in {"pop", "run", "test", "exited", "acquire", "catch"}
        /\ where'[w] \in {"run", "catch"} => at[w] = "pop_ok" \/ where[w] = "run"
    BY <1>8, WorkerMoves, Zenon
    DEF WorkerStep, Begin, TaskThrows, Moves
  <2>2. Unopened => where'[w] \notin {"user", "submit", "unlock", "run", "catch"}
    BY <1>0, <2>1, Zenon DEF Unused
  <2>3. Unopened' => Unopened
    BY <1>0, <2>1, OpenedMove, Zenon
  <2>4. enqueue_pos' = enqueue_pos
    BY <1>8, Zenon DEF WorkerStep, Acquire, Begin, PopFails, TestStop, TaskReturns, TaskThrows, Catch,
      Pop, Return
  <2> QED
    BY <1>0, <2>1, <2>2, <2>3, <2>4, UnusedMove, Zenon
<1>9. ASSUME NEW w \in Workers, RequestStop(w)
      PROVE  Unused'
  BY <1>9, Zenon DEF RequestStop, calls, Unused, Unopened, Started
<1>10. CASE Shutdown \/ ConstructFails \/ ReleaseWorkers \/ ShutdownUnlock \/ Join
  <2>1. /\ Only(Owner) /\ at'[Owner] = "idle" /\ enqueue_pos' = enqueue_pos
        /\ where'[Owner] \in {"stopping", "leave", "join", "user", "gone"}
        /\ where'[Owner] = "gone" => Started # Workers
        /\ where'[Owner] = "user" => where[Owner] = "join" /\ Started = Workers
    BY <1>10, ClientMoves, Zenon
    DEF Shutdown, ConstructFails, ReleaseWorkers, ShutdownUnlock, Join, Moves
  <2>2. where'[Owner] = "user" => ~Unopened
    BY <2>1, Zenon DEF Unopened
  <2>3. Unopened' => Unopened
    BY <1>0, <2>1, OpenedMove, Zenon DEF Unopened
  <2> QED
    BY <1>0, <2>1, <2>2, <2>3, UnusedMove, Zenon
<1>11. CASE take_errors
  BY <1>11, Zenon DEF take_errors, calls, Unused, Unopened, Started
<1> QED
  BY <1>1, <1>2, <1>3, <1>4, <1>5, <1>6, <1>7, <1>8, <1>9, <1>10, <1>11, Zenon
  DEF PoolNext, ConstructStep, ShutdownStep

----------------------------------------------------------------------------
(* The tokens of the semaphore.                                            *)

LEMMA ReleasedStays ==
  ASSUME PoolTypeOK, Control, Phases, [PoolNext]_vars
  PROVE  Released => Released'
<1>0. Owner \in Threads /\ Workers \subseteq Threads /\ Owner \notin Workers
  BY ThreadPoolAssumption, Zenon
<1>1. ASSUME NEW t \in Threads, Only(t), where'[t] # "stopping", accepting' = accepting
      PROVE  Released => Released'
  BY <1>0, <1>1, Zenon DEF Released, Only
<1>2. CASE UNCHANGED vars
  BY <1>2, Zenon DEF vars, poolVars, Released
<1>3. CASE Constructed
  <2>1. where[Owner] = "construct"
    BY <1>3, Zenon DEF Constructed
  <2> QED
    BY <2>1, Zenon DEF Phases, Released
<1>4. ASSUME NEW w \in Workers, StartWorker(w)
      PROVE  Released => Released'
  BY <1>0, <1>1, <1>4, ClientMoves, Zenon DEF Moves, StartWorker
<1>5. ASSUME NEW t \in Threads, NEW x \in Tasks, Submit(t, x) \/ SubmitTooLate(t, x)
      PROVE  Released => Released'
  <2>1. CASE Submit(t, x)
    BY <1>1, <2>1, SubmitMoves, Zenon DEF Moves, Submit
  <2>2. CASE SubmitTooLate(t, x)
    BY <2>2, Zenon DEF SubmitTooLate, Released
  <2> QED
    BY <1>5, <2>1, <2>2, Zenon
<1>6. ASSUME NEW t \in Threads, InQueue(t)
      PROVE  Released => Released'
  BY <1>6, Zenon DEF InQueue, poolVars, Released
<1>7. ASSUME NEW t \in Threads, SubmitStep(t)
      PROVE  Released => Released'
  BY <1>1, <1>7, SubmitMoves, Zenon DEF SubmitStep, SubmitRefused, SubmitRelease, SubmitUnlock, Moves
<1>8. ASSUME NEW w \in Workers, WorkerStep(w)
      PROVE  Released => Released'
  <2>1. Only(w)
    BY <1>8, WorkerMoves, Zenon DEF WorkerStep, Moves
  <2>2. accepting' = accepting
    BY <1>8, Zenon DEF WorkerStep, Acquire, Begin, PopFails, TestStop, TaskReturns, TaskThrows, Catch
  <2> QED
    BY <1>0, <2>1, <2>2, Zenon DEF Released, Only
<1>9. ASSUME NEW w \in Workers, RequestStop(w)
      PROVE  Released => Released'
  BY <1>9, Zenon DEF RequestStop, Released
<1>10. CASE Shutdown
  <2>1. where'[Owner] = (IF accepting THEN "stopping" ELSE "join") /\ ~accepting'
    BY <1>10, ClientMoves, Zenon DEF Moves, Shutdown
  <2> QED
    BY <2>1, Zenon DEF Released
<1>11. CASE ConstructFails
  <2>1. where[Owner] = "construct"
    BY <1>11, Zenon DEF ConstructFails
  <2> QED
    BY <2>1, Zenon DEF Phases, Released
<1>12. CASE ReleaseWorkers \/ ShutdownUnlock \/ Join
  BY <1>0, <1>1, <1>12, ClientMoves, Zenon DEF Moves, ReleaseWorkers, ShutdownUnlock, Join
<1>13. CASE take_errors
  BY <1>13, Zenon DEF take_errors, Released
<1> QED
  BY <1>2, <1>3, <1>4, <1>5, <1>6, <1>7, <1>8, <1>9, <1>10, <1>11, <1>12, <1>13, Zenon
  DEF PoolNext, ConstructStep, ShutdownStep

\* What the proofs use of the number of threads in a set.
Counted ==
  /\ Cardinality({}) = 0
  /\ \A S \in SUBSET Workers :
       /\ Cardinality(S) \in Nat
       /\ \A w \in S : Cardinality(S) >= 1 /\ Cardinality(S \ {w}) = Cardinality(S) - 1
       /\ \A w \in Workers \ S : Cardinality(S \cup {w}) = Cardinality(S) + 1

LEMMA PoppersCounted ==
  ASSUME Counted
  PROVE  /\ Poppers \in SUBSET Workers /\ Cardinality(Poppers) \in Nat
         /\ \A w \in Poppers : /\ Cardinality(Poppers) >= 1
                              /\ Cardinality(Poppers \ {w}) = Cardinality(Poppers) - 1
         /\ \A w \in Workers \ Poppers : Cardinality(Poppers \cup {w}) = Cardinality(Poppers) + 1
<1>1. Poppers \in SUBSET Workers
  BY Zenon DEF Poppers
<1> QED
  BY <1>1, Zenon DEF Counted

LEMMA UncommittedMove ==
  ASSUME NEW t \in Threads, Only(t), Committing(t)' <=> Committing(t)
  PROVE  Uncommitted' = Uncommitted
<1>1. \A u \in Threads : Committing(u)' <=> Committing(u)
  BY Zenon DEF Committing, Committed, Only
<1> QED
  BY <1>1, Zenon DEF Uncommitted

LEMMA PoppersMove ==
  ASSUME NEW t \in Threads, Only(t), at'[t] \in Seeking <=> at[t] \in Seeking
  PROVE  Poppers' = Poppers
BY ThreadPoolAssumption, Zenon DEF Poppers, Only

\* A step that touches neither tokens nor positions.
LEMMA TokensQuiet ==
  ASSUME Tokens, Released => Released', NEW t \in Threads, Only(t),
         at'[t] \in Seeking <=> at[t] \in Seeking, Committing(t)' <=> Committing(t),
         UNCHANGED <<available, enqueue_pos, dequeue_pos>>
  PROVE  Tokens'
<1>1. Poppers' = Poppers /\ Uncommitted' = Uncommitted
  BY PoppersMove, UncommittedMove, Zenon
<1> QED
  BY <1>1, Zenon DEF Tokens

\* A pop() fails only when shutdown() has released its tokens, and then on an
\* empty ring: before, there is a token for every task in the ring.
LEMMA FailureLate ==
  ASSUME Counted, QueueInv, PoolTypeOK, Control, Phases, Latest, Tokens,
         NEW t \in Threads, Looks(t), at'[t] \notin Seeking
  PROVE  Released /\ enqueue_pos = dequeue_pos
<1>0. enqueue_pos \in Nat /\ dequeue_pos \in Nat /\ pos[t] \in Nat
      /\ sequence[SlotOf(pos[t])] \in Nat /\ available \in Nat
  BY Typed, Zenon DEF PoolTypeOK
<1>1. PopSeq(t) /\ at[t] = "pop_seq" /\ at'[t] = "pop_failed"
  BY QueueMoves, Zenon DEF PopSeq
<1>2. sequence[SlotOf(pos[t])] - (pos[t] + 1) < 0
  BY <1>1, Domains, Zenon DEF PopSeq, Goto
<1>3. sequence[SlotOf(pos[t])] < pos[t] + 1
  BY <1>0, <1>2
<1>4. \/ enqueue_pos = dequeue_pos
      \/ \E u \in Threads : at[u] \in {"push_data", "push_publish"} /\ pos[u] = dequeue_pos
  BY <1>1, <1>3, PopFailsRightly, Zenon
<1>5. t \in Poppers
  BY <1>1, Inside, Zenon DEF Poppers, Seeking, InPop
<1>6. Cardinality(Poppers) \in Nat /\ Cardinality(Poppers) >= 1
  BY <1>5, PoppersCounted, Zenon
<1>7. ASSUME NEW u \in Threads, at[u] \in {"push_data", "push_publish"}, pos[u] = dequeue_pos
      PROVE  FALSE
  <2>1. InSubmit(u) /\ accepting
    BY <1>7, Inside, Zenon DEF InPush
  <2>2. where[u] = "submit"
    BY <1>7, <2>1, Zenon DEF InSubmit, Control, Fits
  <2>3. Uncommitted = 1
    BY <1>7, <2>2, Zenon DEF Uncommitted, Committing, Committed
  <2>4. enqueue_pos = dequeue_pos + 1
    BY <1>0, <1>7, Zenon DEF Latest, Pushing
  <2>5. ~Released
    BY <2>1, Zenon DEF Released
  <2>6. available + Cardinality(Poppers) + 1 = 1
    BY <1>0, <2>3, <2>4, <2>5 DEF Tokens
  <2> QED
    BY <1>0, <1>6, <2>6
<1>8. enqueue_pos = dequeue_pos
  BY <1>4, <1>7, Zenon
<1>9. ASSUME ~Released PROVE FALSE
  <2>1. available + Cardinality(Poppers) + Uncommitted = 0
    BY <1>0, <1>8, <1>9 DEF Tokens
  <2>2. Uncommitted \in Nat
    BY Zenon DEF Uncommitted
  <2> QED
    BY <1>0, <1>6, <2>1, <2>2
<1> QED
  BY <1>8, <1>9, Zenon

LEMMA TokensStep ==
  ASSUME Counted, QueueInv, PoolTypeOK, Control, Phases, Unused, Latest, Tokens,
         [PoolNext]_vars
  PROVE  Tokens'
<1>0. Owner \in Threads /\ Workers \subseteq Threads /\ available \in Nat
  BY ThreadPoolAssumption, Zenon DEF PoolTypeOK
<1>r. Released => Released'
  BY ReleasedStays, Zenon
<1>c. /\ Cardinality(Poppers) \in Nat
      /\ \A w \in Poppers : Cardinality(Poppers) >= 1
  BY PoppersCounted, Zenon
<1>e. enqueue_pos \in Nat /\ dequeue_pos \in Nat
  BY Typed, Zenon
<1>1. ASSUME UNCHANGED <<where, at, available, enqueue_pos, dequeue_pos>>
      PROVE  Tokens'
  BY <1>1, <1>r, Zenon DEF Tokens, Poppers, Uncommitted, Committing, Committed
<1>2. CASE Constructed
  <2>1. /\ UNCHANGED <<at, available, enqueue_pos, dequeue_pos>> /\ Unopened
        /\ \A t \in Threads : where'[t] = IF t \in Clients THEN "user" ELSE where[t]
    BY <1>2, Zenon DEF Constructed, Unopened, queueVars, ring, calls
  <2>2. \A t \in Threads : Committing(t)' <=> Committing(t)
    BY <2>1, Zenon DEF Committing, Committed, Unused
  <2>3. Uncommitted' = Uncommitted /\ Poppers' = Poppers
    BY <2>1, <2>2, Zenon DEF Uncommitted, Poppers
  <2> QED
    BY <1>r, <2>1, <2>3, Zenon DEF Tokens
<1>3. ASSUME NEW w \in Workers, StartWorker(w)
      PROVE  Tokens'
  <2>1. Moves(w, "acquire", "idle") /\ Only(w) /\ at[w] = "idle" /\ where[w] = "unborn"
    BY <1>0, <1>3, ClientMoves, Zenon DEF StartWorker, Moves, Control, Fits
  <2>2. UNCHANGED <<available, enqueue_pos, dequeue_pos>>
    BY <1>3, Zenon DEF StartWorker, queueVars, ring
  <2> QED
    BY <1>0, <1>r, <2>1, <2>2, TokensQuiet, Zenon DEF Moves, Committing, Committed, Seeking
<1>4. ASSUME NEW t \in Threads, NEW x \in Tasks, Submit(t, x)
      PROVE  Tokens'
  <2>1. /\ Moves(t, "submit", "push_load") /\ at[t] = "idle"
        /\ UNCHANGED <<available, enqueue_pos, dequeue_pos>>
    BY <1>4, SubmitMoves, Zenon DEF Submit, Push, ring
  <2> QED
    BY <1>r, <2>1, TokensQuiet, Zenon DEF Moves, Committing, Committed, Seeking
<1>5. ASSUME NEW t \in Threads, InQueue(t)
      PROVE  Tokens'
  <2>1. /\ Only(t) /\ UNCHANGED <<where, available>>
        /\ \/ Searches(t) \/ PushClaim(t) \/ PushData(t) \/ PushPublish(t)
           \/ Looks(t) \/ PopClaim(t) \/ PopData(t) \/ PopFree(t)
    BY <1>5, InQueueMoves, Zenon DEF poolVars
  <2>2. CASE Searches(t) \/ PushData(t) \/ PushPublish(t) \/ PopData(t) \/ PopFree(t)
    <3>1. UNCHANGED <<enqueue_pos, dequeue_pos>>
      BY <2>2, QueueMoves, Zenon DEF ring, PushData, PushPublish, PopData, PopFree
    <3>2. at'[t] \notin Seeking /\ at[t] \notin Seeking
      BY <2>2, QueueMoves, Zenon DEF Trying, Seeking
    <3>3. Committing(t)' <=> Committing(t)
      BY <2>1, <2>2, QueueMoves, Zenon DEF Trying, Committing, Committed
    <3> QED
      BY <1>r, <2>1, <3>1, <3>2, <3>3, TokensQuiet, Zenon
  <2>3. CASE Looks(t)
    <3>1. UNCHANGED <<enqueue_pos, dequeue_pos>> /\ ~Committing(t) /\ ~Committing(t)'
          /\ at[t] \in Seeking
      BY <2>3, QueueMoves, Zenon DEF ring, Committing, Committed, Seeking
    <3>2. CASE at'[t] \in Seeking
      BY <1>r, <2>1, <3>1, <3>2, TokensQuiet, Zenon
    <3>3. CASE at'[t] \notin Seeking
      <4>1. Released
        BY <2>3, <3>3, FailureLate, Zenon
      <4> QED
        BY <1>r, <4>1, Zenon DEF Tokens
    <3> QED
      BY <3>2, <3>3, Zenon
  <2>4. CASE PopClaim(t)
    <3>1. /\ at[t] \in Seeking /\ at'[t] = "pop_data"
          /\ enqueue_pos' = enqueue_pos /\ dequeue_pos' = dequeue_pos + 1
      BY <2>4, QueueMoves, Zenon DEF PopClaim
    <3>2. t \in Workers
      BY <3>1, Inside, Zenon DEF Seeking, InPop
    <3>3. Poppers' = Poppers \ {t} /\ t \in Poppers
      BY <1>0, <2>1, <3>1, <3>2, Zenon DEF Poppers, Only, Seeking
    <3>4. Cardinality(Poppers') = Cardinality(Poppers) - 1
      BY <3>3, PoppersCounted, Zenon
    <3>5. Uncommitted' = Uncommitted
      BY <2>1, <3>1, UncommittedMove, Zenon DEF Committing, Committed, Seeking
    <3>6. Uncommitted \in Nat
      BY Zenon DEF Uncommitted
    <3> QED
      BY <1>0, <1>c, <1>e, <1>r, <2>1, <3>1, <3>4, <3>5, <3>6 DEF Tokens
  <2>5. CASE PushClaim(t)
    <3>1. /\ at[t] \in Trying /\ at'[t] = "push_data"
          /\ enqueue_pos' = enqueue_pos + 1 /\ dequeue_pos' = dequeue_pos
      BY <2>5, QueueMoves, Zenon DEF PushClaim
    <3>2. InSubmit(t) /\ mutex = t
      BY <3>1, Inside, Zenon DEF Trying, InPush
    <3>3. \A u \in Threads : ~Committing(u)
      BY <3>1, <3>2, Zenon DEF Phases, InSubmit, Committing, Committed, Trying
    <3>4. where[t] = "submit"
      BY <3>1, <3>2, Zenon DEF InSubmit, Control, Fits, Trying
    <3>5. Uncommitted = 0 /\ Uncommitted' = 1
      BY <2>1, <3>1, <3>3, <3>4, Zenon DEF Uncommitted, Committing, Committed
    <3>6. Poppers' = Poppers
      BY <2>1, <3>1, PoppersMove, Zenon DEF Trying, Seeking
    <3> QED
      BY <1>0, <1>c, <1>e, <1>r, <2>1, <3>1, <3>5, <3>6 DEF Tokens
  <2> QED
    BY <2>1, <2>2, <2>3, <2>4, <2>5, Zenon
<1>6. ASSUME NEW t \in Threads, SubmitRefused(t) \/ SubmitUnlock(t)
      PROVE  Tokens'
  <2>1. /\ Only(t) /\ at'[t] = "idle" /\ where'[t] \in {"run", "user"}
        /\ UNCHANGED <<available, enqueue_pos, dequeue_pos>>
        /\ at[t] \in {"push_ok", "push_failed"} /\ ~Committing(t)
    BY <1>6, SubmitMoves, Zenon
    DEF SubmitRefused, SubmitUnlock, Return, ring, Moves, Control, Fits, Committing, Committed
  <2> QED
    BY <1>r, <2>1, TokensQuiet, Zenon DEF Committing, Committed, Seeking
<1>7. ASSUME NEW t \in Threads, SubmitRelease(t)
      PROVE  Tokens'
  <2>1. /\ Moves(t, "unlock", "push_ok") /\ available' = available + 1
        /\ UNCHANGED <<enqueue_pos, dequeue_pos, mutex>>
        /\ where[t] = "submit" /\ at[t] = "push_ok"
    BY <1>7, SubmitMoves, Zenon DEF SubmitRelease, queueVars, ring
  <2>2. mutex = t
    BY <2>1, Inside, Zenon DEF InPush
  <2>3. \A u \in Threads : ~Committing(u)'
    BY <2>1, <2>2, Zenon DEF Phases, InSubmit, Committing, Committed, Moves, Only
  <2>4. Uncommitted = 1 /\ Uncommitted' = 0
    BY <2>1, <2>3, Zenon DEF Uncommitted, Committing, Committed
  <2>5. Poppers' = Poppers
    BY <2>1, PoppersMove, Zenon DEF Moves
  <2> QED
    BY <1>0, <1>c, <1>e, <1>r, <2>1, <2>4, <2>5 DEF Tokens
<1>8. ASSUME NEW w \in Workers, Acquire(w)
      PROVE  Tokens'
  <2>1. /\ Moves(w, "pop", "pop_load") /\ at[w] = "idle" /\ where[w] = "acquire"
        /\ available > 0 /\ available' = available - 1
        /\ UNCHANGED <<enqueue_pos, dequeue_pos>>
    BY <1>8, WorkerMoves, Zenon DEF Acquire, Pop, ring
  <2>2. Poppers' = Poppers \cup {w} /\ w \notin Poppers
    BY <1>0, <2>1, Zenon DEF Poppers, Moves, Only, Seeking
  <2>3. Cardinality(Poppers') = Cardinality(Poppers) + 1
    BY <2>2, PoppersCounted, Zenon
  <2>4. Uncommitted' = Uncommitted
    BY <1>0, <2>1, UncommittedMove, Zenon DEF Committing, Committed, Moves
  <2>5. Uncommitted \in Nat
    BY Zenon DEF Uncommitted
  <2> QED
    BY <1>0, <1>c, <1>e, <1>r, <2>1, <2>3, <2>4, <2>5 DEF Tokens
<1>9. ASSUME NEW w \in Workers,
             Begin(w) \/ PopFails(w) \/ TestStop(w) \/ TaskReturns(w) \/ TaskThrows(w) \/ Catch(w)
      PROVE  Tokens'
  <2>1. Only(w) /\ at'[w] = "idle" /\ where'[w] # "submit"
    BY <1>9, WorkerMoves, Zenon DEF Moves
  <2>2. where[w] \in {"pop", "test", "run", "catch"} /\ (where[w] = "pop" => at[w] \notin Seeking)
    BY <1>9, Zenon DEF Begin, PopFails, TestStop, TaskReturns, TaskThrows, Catch, Seeking
  <2>3. at[w] \notin Seeking
    BY <1>0, <2>2, Zenon DEF Control, Fits, Seeking
  <2>4. UNCHANGED <<available, enqueue_pos, dequeue_pos>>
    BY <1>9, Zenon DEF Begin, PopFails, TestStop, TaskReturns, TaskThrows, Catch, Return, queueVars, ring
  <2> QED
    BY <1>0, <1>r, <2>1, <2>2, <2>3, <2>4, TokensQuiet, Zenon DEF Committing, Committed, Seeking
<1>10. CASE Shutdown \/ ConstructFails \/ ShutdownUnlock \/ Join
  <2>1. /\ Only(Owner) /\ at'[Owner] = "idle" /\ where'[Owner] # "submit"
        /\ where[Owner] \in {"user", "construct", "leave", "join"}
    BY <1>10, ClientMoves, Zenon DEF Shutdown, ConstructFails, ShutdownUnlock, Join, Moves
  <2>2. at[Owner] = "idle"
    BY <1>0, <2>1, Zenon DEF Control, Fits
  <2>3. UNCHANGED <<available, enqueue_pos, dequeue_pos>>
    BY <1>10, Zenon DEF Shutdown, ConstructFails, ShutdownUnlock, Join, queueVars, ring
  <2> QED
    BY <1>0, <1>r, <2>1, <2>2, <2>3, TokensQuiet, Zenon DEF Committing, Committed, Seeking
<1>11. CASE ReleaseWorkers
  <2>1. where[Owner] = "stopping" /\ where'[Owner] # "stopping" /\ accepting' = accepting
    BY <1>11, ClientMoves, Zenon DEF ReleaseWorkers, Moves
  <2>2. Released'
    BY <2>1, Zenon DEF Released, Phases
  <2> QED
    BY <2>2, Zenon DEF Tokens
<1>12. CASE \/ UNCHANGED vars \/ take_errors \/ \E w \in Workers : RequestStop(w)
            \/ \E t \in Threads, x \in Tasks : SubmitTooLate(t, x)
  BY <1>1, <1>12, Zenon
  DEF vars, queueVars, calls, ring, poolVars, take_errors, RequestStop, SubmitTooLate
<1> QED
  BY <1>2, <1>3, <1>4, <1>5, <1>6, <1>7, <1>8, <1>9, <1>10, <1>11, <1>12, Zenon
  DEF PoolNext, ConstructStep, SubmitStep, WorkerStep, ShutdownStep

LEMMA LatestStep ==
  ASSUME QueueInv, PoolTypeOK, Control, Phases, Latest, [PoolNext]_vars
  PROVE  Latest'
<1>1. ASSUME NEW t \in Threads, Only(t), UNCHANGED enqueue_pos, at'[t] \notin {"push_data", "push_publish"}
      PROVE  Latest'
  BY <1>1, Zenon DEF Latest, Pushing, Only
<1>2. ASSUME UNCHANGED queueVars
      PROVE  Latest'
  BY <1>2, Zenon DEF queueVars, ring, calls, Latest, Pushing
<1>3. ASSUME NEW t \in Threads, NEW x \in Tasks, Submit(t, x)
      PROVE  Latest'
  BY <1>1, <1>3, SubmitMoves, Zenon DEF Submit, Push, ring, Moves
<1>4. ASSUME NEW t \in Threads, InQueue(t)
      PROVE  Latest'
  <2>1. /\ Only(t)
        /\ \/ Searches(t) \/ PushClaim(t) \/ PushData(t) \/ PushPublish(t)
           \/ Looks(t) \/ PopClaim(t) \/ PopData(t) \/ PopFree(t)
    BY <1>4, InQueueMoves, Zenon
  <2>2. CASE Searches(t) \/ PushPublish(t) \/ Looks(t) \/ PopClaim(t) \/ PopData(t) \/ PopFree(t)
    <3>1. UNCHANGED enqueue_pos
      BY <2>2, QueueMoves, Zenon DEF ring, PushPublish, PopClaim, PopData, PopFree
    <3>2. at'[t] \notin {"push_data", "push_publish"}
      BY <2>2, QueueMoves, Zenon DEF Trying, Seeking
    <3> QED
      BY <1>1, <2>1, <3>1, <3>2, Zenon
  <2>3. CASE PushClaim(t)
    <3>1. /\ at[t] \in Trying /\ enqueue_pos = pos[t] /\ enqueue_pos' = enqueue_pos + 1
          /\ pos' = pos
      BY <2>3, QueueMoves, Zenon DEF PushClaim
    <3>2. mutex = t
      BY <3>1, Inside, Zenon DEF Trying, InPush
    <3>3. ASSUME NEW u \in Threads, u # t
          PROVE  ~Pushing(u)'
      <4>1. at'[u] = at[u]
        BY <2>1, <3>3, Zenon DEF Only
      <4>2. at[u] \notin InPush
        BY <3>2, <3>3, Inside, Zenon
      <4> QED
        BY <4>1, <4>2, Zenon DEF Pushing, InPush
    <3> QED
      BY <3>1, <3>3, Zenon DEF Latest
  <2>4. CASE PushData(t)
    <3>1. at[t] = "push_data" /\ UNCHANGED <<enqueue_pos, pos>>
      BY <2>4, Zenon DEF PushData
    <3> QED
      BY <2>1, <3>1, Zenon DEF Latest, Pushing, Only
  <2> QED
    BY <2>1, <2>2, <2>3, <2>4, Zenon
<1>5. ASSUME NEW t \in Threads, SubmitRefused(t) \/ SubmitUnlock(t)
      PROVE  Latest'
  BY <1>1, <1>5, SubmitMoves, Zenon DEF SubmitRefused, SubmitUnlock, Return, ring, Moves
<1>6. ASSUME NEW w \in Workers, Acquire(w) \/ Begin(w) \/ PopFails(w)
      PROVE  Latest'
  BY <1>1, <1>6, WorkerMoves, ThreadPoolAssumption, Zenon
  DEF Acquire, Begin, PopFails, Pop, Return, ring, Moves
<1>7. CASE OffQueue
  BY <1>2, <1>7, OffQueueKeeps, Zenon
<1> QED
  BY <1>3, <1>4, <1>5, <1>6, <1>7, PoolSteps, Zenon

----------------------------------------------------------------------------
(* A failed pop() has seen an empty ring, and the ring stays empty.        *)

LEMMA RingStaysEmpty ==
  ASSUME QueueInv, PoolTypeOK, Control, Phases, [PoolNext]_vars,
         Released, enqueue_pos = dequeue_pos
  PROVE  enqueue_pos' = dequeue_pos'
<1>1. ASSUME UNCHANGED ring
      PROVE  enqueue_pos' = dequeue_pos'
  BY <1>1, Zenon DEF ring
<1>2. ASSUME NEW t \in Threads, InQueue(t)
      PROVE  enqueue_pos' = dequeue_pos'
  <2>1. \/ Searches(t) \/ PushClaim(t) \/ PushData(t) \/ PushPublish(t)
        \/ Looks(t) \/ PopClaim(t) \/ PopData(t) \/ PopFree(t)
    BY <1>2, InQueueMoves, Zenon
  <2>2. ~PushClaim(t)
    <3>1. at[t] \notin InPush
      BY Inside, Zenon DEF Released
    <3> QED
      BY <3>1, QueueMoves, Zenon DEF Trying, InPush
  <2>3. ~PopClaim(t)
    <3>1. ASSUME PopClaim(t) PROVE FALSE
      <4>1. at[t] = "pop_claim" /\ pos[t] = dequeue_pos
        BY <3>1, Zenon DEF PopClaim
      <4>2. sequence[SlotOf(dequeue_pos)] = dequeue_pos + 1
        BY <4>1, Zenon DEF QueueInv, Candidates
      <4>3. dequeue_pos < enqueue_pos
        BY <4>2, ClaimIsPublished, Zenon
      <4> QED
        BY <4>3, Typed
    <3> QED
      BY <3>1, Zenon
  <2> QED
    BY <2>1, <2>2, <2>3, QueueMoves, Zenon DEF ring, PushData, PushPublish, PopData, PopFree
<1>3. CASE \/ \E t \in Threads, x \in Tasks : Submit(t, x)
           \/ \E t \in Threads : SubmitRefused(t) \/ SubmitUnlock(t)
           \/ \E w \in Workers : Acquire(w) \/ Begin(w) \/ PopFails(w)
  BY <1>1, <1>3, Zenon DEF Submit, SubmitRefused, SubmitUnlock, Acquire, Begin, PopFails,
    Push, Pop, Return
<1>4. CASE OffQueue
  BY <1>1, <1>4, OffQueueKeeps, Zenon DEF queueVars
<1> QED
  BY <1>2, <1>3, <1>4, PoolSteps, Zenon

LEMMA FailsEmptyStep ==
  ASSUME Counted, QueueInv, PoolTypeOK, Control, Phases, Latest, Tokens, FailsEmpty, [PoolNext]_vars
  PROVE  FailsEmpty'
<1>0. Owner \in Threads /\ Workers \subseteq Threads /\ Owner \notin Workers
  BY ThreadPoolAssumption, Zenon
<1>1. Released => Released'
  BY ReleasedStays, Zenon
<1>2. Released /\ enqueue_pos = dequeue_pos => enqueue_pos' = dequeue_pos'
  BY RingStaysEmpty, Zenon
<1>3. ASSUME NEW t \in Threads, Only(t),
             t \in Workers /\ Failed(t)' => Released /\ enqueue_pos = dequeue_pos
      PROVE  FailsEmpty'
  <2>1. \A w \in Workers : Failed(w)' => Released /\ enqueue_pos = dequeue_pos
    BY <1>0, <1>3, Zenon DEF FailsEmpty, Failed, Only
  <2> QED
    BY <1>1, <1>2, <2>1, Zenon DEF FailsEmpty
<1>4. ASSUME UNCHANGED <<where, at>>
      PROVE  FailsEmpty'
  BY <1>1, <1>2, <1>4, Zenon DEF FailsEmpty, Failed
<1>5. CASE Constructed
  <2>1. /\ at' = at
        /\ \A t \in Threads : where'[t] = IF t \in Clients THEN "user" ELSE where[t]
    BY <1>5, Zenon DEF Constructed, queueVars, calls
  <2>2. \A w \in Workers : Failed(w)' <=> Failed(w)
    BY <1>0, <2>1, ThreadPoolAssumption, Zenon DEF Failed
  <2> QED
    BY <1>1, <1>2, <2>2, Zenon DEF FailsEmpty
<1>6. ASSUME NEW w \in Workers, StartWorker(w)
      PROVE  FailsEmpty'
  BY <1>0, <1>3, <1>6, ClientMoves, Zenon DEF Moves, Failed
<1>7. ASSUME NEW t \in Threads, NEW x \in Tasks, Submit(t, x)
      PROVE  FailsEmpty'
  BY <1>3, <1>7, SubmitMoves, Zenon DEF Moves, Failed
<1>8. ASSUME NEW t \in Threads, InQueue(t)
      PROVE  FailsEmpty'
  <2>1. /\ Only(t) /\ where' = where
        /\ \/ Searches(t) \/ PushClaim(t) \/ PushData(t) \/ PushPublish(t)
           \/ Looks(t) \/ PopClaim(t) \/ PopData(t) \/ PopFree(t)
    BY <1>8, InQueueMoves, Zenon DEF poolVars
  <2>2. at'[t] = "pop_failed" => Looks(t)
    BY <2>1, QueueMoves, Zenon DEF Trying
  <2>3. at'[t] = "pop_failed" => Released /\ enqueue_pos = dequeue_pos
    BY <2>2, FailureLate, Zenon DEF Seeking
  <2>4. t \in Workers /\ Failed(t)' => Released /\ enqueue_pos = dequeue_pos
    BY <2>1, <2>3, Zenon DEF Failed, FailsEmpty
  <2> QED
    BY <1>3, <2>1, <2>4, Zenon
<1>9. ASSUME NEW t \in Threads, SubmitStep(t)
      PROVE  FailsEmpty'
  BY <1>3, <1>9, SubmitMoves, Zenon DEF SubmitStep, Moves, Failed
<1>10. ASSUME NEW w \in Workers, PopFails(w) \/ TestStop(w)
       PROVE  FailsEmpty'
  <2>1. Failed(w)
    BY <1>10, Zenon DEF PopFails, TestStop, Failed
  <2>2. Only(w)
    BY <1>10, WorkerMoves, Zenon DEF Moves
  <2> QED
    BY <1>0, <1>3, <2>1, <2>2, Zenon DEF FailsEmpty
<1>11. ASSUME NEW w \in Workers,
              Acquire(w) \/ Begin(w) \/ TaskReturns(w) \/ TaskThrows(w) \/ Catch(w)
       PROVE  FailsEmpty'
  BY <1>0, <1>3, <1>11, WorkerMoves, Zenon DEF Moves, Failed
<1>12. CASE Shutdown \/ ConstructFails \/ ReleaseWorkers \/ ShutdownUnlock \/ Join
  BY <1>0, <1>3, <1>12, ClientMoves, Zenon DEF Moves
<1>13. CASE \/ UNCHANGED vars \/ take_errors \/ \E w \in Workers : RequestStop(w)
            \/ \E t \in Threads, x \in Tasks : SubmitTooLate(t, x)
  BY <1>4, <1>13, Zenon
  DEF vars, queueVars, calls, poolVars, take_errors, RequestStop, SubmitTooLate
<1> QED
  BY <1>5, <1>6, <1>7, <1>8, <1>9, <1>10, <1>11, <1>12, <1>13, Zenon
  DEF PoolNext, ConstructStep, WorkerStep, ShutdownStep

----------------------------------------------------------------------------
(* The submitted tasks.                                                    *)

LEMMA LogTyped ==
  ASSUME QueueInv
  PROVE  /\ log \in Seq(Tasks) /\ Len(log) \in Nat /\ Len(log) = enqueue_pos
         /\ \A i \in Positions : i \in Nat /\ log[i] \in Tasks
BY DEF QueueInv, QueueTypeOK, Bounds, Tasks, Positions

\* A step after which every submit() has its task where it had it.
LEMMA SubmittedQuiet ==
  ASSUME Submitted, NEW t \in Threads, Only(t), UNCHANGED <<log, fate>>,
         InSubmit(t)' <=> InSubmit(t),
         InSubmit(t) => arg'[t] = arg[t] /\ (Committed(t)' <=> Committed(t))
  PROVE  Submitted'
<1>1. \A u \in Threads :
        /\ InSubmit(u)' <=> InSubmit(u)
        /\ InSubmit(u) => arg'[u] = arg[u] /\ (Committed(u)' <=> Committed(u))
  BY Zenon DEF Only, InSubmit, Committed
<1>2. \A x : Logged(x)' <=> Logged(x)
  BY Zenon DEF Logged, Positions
<1>3. \A u \in Threads : InSubmit(u) => (Placed(u)' <=> Placed(u))
  BY <1>1, <1>2, Zenon DEF Placed
<1> QED
  BY <1>1, <1>2, <1>3, Zenon DEF Submitted, Positions

LEMMA Alike ==
  ASSUME UNCHANGED <<log, fate, where, at, arg>>, Submitted
  PROVE  Submitted'
BY DEF Submitted, Placed, InSubmit, Committed, Logged, Positions

LEMMA SubmittedClaim ==
  ASSUME QueueInv, PoolTypeOK, Control, Phases, Submitted,
         NEW t \in Threads, InQueue(t), PushClaim(t)
  PROVE  Submitted'
<1> DEFINE x == arg[t]
<1>0. log \in Seq(Tasks) /\ Len(log) \in Nat
  BY LogTyped, Zenon
<1>1. /\ Only(t) /\ arg'[t] = x /\ UNCHANGED <<where, fate>>
      /\ at[t] \in Trying /\ at'[t] = "push_data"
  BY InQueueMoves, QueueMoves, Zenon DEF poolVars
<1>2. InSubmit(t) /\ mutex = t
  BY <1>1, Inside, Zenon DEF Trying, InPush
<1>3. \A u \in Threads : InSubmit(u) => u = t
  BY <1>2, Zenon DEF Phases
<1>4. x \in Tasks /\ ~Logged(x) /\ fate[x] = "submitted"
  BY <1>1, <1>2, Zenon DEF Submitted, Placed, Committed, Trying
<1>5. log' = Append(log, x)
  BY Zenon DEF PushClaim
<1>6. /\ Len(log') = Len(log) + 1 /\ log'[Len(log) + 1] = x
      /\ \A i \in Positions : log'[i] = log[i]
  BY <1>0, <1>4, <1>5, AppendFacts DEF Positions
<1>7. Positions' = Positions \cup {Len(log) + 1} /\ Len(log) + 1 \notin Positions
  BY <1>0, <1>6 DEF Positions
<1>8. \A y : Logged(y)' <=> Logged(y) \/ y = x
  BY <1>6, <1>7, Zenon DEF Logged
<1>9. \A i, j \in Positions' : log'[i] = log'[j] => i = j
  BY <1>4, <1>6, <1>7 DEF Logged, Submitted
<1>10. \A u \in Threads : InSubmit(u)' => u = t
  BY <1>1, <1>3, Zenon DEF InSubmit
<1>11. InSubmit(t)' /\ Committed(t)'
  BY <1>1, <1>2, Zenon DEF InSubmit, Committed
<1> HIDE DEF x
<1>12. ASSUME NEW y \in Tasks
       PROVE  /\ Logged(y)' => fate'[y] \in Kept
              /\ fate'[y] \in Kept =>
                   Logged(y)' \/ \E u \in Threads : InSubmit(u)' /\ arg'[u] = y
  BY <1>1, <1>3, <1>4, <1>8, <1>11, SMTT(30) DEF Submitted, Kept
<1>13. \A u \in Threads : InSubmit(u)' => Placed(u)'
  <2>1. Placed(t)'
    BY <1>1, <1>4, <1>8, <1>11, Zenon DEF Placed
  <2> QED
    BY <1>10, <2>1, Zenon
<1> QED
  BY <1>9, <1>12, <1>13, Zenon DEF Submitted

LEMMA SubmittedStep ==
  ASSUME QueueInv, PoolTypeOK, Control, Phases, Unused, Submitted, Counts, Running,
         [PoolNext]_vars
  PROVE  Submitted'
<1>0. /\ Owner \in Threads /\ Workers \subseteq Threads /\ NoThread \notin Threads
      /\ DOMAIN fate = Tasks
  BY ThreadPoolAssumption, Zenon DEF PoolTypeOK
<1>n. mutex = NoThread => \A t \in Threads : ~InSubmit(t)
  BY <1>0, Zenon DEF Phases
<1>1. ASSUME NEW t \in Threads, Only(t), UNCHANGED <<log, fate>>, ~InSubmit(t), ~InSubmit(t)'
      PROVE  Submitted'
  BY <1>1, SubmittedQuiet, Zenon
<1>l. ASSUME UNCHANGED log
      PROVE  (\A x : Logged(x)' <=> Logged(x)) /\ Positions' = Positions
  BY <1>l, Zenon DEF Logged, Positions
<1>2. CASE Constructed
  <2>1. /\ UNCHANGED <<log, fate, at, arg>> /\ where[Owner] = "construct"
        /\ \A t \in Threads : where'[t] = IF t \in Clients THEN "user" ELSE where[t]
    BY <1>2, Zenon DEF Constructed, queueVars, calls
  <2>2. \A t \in Threads : ~InSubmit(t) /\ ~InSubmit(t)'
    BY <2>1, Zenon DEF InSubmit, Unused, Unopened
  <2>3. UNCHANGED <<log, fate>>
    BY <2>1, Zenon
  <2> QED
    BY <1>l, <2>2, <2>3, Zenon DEF Submitted
<1>3. ASSUME NEW w \in Workers, StartWorker(w)
      PROVE  Submitted'
  <2>1. /\ Moves(w, "acquire", "idle") /\ where[w] = "unborn" /\ UNCHANGED <<log, fate>>
    BY <1>3, ClientMoves, Zenon DEF StartWorker, queueVars
  <2> QED
    BY <1>0, <1>1, <2>1, Zenon DEF Moves, InSubmit
<1>4. ASSUME NEW t \in Threads, NEW x \in Tasks, Submit(t, x)
      PROVE  Submitted'
  <2>1. /\ Moves(t, "submit", "push_load") /\ arg'[t] = x /\ log' = log
        /\ mutex = NoThread /\ fate[x] = "new"
        /\ fate' = [fate EXCEPT ![x] = "submitted"]
    BY <1>4, SubmitMoves, Zenon DEF Submit, Push
  <2>2. ~Logged(x) /\ \A y \in Tasks : Logged(y) <=> fate[y] \in Kept
    BY <1>n, <2>1, Zenon DEF Submitted, Kept
  <2>3. /\ \A u \in Threads : InSubmit(u)' <=> u = t
        /\ ~Committed(t)'
    BY <1>n, <2>1, Zenon DEF Moves, Only, InSubmit, Committed
  <2>4. /\ fate'[x] = "submitted"
        /\ \A y \in Tasks : y # x => fate'[y] = fate[y]
    BY <1>0, <2>1, Zenon
  <2>5. Placed(t)'
    BY <1>l, <2>1, <2>2, <2>3, <2>4, Zenon DEF Placed
  <2>6. \A y \in Tasks :
          /\ Logged(y)' => fate'[y] \in Kept
          /\ fate'[y] \in Kept => Logged(y)' \/ (InSubmit(t)' /\ arg'[t] = y)
    BY <1>l, <2>1, <2>2, <2>3, <2>4, Zenon
  <2> QED
    BY <1>l, <2>1, <2>3, <2>5, <2>6, Zenon DEF Submitted
<1>5. ASSUME NEW t \in Threads, NEW x \in Tasks, SubmitTooLate(t, x)
      PROVE  Submitted'
  <2>1. /\ UNCHANGED <<where, log>> /\ mutex = NoThread /\ fate[x] = "new"
        /\ fate' = [fate EXCEPT ![x] = "refused"]
    BY <1>5, Zenon DEF SubmitTooLate, queueVars
  <2>2. \A y \in Tasks : Logged(y) <=> fate[y] \in Kept
    BY <1>n, <2>1, Zenon DEF Submitted
  <2>3. \A u \in Threads : ~InSubmit(u)'
    BY <1>n, <2>1, Zenon DEF InSubmit
  <2>4. \A y \in Tasks : fate'[y] \in Kept <=> fate[y] \in Kept
    BY <1>0, <2>1, Zenon DEF Kept
  <2> QED
    BY <1>l, <2>1, <2>2, <2>3, <2>4, Zenon DEF Submitted
<1>6. ASSUME NEW t \in Threads, InQueue(t)
      PROVE  Submitted'
  <2>1. /\ Only(t) /\ arg'[t] = arg[t] /\ UNCHANGED <<where, fate>>
        /\ \/ Searches(t) \/ PushClaim(t) \/ PushData(t) \/ PushPublish(t)
           \/ Looks(t) \/ PopClaim(t) \/ PopData(t) \/ PopFree(t)
    BY <1>6, InQueueMoves, Zenon DEF poolVars
  <2>2. CASE PushClaim(t)
    BY <1>6, <2>2, SubmittedClaim, Zenon
  <2>3. CASE ~PushClaim(t)
    <3>1. log' = log
      BY <2>1, <2>3, QueueMoves, Zenon DEF PushData, PushPublish, PopClaim, PopData, PopFree
    <3>2. Committed(t)' <=> Committed(t)
      BY <2>1, <2>3, QueueMoves, Zenon DEF Committed, Trying, Seeking
    <3> QED
      BY <2>1, <3>1, <3>2, SubmittedQuiet, Zenon DEF InSubmit
  <2> QED
    BY <2>2, <2>3, Zenon
<1>7. ASSUME NEW t \in Threads, SubmitRefused(t)
      PROVE  Submitted'
  <2>1. /\ Only(t) /\ where'[t] \notin {"submit", "unlock"} /\ log' = log
        /\ where[t] = "submit" /\ at[t] = "push_failed"
        /\ fate' = [fate EXCEPT ![arg[t]] = "refused"]
    BY <1>7, SubmitMoves, Zenon DEF SubmitRefused, Return, Moves
  <2>2. mutex = t /\ InSubmit(t)
    BY <2>1, Zenon DEF Phases, InSubmit
  <2>3. arg[t] \in Tasks /\ ~Logged(arg[t])
    BY <2>1, <2>2, Zenon DEF Submitted, Placed, Committed
  <2>4. \A u \in Threads : (InSubmit(u) => u = t) /\ ~InSubmit(u)'
    BY <2>1, <2>2, Zenon DEF Phases, InSubmit, Only
  <2>5. /\ fate'[arg[t]] = "refused"
        /\ \A y \in Tasks : y # arg[t] => fate'[y] = fate[y]
    BY <1>0, <2>1, <2>3, Zenon
  <2>6. \A y \in Tasks : Logged(y) <=> fate'[y] \in Kept
    BY <2>3, <2>4, <2>5 DEF Submitted, Kept
  <2> QED
    BY <1>l, <2>1, <2>4, <2>6, Zenon DEF Submitted
<1>8. ASSUME NEW t \in Threads, SubmitUnlock(t)
      PROVE  Submitted'
  <2>1. /\ Only(t) /\ where'[t] \notin {"submit", "unlock"} /\ log' = log
        /\ where[t] = "unlock" /\ at[t] = "push_ok"
        /\ fate' = [fate EXCEPT ![arg[t]] = IF @ = "submitted" THEN "accepted" ELSE @]
    BY <1>8, SubmitMoves, Zenon DEF SubmitUnlock, Return, Moves, Control, Fits
  <2>2. mutex = t /\ InSubmit(t)
    BY <2>1, Zenon DEF Phases, InSubmit
  <2>3. arg[t] \in Tasks /\ Logged(arg[t])
    BY <2>1, <2>2, Zenon DEF Submitted, Placed, Committed
  <2>4. \A u \in Threads : (InSubmit(u) => u = t) /\ ~InSubmit(u)'
    BY <2>1, <2>2, Zenon DEF Phases, InSubmit, Only
  <2>5. /\ fate'[arg[t]] \in Kept <=> fate[arg[t]] \in Kept
        /\ \A y \in Tasks : y # arg[t] => fate'[y] = fate[y]
    BY <1>0, <2>1, <2>3, Zenon DEF Kept
  <2>6. \A y \in Tasks : Logged(y) <=> fate'[y] \in Kept
    BY <2>3, <2>4, <2>5 DEF Submitted
  <2> QED
    BY <1>l, <2>1, <2>4, <2>6, Zenon DEF Submitted
<1>9. ASSUME NEW t \in Threads, SubmitRelease(t)
      PROVE  Submitted'
  <2>1. /\ Moves(t, "unlock", "push_ok") /\ Keeps(t) /\ UNCHANGED <<log, fate>>
        /\ where[t] = "submit" /\ at[t] = "push_ok"
    BY <1>9, SubmitMoves, Zenon DEF SubmitRelease, queueVars
  <2> QED
    BY <2>1, SubmittedQuiet, Zenon DEF Moves, Keeps, InSubmit, Committed
<1>10. ASSUME NEW w \in Workers, Acquire(w) \/ Begin(w) \/ PopFails(w) \/ TestStop(w) \/ Catch(w)
       PROVE  Submitted'
  <2>1. Only(w) /\ where'[w] \notin {"submit", "unlock"}
    BY <1>10, WorkerMoves, Zenon DEF Moves
  <2>2. /\ UNCHANGED <<log, fate>>
        /\ where[w] \notin {"submit", "unlock"}
    BY <1>10, Zenon DEF Acquire, Begin, PopFails, TestStop, Catch, Pop, Return, queueVars
  <2> QED
    BY <1>0, <1>1, <2>1, <2>2, Zenon DEF InSubmit
<1>11. ASSUME NEW w \in Workers, TaskReturns(w) \/ TaskThrows(w)
       PROVE  Submitted'
  <2>1. Only(w) /\ where'[w] \notin {"submit", "unlock"}
    BY <1>11, WorkerMoves, Zenon DEF Moves
  <2>2. /\ where[w] = "run" /\ UNCHANGED <<log, at, arg>>
        /\ \/ fate' = [fate EXCEPT ![running[w]] = "returned"]
           \/ fate' = [fate EXCEPT ![running[w]] = "threw"]
    BY <1>11, Zenon DEF TaskReturns, TaskThrows, queueVars, calls
  <2>3. running[w] \in Tasks /\ runs[running[w]] = 1
    BY <2>2, Zenon DEF Running, InTask
  <2>4. Logged(running[w])
    BY <2>3, Zenon DEF Counts, Logged
  <2>5. /\ fate'[running[w]] \in Kept /\ fate[running[w]] \in Kept
        /\ \A y \in Tasks : y # running[w] => fate'[y] = fate[y]
    BY <1>0, <2>2, <2>3, <2>4 DEF Submitted, Kept
  <2>6. \A u \in Threads : InSubmit(u)' <=> InSubmit(u)
    BY <1>0, <2>1, <2>2, Zenon DEF InSubmit, Only
  <2>7. \A u \in Threads : Placed(u) => Placed(u)'
    BY <1>l, <2>2, <2>4, <2>5, Zenon DEF Placed, Committed
  <2>8. \A y \in Tasks : fate'[y] \in Kept <=> fate[y] \in Kept
    BY <2>5, Zenon
  <2> QED
    BY <1>l, <2>2, <2>6, <2>7, <2>8, Zenon DEF Submitted
<1>12. CASE Shutdown \/ ConstructFails \/ ReleaseWorkers \/ ShutdownUnlock \/ Join
  <2>1. /\ Only(Owner) /\ where'[Owner] \notin {"submit", "unlock"}
    BY <1>12, ClientMoves, Zenon DEF Moves
  <2>2. /\ UNCHANGED <<log, fate>> /\ where[Owner] \notin {"submit", "unlock"}
    BY <1>12, Zenon DEF Shutdown, ConstructFails, ReleaseWorkers, ShutdownUnlock, Join, queueVars
  <2> QED
    BY <1>0, <1>1, <2>1, <2>2, Zenon DEF InSubmit
<1>13. CASE UNCHANGED vars \/ take_errors \/ \E w \in Workers : RequestStop(w)
  BY <1>13, Alike, Zenon DEF vars, queueVars, calls, poolVars, take_errors, RequestStop
<1> QED
  BY <1>2, <1>3, <1>4, <1>5, <1>6, <1>7, <1>8, <1>9, <1>10, <1>11, <1>12, <1>13, Zenon
  DEF PoolNext, ConstructStep, SubmitStep, WorkerStep, ShutdownStep

=============================================================================
