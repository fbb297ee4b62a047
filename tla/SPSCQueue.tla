----------------------------- MODULE SPSCQueue -----------------------------
(***************************************************************************)
(* SPSCQueue: the ring of one producer and one consumer.  Each access to    *)
(* shared memory is one step.  An acquire load of the other side's index    *)
(* may return any value between the one this side saw last and the current  *)
(* one, which is what coherence and release/acquire leave open; the cells   *)
(* that the index read covers are visible.  A side reads its own index      *)
(* exactly.                                                                 *)
(*                                                                          *)
(* Indices stay in 0..Capacity-1 as in the code, so no bound is needed.     *)
(***************************************************************************)
EXTENDS Integers, Sequences

CONSTANTS
  Values,       \* what is queued
  Nothing,      \* a default-constructed or moved-from value
  Capacity

ASSUME SPSCQueueAssumption ==
  /\ Nothing \notin Values
  /\ Capacity \in Nat \ {0, 1}

VARIABLES
  head,         \* head_, stored by the consumer
  tail,         \* tail_, stored by the producer
  buffer,       \* buffer_
  head_seen,    \* the last head_ the producer loaded
  tail_seen,    \* the last tail_ the consumer loaded
  push_at,      \* where the producer is in push()
  pop_at,       \* where the consumer is in pop()
  arg,          \* the argument of push()
  val,          \* the local val of pop()
  told          \* what size() last told each side, until it changes the size

cells == <<head, tail, buffer>>
seen == <<head_seen, tail_seen>>
spscVars == <<cells, seen, push_at, pop_at, arg, val, told>>

Slots == 0..(Capacity - 1)

\* (i + 1) & mask_ and (t - h + Capacity) & mask_.
NextIndex(i) == (i + 1) % Capacity

Distance(h, t) == (t - h + Capacity) % Capacity

Unknown == -1

\* Queue state has the types its declarations give it.
SPSCTypeOK ==
  /\ head \in Slots
  /\ tail \in Slots
  /\ buffer \in [Slots -> Values \cup {Nothing}]
  /\ head_seen \in Slots
  /\ tail_seen \in Slots
  /\ push_at \in {"idle", "test", "write", "publish", "ok", "failed"}
  /\ pop_at \in {"idle", "test", "read", "publish", "ok", "failed"}
  /\ arg \in Values \cup {Nothing}
  /\ val \in Values \cup {Nothing}
  /\ told \in [{"producer", "consumer"} -> Slots \cup {Unknown}]

SPSCInit ==
  /\ head = 0
  /\ tail = 0
  /\ buffer = [i \in Slots |-> Nothing]
  /\ head_seen = 0
  /\ tail_seen = 0
  /\ push_at = "idle"
  /\ pop_at = "idle"
  /\ arg = Nothing
  /\ val = Nothing
  /\ told = [c \in {"producer", "consumer"} |-> Unknown]

\* The indices that a load of an index, now at last and seen at first, may
\* return: those on the way from first to last.
Loadable(first, last) ==
  {i \in Slots : Distance(first, i) <= Distance(first, last)}

----------------------------------------------------------------------------
(* push(), called by the producer.                                         *)

Push(v) ==
  /\ push_at = "idle"
  /\ arg' = v
  /\ push_at' = "test"
  /\ UNCHANGED <<cells, seen, pop_at, val, told>>

\* Mutant: no slot is reserved, so a full ring looks empty.
PushTestNoReserve ==
  /\ push_at = "test"
  /\ push_at' = "write"
  /\ \E h \in Loadable(head_seen, head) : head_seen' = h
  /\ UNCHANGED <<cells, tail_seen, pop_at, arg, val, told>>

\* Mutant: two cells are reserved instead of one.
PushTestTwoReserved ==
  /\ push_at = "test"
  /\ \E h \in Loadable(head_seen, head) :
       /\ head_seen' = h
       /\ push_at' = IF h \in {NextIndex(tail), NextIndex(NextIndex(tail))}
                       THEN "failed" ELSE "write"
  /\ UNCHANGED <<cells, tail_seen, pop_at, arg, val, told>>

\* The acquire load of head_ and the test for a full ring.
PushTest ==
  /\ push_at = "test"
  /\ \E h \in Loadable(head_seen, head) :
       /\ head_seen' = h
       /\ push_at' = IF NextIndex(tail) = h THEN "failed" ELSE "write"
  /\ UNCHANGED <<cells, tail_seen, pop_at, arg, val, told>>

\* Mutant: the value goes to the cell after tail_.
PushWriteAtNext ==
  /\ push_at = "write"
  /\ buffer' = [buffer EXCEPT ![NextIndex(tail)] = arg]
  /\ push_at' = "publish"
  /\ UNCHANGED <<head, tail, seen, pop_at, arg, val, told>>

PushWrite ==
  /\ push_at = "write"
  /\ buffer' = [buffer EXCEPT ![tail] = arg]
  /\ push_at' = "publish"
  /\ UNCHANGED <<head, tail, seen, pop_at, arg, val, told>>

PushPublish ==
  /\ push_at = "publish"
  /\ tail' = NextIndex(tail)
  /\ push_at' = "ok"
  /\ told' = [told EXCEPT !["producer"] = Unknown]
  /\ UNCHANGED <<head, buffer, seen, pop_at, arg, val>>

PushReturn ==
  /\ push_at \in {"ok", "failed"}
  /\ push_at' = "idle"
  /\ arg' = Nothing
  /\ UNCHANGED <<cells, seen, pop_at, val, told>>

----------------------------------------------------------------------------
(* pop(), called by the consumer.                                          *)

Pop ==
  /\ pop_at = "idle"
  /\ pop_at' = "test"
  /\ UNCHANGED <<cells, seen, push_at, arg, val, told>>

\* The acquire load of tail_ and the test for an empty ring.
PopTest ==
  /\ pop_at = "test"
  /\ \E t \in Loadable(tail_seen, tail) :
       /\ tail_seen' = t
       /\ pop_at' = IF head = t THEN "failed" ELSE "read"
  /\ UNCHANGED <<cells, head_seen, push_at, arg, val, told>>

\* T val = std::move(buffer_[head])
PopRead ==
  /\ pop_at = "read"
  /\ val' = buffer[head]
  /\ buffer' = [buffer EXCEPT ![head] = Nothing]
  /\ pop_at' = "publish"
  /\ UNCHANGED <<head, tail, seen, push_at, arg, told>>

PopPublish ==
  /\ pop_at = "publish"
  /\ head' = NextIndex(head)
  /\ pop_at' = "ok"
  /\ told' = [told EXCEPT !["consumer"] = Unknown]
  /\ UNCHANGED <<tail, buffer, seen, push_at, arg, val>>

PopReturn ==
  /\ pop_at \in {"ok", "failed"}
  /\ pop_at' = "idle"
  /\ val' = Nothing
  /\ UNCHANGED <<cells, seen, push_at, arg, told>>

----------------------------------------------------------------------------
(* size(), called by one of the two sides; empty() is size() = 0.  One of  *)
(* the two loads is of the caller's own index.                             *)

SizeForProducer ==
  /\ push_at = "idle"
  /\ \E h \in Loadable(head_seen, head) :
       /\ head_seen' = h
       /\ told' = [told EXCEPT !["producer"] = Distance(h, tail)]
  /\ UNCHANGED <<cells, tail_seen, push_at, pop_at, arg, val>>

SizeForConsumer ==
  /\ pop_at = "idle"
  /\ \E t \in Loadable(tail_seen, tail) :
       /\ tail_seen' = t
       /\ told' = [told EXCEPT !["consumer"] = Distance(head, t)]
  /\ UNCHANGED <<cells, head_seen, push_at, pop_at, arg, val>>

SPSCNext ==
  \/ \E v \in Values : Push(v)
  \/ PushTest \/ PushWrite \/ PushPublish \/ PushReturn
  \/ Pop \/ PopTest \/ PopRead \/ PopPublish \/ PopReturn
  \/ SizeForProducer \/ SizeForConsumer

SPSCSpec == SPSCInit /\ [][SPSCNext]_spscVars

----------------------------------------------------------------------------
(* Properties.                                                             *)

\* buffer_ is not atomic: the producer's assignment in push() and the
\* consumer's move in pop() never touch the same cell at once.
CellExclusive == push_at = "write" /\ pop_at = "read" => head # tail

\* The elements from head_ to tail_; the first one is already in val when
\* pop() has moved it out and not yet stored head_.
Items ==
  [i \in 1..Distance(head, tail) |->
     IF i = 1 /\ pop_at = "publish" THEN val
     ELSE buffer[(head + i - 1) % Capacity]]

Sides == {"producer", "consumer"}

Offered == [c \in Sides |-> IF c = "producer" THEN arg ELSE Nothing]

Taken == [c \in Sides |-> IF c = "consumer" /\ pop_at = "ok" THEN val ELSE Nothing]

Fifo == INSTANCE BoundedFifo
          WITH Threads <- Sides, Capacity <- Capacity - 1,
               items <- Items, offer <- Offered, got <- Taken

\* The ring is a FIFO of Capacity - 1 elements: one enters at push()'s store
\* of tail_ and leaves at pop()'s store of head_, whatever the loads of the
\* other side's index returned.
RefinesFifo == Fifo!FifoSpec

\* size() is a bound for the side that asked: until the producer pushes there
\* are at most, until the consumer pops there are at least that many.
SizeIsABound ==
  /\ told["producer"] # Unknown => Len(Items) <= told["producer"]
  /\ told["consumer"] # Unknown => told["consumer"] <= Len(Items)

\* The next call of a side does what size() promised it: push() does not fail
\* when there was room, pop() does not fail when there was an element.
PromiseKept ==
  [][/\ push_at = "test" /\ push_at' = "failed" =>
          told["producer"] \in {Unknown, Capacity - 1}
     /\ pop_at = "test" /\ pop_at' = "failed" =>
          told["consumer"] \in {Unknown, 0}]_spscVars

=============================================================================
