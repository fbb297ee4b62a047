----------------------------- MODULE MPMCQueue -----------------------------
(***************************************************************************)
(* MPMCQueue: the bounded multi-producer multi-consumer ring.  Each access  *)
(* to shared memory is one step of the calling thread, so every             *)
(* interleaving of pushes and pops is a behaviour.  Memory is sequentially  *)
(* consistent, but a relaxed load of a position may return an old value,    *)
(* and compare_exchange_weak may fail spuriously.                           *)
(*                                                                          *)
(* Positions are natural numbers: the wrap of a 64-bit size_t is out of     *)
(* reach.                                                                   *)
(***************************************************************************)
EXTENDS Integers, Sequences

CONSTANTS
  Threads,      \* threads that call push() and pop()
  Values,       \* what is queued
  Nothing,      \* a default-constructed or moved-from value
  Capacity,
  StaleLoads,   \* whether relaxed loads may return old positions
  MaxPushes     \* bound: no push() begins after this many have claimed a slot

ASSUME MPMCQueueAssumption ==
  /\ Nothing \notin Values
  /\ Capacity \in Nat \ {0, 1}
  /\ StaleLoads \in BOOLEAN
  /\ MaxPushes \in Nat

VARIABLES
  enqueue_pos,  \* enqueue_pos_
  dequeue_pos,  \* dequeue_pos_
  sequence,     \* Slot::sequence
  data,         \* Slot::data
  at,           \* where each thread is in push() or pop()
  pos,          \* the local pos of each thread
  arg,          \* the argument of push()
  out,          \* the output parameter of pop()
  log           \* the values in the order of their positions, for the properties

ring == <<enqueue_pos, dequeue_pos, sequence, data>>
calls == <<at, pos, arg, out>>
queueVars == <<ring, calls, log>>

Slots == 0..(Capacity - 1)

\* pos & mask_, with Capacity a power of two.
SlotOf(p) == p % Capacity

Places == {"idle",
           "push_load", "push_seq", "push_claim", "push_data", "push_publish",
           "push_ok", "push_failed",
           "pop_load", "pop_seq", "pop_claim", "pop_data", "pop_free",
           "pop_ok", "pop_failed"}

\* Queue state has the types its declarations give it.
QueueTypeOK ==
  /\ enqueue_pos \in Nat
  /\ dequeue_pos \in Nat
  /\ sequence \in [Slots -> Nat]
  /\ data \in [Slots -> Values \cup {Nothing}]
  /\ at \in [Threads -> Places]
  /\ pos \in [Threads -> Nat]
  /\ arg \in [Threads -> Values \cup {Nothing}]
  /\ out \in [Threads -> Values \cup {Nothing}]
  /\ log \in Seq(Values)

QueueInit ==
  /\ enqueue_pos = 0
  /\ dequeue_pos = 0
  /\ sequence = [i \in Slots |-> i]
  /\ data = [i \in Slots |-> Nothing]
  /\ at = [t \in Threads |-> "idle"]
  /\ pos = [t \in Threads |-> 0]
  /\ arg = [t \in Threads |-> Nothing]
  /\ out = [t \in Threads |-> Nothing]
  /\ log = <<>>

Goto(t, place) == at' = [at EXCEPT ![t] = place]

\* What a relaxed load of a position, now p, may return.
Loadable(p) == IF StaleLoads THEN 0..p ELSE {p}

----------------------------------------------------------------------------
(* push()                                                                  *)

Push(t, v) ==
  /\ at[t] = "idle"
  /\ Len(log) < MaxPushes
  /\ arg' = [arg EXCEPT ![t] = v]
  /\ Goto(t, "push_load")
  /\ UNCHANGED <<ring, pos, out, log>>

PushLoad(t) ==
  /\ at[t] = "push_load"
  /\ \E p \in Loadable(enqueue_pos) : pos' = [pos EXCEPT ![t] = p]
  /\ Goto(t, "push_seq")
  /\ UNCHANGED <<ring, arg, out, log>>

\* Mutant: any sequence but the expected one counts as full.
PushSeqNotEqual(t) ==
  LET diff == sequence[SlotOf(pos[t])] - pos[t] IN
  /\ at[t] = "push_seq"
  /\ \/ diff = 0 /\ Goto(t, "push_claim")
     \/ diff # 0 /\ Goto(t, "push_failed")
  /\ UNCHANGED <<ring, pos, arg, out, log>>

\* The acquire load of the slot's sequence and the three-way test on it.
PushSeq(t) ==
  LET diff == sequence[SlotOf(pos[t])] - pos[t] IN
  /\ at[t] = "push_seq"
  /\ \/ diff = 0 /\ Goto(t, "push_claim")
     \/ diff < 0 /\ Goto(t, "push_failed")
     \/ diff > 0 /\ Goto(t, "push_load")
  /\ UNCHANGED <<ring, pos, arg, out, log>>

\* compare_exchange_weak succeeds.
PushClaim(t) ==
  /\ at[t] = "push_claim"
  /\ enqueue_pos = pos[t]
  /\ enqueue_pos' = enqueue_pos + 1
  /\ log' = Append(log, arg[t])
  /\ Goto(t, "push_data")
  /\ UNCHANGED <<dequeue_pos, sequence, data, pos, arg, out>>

\* compare_exchange_weak fails and pos gets the value it read.
PushMiss(t) ==
  /\ at[t] = "push_claim"
  /\ \E p \in Loadable(enqueue_pos) : pos' = [pos EXCEPT ![t] = p]
  /\ Goto(t, "push_seq")
  /\ UNCHANGED <<ring, arg, out, log>>

\* Mutant: the slot is computed from enqueue_pos_ after the claim.
PushDataAtEnd(t) ==
  /\ at[t] = "push_data"
  /\ data' = [data EXCEPT ![SlotOf(enqueue_pos)] = arg[t]]
  /\ Goto(t, "push_publish")
  /\ UNCHANGED <<enqueue_pos, dequeue_pos, sequence, pos, arg, out, log>>

PushData(t) ==
  /\ at[t] = "push_data"
  /\ data' = [data EXCEPT ![SlotOf(pos[t])] = arg[t]]
  /\ Goto(t, "push_publish")
  /\ UNCHANGED <<enqueue_pos, dequeue_pos, sequence, pos, arg, out, log>>

PushPublish(t) ==
  /\ at[t] = "push_publish"
  /\ sequence' = [sequence EXCEPT ![SlotOf(pos[t])] = pos[t] + 1]
  /\ Goto(t, "push_ok")
  /\ UNCHANGED <<enqueue_pos, dequeue_pos, data, pos, arg, out, log>>

----------------------------------------------------------------------------
(* pop()                                                                   *)

Pop(t) ==
  /\ at[t] = "idle"
  /\ Goto(t, "pop_load")
  /\ UNCHANGED <<ring, pos, arg, out, log>>

PopLoad(t) ==
  /\ at[t] = "pop_load"
  /\ \E p \in Loadable(dequeue_pos) : pos' = [pos EXCEPT ![t] = p]
  /\ Goto(t, "pop_seq")
  /\ UNCHANGED <<ring, arg, out, log>>

PopSeq(t) ==
  LET diff == sequence[SlotOf(pos[t])] - (pos[t] + 1) IN
  /\ at[t] = "pop_seq"
  /\ \/ diff = 0 /\ Goto(t, "pop_claim")
     \/ diff < 0 /\ Goto(t, "pop_failed")
     \/ diff > 0 /\ Goto(t, "pop_load")
  /\ UNCHANGED <<ring, pos, arg, out, log>>

\* Mutant: a store without a comparison.
PopClaimNoCompare(t) ==
  /\ at[t] = "pop_claim"
  /\ dequeue_pos' = pos[t] + 1
  /\ Goto(t, "pop_data")
  /\ UNCHANGED <<enqueue_pos, sequence, data, pos, arg, out, log>>

PopClaim(t) ==
  /\ at[t] = "pop_claim"
  /\ dequeue_pos = pos[t]
  /\ dequeue_pos' = dequeue_pos + 1
  /\ Goto(t, "pop_data")
  /\ UNCHANGED <<enqueue_pos, sequence, data, pos, arg, out, log>>

PopMiss(t) ==
  /\ at[t] = "pop_claim"
  /\ \E p \in Loadable(dequeue_pos) : pos' = [pos EXCEPT ![t] = p]
  /\ Goto(t, "pop_seq")
  /\ UNCHANGED <<ring, arg, out, log>>

\* Mutant: the sequence is stored before the data is moved out.
PopDataAfterFree(t) ==
  /\ at[t] = "pop_data"
  /\ sequence' = [sequence EXCEPT ![SlotOf(pos[t])] = pos[t] + Capacity]
  /\ out' = [out EXCEPT ![t] = data[SlotOf(pos[t])]]
  /\ Goto(t, "pop_free")
  /\ UNCHANGED <<enqueue_pos, dequeue_pos, data, pos, arg, log>>

\* val = std::move(slot.data)
PopData(t) ==
  /\ at[t] = "pop_data"
  /\ out' = [out EXCEPT ![t] = data[SlotOf(pos[t])]]
  /\ data' = [data EXCEPT ![SlotOf(pos[t])] = Nothing]
  /\ Goto(t, "pop_free")
  /\ UNCHANGED <<enqueue_pos, dequeue_pos, sequence, pos, arg, log>>

PopFree(t) ==
  /\ at[t] = "pop_free"
  /\ sequence' = [sequence EXCEPT ![SlotOf(pos[t])] = pos[t] + Capacity]
  /\ Goto(t, "pop_ok")
  /\ UNCHANGED <<enqueue_pos, dequeue_pos, data, pos, arg, out, log>>

----------------------------------------------------------------------------

Returned(t) == at[t] \in {"push_ok", "push_failed", "pop_ok", "pop_failed"}

\* The call is over; its locals and the caller's value are gone.
Return(t) ==
  /\ Returned(t)
  /\ Goto(t, "idle")
  /\ pos' = [pos EXCEPT ![t] = 0]
  /\ arg' = [arg EXCEPT ![t] = Nothing]
  /\ out' = [out EXCEPT ![t] = Nothing]
  /\ UNCHANGED <<ring, log>>

\* The steps of a thread inside push() or pop().
PushStep(t) ==
  PushLoad(t) \/ PushSeq(t) \/ PushClaim(t) \/ PushMiss(t) \/ PushData(t)
    \/ PushPublish(t)

PopStep(t) ==
  PopLoad(t) \/ PopSeq(t) \/ PopClaim(t) \/ PopMiss(t) \/ PopData(t) \/ PopFree(t)

QueueNext ==
  \E t \in Threads :
    \/ \E v \in Values : Push(t, v)
    \/ Pop(t)
    \/ PushStep(t)
    \/ PopStep(t)
    \/ Return(t)

QueueSpec == QueueInit /\ [][QueueNext]_queueVars

----------------------------------------------------------------------------
(* Properties.                                                             *)

\* Between its compare_exchange and its store of the sequence a thread owns
\* the data of the slot it claimed.
Owns(t) == at[t] \in {"push_data", "push_publish", "pop_data", "pop_free"}

\* Slot::data is never accessed by two threads at once: the sequence numbers
\* hand each slot from its producer to its consumer and back.
SlotExclusive ==
  \A t, u \in Threads :
    Owns(t) /\ Owns(u) /\ SlotOf(pos[t]) = SlotOf(pos[u]) => t = u

\* The values whose pushes have claimed a position and whose pops have not,
\* and what each thread has popped: at its compare_exchange, the value in the
\* slot it claimed.
Items == SubSeq(log, dequeue_pos + 1, enqueue_pos)

Got ==
  [t \in Threads |-> IF at[t] = "pop_data" THEN data[SlotOf(pos[t])] ELSE out[t]]

Fifo == INSTANCE BoundedFifo WITH items <- Items, offer <- arg, got <- Got

\* The queue behaves as a bounded FIFO whose elements enter and leave at the
\* two compare_exchange steps: nothing is lost, duplicated or reordered, and
\* pop() moves out the value that was pushed at its position.
RefinesFifo == Fifo!FifoSpec

\* The push at position p has stored its sequence and no pop has claimed it.
Published(p) ==
  dequeue_pos <= p /\ p < enqueue_pos /\ sequence[SlotOf(p)] = p + 1

\* push() and pop() report failure only for a reason: the ring is full or
\* empty, or the very next slot is still held by the thread that claimed it
\* one round earlier or that is filling it.  A stale position never makes
\* them fail.
FailsRightly ==
  [][\A t \in Threads :
       /\ at[t] = "push_seq" /\ at'[t] = "push_failed" =>
            \/ enqueue_pos = dequeue_pos + Capacity
            \/ \E u \in Threads : /\ at[u] \in {"pop_data", "pop_free"}
                                  /\ pos[u] + Capacity = enqueue_pos
       /\ at[t] = "pop_seq" /\ at'[t] = "pop_failed" =>
            \/ enqueue_pos = dequeue_pos
            \/ \E u \in Threads : /\ at[u] \in {"push_data", "push_publish"}
                                  /\ pos[u] = dequeue_pos]_queueVars

=============================================================================
