---------------------------- MODULE BoundedFifo ----------------------------
(***************************************************************************)
(* What a bounded multi-producer multi-consumer queue promises: every value *)
(* a caller offers enters the queue once, the values leave in the order in  *)
(* which they entered, each to one caller, and at most Capacity are inside. *)
(***************************************************************************)
EXTENDS Naturals, Sequences

CONSTANTS
  Threads,    \* the callers
  Values,     \* what is queued
  Nothing,    \* no value
  Capacity

VARIABLES
  items,      \* the queue, oldest first
  offer,      \* what each caller wants to put
  got         \* what each caller took

fifoVars == <<items, offer, got>>

FifoInit ==
  /\ items = <<>>
  /\ offer = [t \in Threads |-> Nothing]
  /\ got = [t \in Threads |-> Nothing]

Offer(t, v) ==
  /\ offer' = [offer EXCEPT ![t] = v]
  /\ UNCHANGED <<items, got>>

Put(t) ==
  /\ Len(items) < Capacity
  /\ items' = Append(items, offer[t])
  /\ UNCHANGED <<offer, got>>

Take(t) ==
  /\ items # <<>>
  /\ items' = Tail(items)
  /\ got' = [got EXCEPT ![t] = Head(items)]
  /\ UNCHANGED offer

\* The caller is done with its value.
Leave(t) ==
  /\ offer' = [offer EXCEPT ![t] = Nothing]
  /\ got' = [got EXCEPT ![t] = Nothing]
  /\ UNCHANGED items

FifoNext ==
  \E t \in Threads :
    \/ \E v \in Values : Offer(t, v)
    \/ Put(t)
    \/ Take(t)
    \/ Leave(t)

FifoSpec == FifoInit /\ [][FifoNext]_fifoVars

=============================================================================
