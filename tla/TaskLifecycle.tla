--------------------------- MODULE TaskLifecycle ---------------------------
(***************************************************************************)
(* What the executor promises of a root task: the transition diagram of the *)
(* architecture notes, with the FIFO order of the ready queue.              *)
(*                                                                          *)
(*   unborn -> ready -> running -> ready | waiting | completed              *)
(*   waiting -> ready,  completed -> destroyed                              *)
(*                                                                          *)
(* At most one task runs, a task is resumed only from the head of the       *)
(* queue, and a frame is destroyed when it completed or in tear-down.       *)
(***************************************************************************)
EXTENDS Sequences

CONSTANT Tasks

VARIABLES
  life,     \* where each task is in the diagram
  queue     \* the ready tasks, oldest first

lifeVars == <<life, queue>>

Stages == {"unborn", "ready", "running", "waiting", "completed", "destroyed"}

In(stage) == {t \in Tasks : life[t] = stage}

LifeInit ==
  /\ life = [t \in Tasks |-> "unborn"]
  /\ queue = <<>>

Spawned(t) ==
  /\ life[t] = "unborn"
  /\ life' = [life EXCEPT ![t] = "ready"]
  /\ queue' = Append(queue, t)

\* The executor could not take the task over.
Refused(t) ==
  /\ life[t] = "unborn"
  /\ life' = [life EXCEPT ![t] = "destroyed"]
  /\ UNCHANGED queue

Resumed ==
  /\ queue # <<>>
  /\ In("running") = {}
  /\ life' = [life EXCEPT ![Head(queue)] = "running"]
  /\ queue' = Tail(queue)

Yielded(t) ==
  /\ life[t] = "running"
  /\ life' = [life EXCEPT ![t] = "ready"]
  /\ queue' = Append(queue, t)

Blocked(t) ==
  /\ life[t] = "running"
  /\ life' = [life EXCEPT ![t] = "waiting"]
  /\ UNCHANGED queue

Woken(t) ==
  /\ life[t] = "waiting"
  /\ life' = [life EXCEPT ![t] = "ready"]
  /\ queue' = Append(queue, t)

\* A close wakes the reader and the writer of a descriptor, in this order.
BothWoken(t, u) ==
  /\ t # u
  /\ life[t] = "waiting"
  /\ life[u] = "waiting"
  /\ life' = [life EXCEPT ![t] = "ready", ![u] = "ready"]
  /\ queue' = Append(Append(queue, t), u)

Completes(t) ==
  /\ life[t] = "running"
  /\ life' = [life EXCEPT ![t] = "completed"]
  /\ UNCHANGED queue

Drained ==
  /\ life' = [t \in Tasks |->
                IF life[t] = "completed" THEN "destroyed" ELSE life[t]]
  /\ UNCHANGED queue

\* The executor is destroyed, with nothing running.
TornDown ==
  /\ In("running") = {}
  /\ life' = [t \in Tasks |->
                IF life[t] = "unborn" THEN "unborn" ELSE "destroyed"]
  /\ queue' = <<>>

LifeNext ==
  \/ \E t \in Tasks : \/ Spawned(t) \/ Refused(t)
                      \/ Yielded(t) \/ Blocked(t) \/ Woken(t) \/ Completes(t)
  \/ \E t, u \in Tasks : BothWoken(t, u)
  \/ Resumed
  \/ Drained
  \/ TornDown

LifeSpec == LifeInit /\ [][LifeNext]_lifeVars

=============================================================================
