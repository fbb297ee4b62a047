------------------------------ MODULE FdWaits ------------------------------
(***************************************************************************)
(* What IoContext promises to an operation that waits on a descriptor.      *)
(*                                                                          *)
(* A descriptor has at most one waiter per direction.  A wait ends by       *)
(* readiness with the result true, or by its deadline or by cancel() with   *)
(* the result false, and the woken task goes to the end of the ready queue. *)
(* The transport operations (module TcpStream) are built on these steps;    *)
(* the executor (module IoContext) is shown to take no others.              *)
(***************************************************************************)
EXTENDS Integers, Sequences

CONSTANTS
  Fds,      \* descriptor numbers
  Tasks,    \* tasks of the executor
  None      \* no waiter

VARIABLES
  slot,     \* the waiter of each descriptor and direction
  ready,    \* the ready queue
  result,   \* the stored result of each task's last wait
  clock     \* steady_clock

waitVars == <<slot, ready, result, clock>>

Event == {"READ", "WRITE"}

\* "due" is -1 for a wait without a timeout.
Waiter == [cont : Tasks, due : Nat \cup {-1}]

NoWaiters == [fd \in Fds |-> [e \in Event |-> None]]

WaitsTypeOK ==
  /\ slot \in [Fds -> [Event -> Waiter \cup {None}]]
  /\ ready \in Seq(Tasks)
  /\ result \in [Tasks -> BOOLEAN]
  /\ clock \in Nat

WaitsInit ==
  /\ slot = NoWaiters
  /\ ready = <<>>
  /\ result = [t \in Tasks |-> FALSE]
  /\ clock = 0

----------------------------------------------------------------------------

\* arm_wait()
Park(fd, e, t, due) ==
  /\ slot[fd][e] = None
  /\ slot' = [slot EXCEPT ![fd][e] = [cont |-> t, due |-> due]]
  /\ result' = [result EXCEPT ![t] = FALSE]
  /\ UNCHANGED ready

\* complete() of an occupied slot.
Wake(fd, e, outcome) ==
  /\ slot[fd][e] # None
  /\ slot' = [slot EXCEPT ![fd][e] = None]
  /\ ready' = Append(ready, slot[fd][e].cont)
  /\ result' = [result EXCEPT ![slot[fd][e].cont] = outcome]

\* expire_timers()
WakeDue(fd, e) ==
  /\ slot[fd][e] # None
  /\ 0 <= slot[fd][e].due
  /\ slot[fd][e].due <= clock
  /\ Wake(fd, e, FALSE)

queue_after(q, w) == IF w = None THEN q ELSE Append(q, w.cont)
result_after(res, w) == IF w = None THEN res ELSE [res EXCEPT ![w.cont] = FALSE]

\* Mutant: the writer is dropped and not queued.
CancelReader(fd) ==
  /\ slot' = [slot EXCEPT ![fd] = [e \in Event |-> None]]
  /\ ready' = queue_after(ready, slot[fd]["READ"])
  /\ result' = result_after(result, slot[fd]["READ"])

\* cancel(): the reader is queued before the writer.
CancelWaits(fd) ==
  /\ slot' = [slot EXCEPT ![fd] = [e \in Event |-> None]]
  /\ ready' = queue_after(queue_after(ready, slot[fd]["READ"]),
                          slot[fd]["WRITE"])
  /\ result' = result_after(result_after(result, slot[fd]["READ"]),
                            slot[fd]["WRITE"])

\* The queue moves without a wait: spawn() and yield() append, run_ready()
\* takes the head.
QueueMoves ==
  /\ (\E t \in Tasks : ready' = Append(ready, t)) \/ (ready # <<>> /\ ready' = Tail(ready))
  /\ UNCHANGED <<slot, result>>

\* arm_wait() that throws after it has cleared the result.
ParkFails(t) ==
  /\ result' = [result EXCEPT ![t] = FALSE]
  /\ UNCHANGED <<slot, ready>>

TearDown ==
  /\ slot' = NoWaiters
  /\ ready' = <<>>
  /\ UNCHANGED result

\* Some task parks; the deadline has not passed, or there is none.
Parks(fd, e) ==
  /\ slot'[fd][e] # None
  /\ slot'[fd][e].due = -1 \/ slot'[fd][e].due >= clock
  /\ \E t \in Tasks : Park(fd, e, t, slot'[fd][e].due)

WaitsNext ==
  \/ /\ \/ \E fd \in Fds, e \in Event :
             Parks(fd, e) \/ Wake(fd, e, TRUE) \/ WakeDue(fd, e)
        \/ \E fd \in Fds : CancelWaits(fd)
        \/ \E t \in Tasks : ParkFails(t)
        \/ QueueMoves
        \/ TearDown
     /\ UNCHANGED clock
  \/ clock' = clock + 1 /\ UNCHANGED <<slot, ready, result>>

WaitsSpec == WaitsInit /\ [][WaitsNext]_waitVars

=============================================================================
