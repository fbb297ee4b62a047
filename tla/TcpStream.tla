----------------------------- MODULE TcpStream -----------------------------
(***************************************************************************)
(* TcpStream and TcpListener: the transport operations read_some,           *)
(* write_all, accept and close, run by the tasks of one executor.           *)
(*                                                                          *)
(* Each operation tries its system call, parks on EAGAIN and looks again    *)
(* after it is resumed; between the wake-up and the resumption other tasks  *)
(* run, may close the socket, and a new connection may get its descriptor   *)
(* number.  The executor is module FdWaits.  A stream object is identified  *)
(* with the connection it was made for, descriptor numbers are reused.      *)
(* What the peers do shows in the outcome of the system calls, which is     *)
(* left open; EINTR and ECONNABORTED repeat the call with nothing changed   *)
(* and are stutters.                                                        *)
(***************************************************************************)
EXTENDS FdWaits

CONSTANTS
  Streams,     \* TcpStream objects
  Listener,    \* the TcpListener
  ListenFd,    \* the descriptor number socket() gave the listener
  Spawned,     \* the tasks in the order they were spawned
  Timeouts,    \* timeouts in milliseconds
  TicksPerMs,  \* resolution of steady_clock
  Payload,     \* data.size() of write_all
  MaxOps,      \* bound: operations started
  MaxClock     \* bound: last tick of the clock

ASSUME TcpStreamAssumption ==
  /\ Listener \notin Streams
  /\ Spawned \in Seq(Tasks)
  /\ \A i, j \in DOMAIN Spawned : Spawned[i] = Spawned[j] => i = j
  /\ None \notin Streams \cup {Listener} \cup Tasks \cup Waiter
  /\ Fds \subseteq Nat
  /\ ListenFd \in Fds
  /\ Timeouts \subseteq Nat
  /\ {TicksPerMs, Payload} \subseteq Nat \ {0}
  /\ {MaxOps, MaxClock} \subseteq Nat

VARIABLES
  fd,       \* fd_ of each object, -1 when it is closed or not made yet
  file,     \* kernel: the socket a descriptor number names
  gone,     \* streams that were closed or could not be made
  op,       \* the operation of each task
  current,  \* the resumed task
  ops       \* operations started

sockVars == <<fd, file, gone>>
vars == <<waitVars, sockVars, op, current, ops>>

Socks == Streams \cup {Listener}

kNoTimeout == -1

\* "due" is the Deadline, -1 when it is not enabled; "status" tells how the
\* last operation of the task ended.
Operation ==
  [kind : {"none", "read", "write", "accept"}, sock : Socks \cup {None},
   due : Nat \cup {-1}, written : 0..Payload, waiting : BOOLEAN,
   status : {"none", "Ok", "Eof", "Timeout", "Closed", "Error", "Threw"}]

NoOperation ==
  [kind |-> "none", sock |-> None, due |-> -1, written |-> 0,
   waiting |-> FALSE, status |-> "none"]

\* Objects, descriptors and operations have their types.
TypeOK ==
  /\ WaitsTypeOK
  /\ fd \in [Socks -> Fds \cup {-1}]
  /\ file \in [Fds -> Socks \cup {None}]
  /\ gone \in SUBSET Streams
  /\ op \in [Tasks -> Operation]
  /\ current \in Tasks \cup {None}
  /\ ops \in Nat

FreeFds == {n \in Fds : file[n] = None}

\* A listener, and the tasks spawned.
Init ==
  /\ slot = NoWaiters
  /\ ready = Spawned
  /\ result = [t \in Tasks |-> FALSE]
  /\ clock = 0
  /\ fd = [s \in Socks |-> IF s = Listener THEN ListenFd ELSE -1]
  /\ file = [n \in Fds |-> IF n = ListenFd THEN Listener ELSE None]
  /\ gone = {}
  /\ op = [t \in Tasks |-> NoOperation]
  /\ current = None
  /\ ops = 0

----------------------------------------------------------------------------
(* Deadline                                                                *)

Deadline(timeout) ==
  IF timeout >= 0 THEN clock + timeout * TicksPerMs ELSE -1

ceil_ms(ticks) ==
  LET ms == ticks \div TicksPerMs
  IN IF ms * TicksPerMs < ticks THEN ms + 1 ELSE ms

\* Mutant: every wait gets a fresh timeout.
remaining_restarts(deadline) ==
  IF deadline < 0 THEN kNoTimeout ELSE CHOOSE ms \in Timeouts : TRUE

remaining(deadline) ==
  IF deadline < 0 THEN kNoTimeout
  ELSE IF clock >= deadline THEN 0
  ELSE ceil_ms(deadline - clock)

----------------------------------------------------------------------------
(* Ownership of descriptors.                                               *)

\* A connection without an object yet.
IsNew(s) == fd[s] = -1 /\ s \notin gone

\* The connection s becomes an object that owns a free number.
Adopt(s) ==
  /\ IsNew(s)
  /\ \E n \in FreeFds :
       /\ fd' = [fd EXCEPT ![s] = n]
       /\ file' = [file EXCEPT ![n] = s]
  /\ UNCHANGED gone

\* Mutant: the number stays open without an owner.
AdoptLeaks(s) ==
  /\ IsNew(s)
  /\ \E n \in FreeFds : file' = [file EXCEPT ![n] = s]
  /\ gone' = gone \cup {s}
  /\ UNCHANGED fd

\* The new number is closed again, by the guard of adopt() or by the
\* constructor.
AdoptFails(s) ==
  /\ IsNew(s)
  /\ FreeFds # {}
  /\ gone' = gone \cup {s}
  /\ UNCHANGED <<fd, file>>

\* User code runs between two operations of the resumed task.
UserCode == current # None /\ op[current].kind = "none"

\* TcpStream(context, fd), with a connected socket of the user; fcntl() may
\* fail.
Construct(s) ==
  /\ UserCode
  /\ Adopt(s) \/ AdoptFails(s)
  /\ UNCHANGED <<waitVars, op, current, ops>>

\* Mutant: the waiters are not cancelled.
CloseWithoutCancel(s) ==
  /\ UserCode
  /\ fd[s] >= 0
  /\ file' = [file EXCEPT ![fd[s]] = None]
  /\ fd' = [fd EXCEPT ![s] = -1]
  /\ gone' = gone \cup ({s} \ {Listener})
  /\ UNCHANGED <<waitVars, op, current, ops>>

\* close() of a stream or of the listener, also from the destructor.
Close(s) ==
  /\ UserCode
  /\ fd[s] >= 0
  /\ CancelWaits(fd[s])
  /\ file' = [file EXCEPT ![fd[s]] = None]
  /\ fd' = [fd EXCEPT ![s] = -1]
  /\ gone' = gone \cup ({s} \ {Listener})
  /\ UNCHANGED <<clock, op, current, ops>>

----------------------------------------------------------------------------
(* Calls, system calls and returns of the operations.                      *)

\* The operation of task t returns or throws.
End(t, status) == op' = [op EXCEPT ![t] = [NoOperation EXCEPT !.status = status]]

\* A call on a closed object ends at once.
Call(t, kind, s, timeout) ==
  /\ current = t
  /\ op[t].kind = "none"
  /\ ops < MaxOps
  /\ Deadline(timeout) + TicksPerMs <= MaxClock
  /\ ops' = ops + 1
  /\ op' = [op EXCEPT ![t] =
              IF fd[s] >= 0
                THEN [NoOperation EXCEPT !.kind = kind, !.sock = s,
                                         !.due = Deadline(timeout)]
                ELSE [NoOperation EXCEPT !.status =
                        IF kind = "accept" THEN "Threw" ELSE "Closed"]]
  /\ UNCHANGED <<waitVars, sockVars, current>>

\* max_bytes is 0, or data is empty.
NothingAsked(t, s) ==
  /\ current = t
  /\ op[t].kind = "none"
  /\ fd[s] >= 0
  /\ End(t, "Ok")
  /\ UNCHANGED <<waitVars, sockVars, current, ops>>

read_some(t, s, timeout) ==
  /\ ~IsNew(s)
  /\ Call(t, "read", s, timeout) \/ NothingAsked(t, s)

write_all(t, s, timeout) ==
  /\ ~IsNew(s)
  /\ Call(t, "write", s, timeout) \/ NothingAsked(t, s)

accept(t, timeout) == Call(t, "accept", Listener, timeout)

\* Task t has the thread and is about to make its next system call.
Tries(t, kind) == current = t /\ op[t].kind = kind /\ ~op[t].waiting

\* co_await wait_readable / wait_writable(fd_, deadline.remaining()).  It
\* throws for a second waiter in the same direction, and when the descriptor
\* cannot be registered or the timer not stored.
Await(t, e) ==
  LET n == fd[op[t].sock]
      rest == remaining(op[t].due)
  IN /\ \/ /\ Park(n, e, t, Deadline(rest))
           /\ op' = [op EXCEPT ![t].waiting = TRUE]
           /\ current' = None
        \/ /\ End(t, "Threw")
           /\ UNCHANGED <<slot, ready, result, current>>
     /\ UNCHANGED <<clock, sockVars, ops>>

\* recv() returns data, the end of the stream or an error.
Recv(t) ==
  /\ Tries(t, "read")
  /\ \E status \in {"Ok", "Eof", "Error"} : End(t, status)
  /\ UNCHANGED <<waitVars, sockVars, current, ops>>

RecvAgain(t) ==
  /\ Tries(t, "read")
  /\ Await(t, "READ")

\* send() takes some of the bytes that are left.
Send(t) ==
  /\ Tries(t, "write")
  /\ \E count \in 1..(Payload - op[t].written) :
       op' = [op EXCEPT ![t].written = @ + count]
  /\ UNCHANGED <<waitVars, sockVars, current, ops>>

SendFails(t) ==
  /\ Tries(t, "write")
  /\ op[t].written < Payload
  /\ End(t, "Error")
  /\ UNCHANGED <<waitVars, sockVars, current, ops>>

SendAgain(t) ==
  /\ Tries(t, "write")
  /\ op[t].written < Payload
  /\ Await(t, "WRITE")

SendDone(t) ==
  /\ Tries(t, "write")
  /\ op[t].written >= Payload
  /\ End(t, "Ok")
  /\ UNCHANGED <<waitVars, sockVars, current, ops>>

\* accept4() and adopt(); when an allocation fails the guard closes the
\* number and the exception leaves accept().
Accept(t, s) ==
  /\ Tries(t, "accept")
  /\ \/ Adopt(s) /\ End(t, "Ok")
     \/ AdoptFails(s) /\ End(t, "Threw")
  /\ UNCHANGED <<waitVars, current, ops>>

\* Any other error of accept4(), with no number left for instance.
AcceptThrows(t) ==
  /\ Tries(t, "accept")
  /\ End(t, "Threw")
  /\ UNCHANGED <<waitVars, sockVars, current, ops>>

AcceptAgain(t) ==
  /\ Tries(t, "accept")
  /\ Await(t, "READ")

\* Mutant: a false result is a timeout, whatever became of the socket.
ResumedTimeoutFirst(t) ==
  /\ current = t
  /\ op[t].waiting
  /\ IF ~result[t]
       THEN End(t, "Timeout")
       ELSE IF fd[op[t].sock] < 0
         THEN End(t, IF op[t].kind = "accept" THEN "Threw" ELSE "Closed")
         ELSE op' = [op EXCEPT ![t].waiting = FALSE]
  /\ result' = [result EXCEPT ![t] = FALSE]
  /\ UNCHANGED <<slot, ready, clock, sockVars, current, ops>>

\* After the resumption: a false result is a timeout unless the socket was
\* closed meanwhile, a true one repeats the system call unless it was.  The
\* awaiter and the result in it are gone.
Resumed(t) ==
  /\ current = t
  /\ op[t].waiting
  /\ IF fd[op[t].sock] < 0
       THEN End(t, IF op[t].kind = "accept" THEN "Threw" ELSE "Closed")
       ELSE IF ~result[t]
         THEN End(t, "Timeout")
         ELSE op' = [op EXCEPT ![t].waiting = FALSE]
  /\ result' = [result EXCEPT ![t] = FALSE]
  /\ UNCHANGED <<slot, ready, clock, sockVars, current, ops>>

----------------------------------------------------------------------------
(* The executor.                                                           *)

Resume ==
  /\ current = None
  /\ ready # <<>>
  /\ current' = Head(ready)
  /\ ready' = Tail(ready)
  /\ UNCHANGED <<slot, result, clock, sockVars, op, ops>>

\* The task yields or, between two operations, ends.
Yield(t) ==
  /\ current = t
  /\ op[t].kind = "none"
  /\ current' = None
  /\ ready' \in {ready, Append(ready, t)}
  /\ op' = [op EXCEPT ![t] = NoOperation]
  /\ UNCHANGED <<slot, result, clock, sockVars, ops>>

\* Readiness is reported, or was true when it was reported.
WakeReady(n, e) ==
  /\ current = None
  /\ Wake(n, e, TRUE)
  /\ UNCHANGED <<clock, sockVars, op, current, ops>>

Expire(n, e) ==
  /\ current = None
  /\ WakeDue(n, e)
  /\ UNCHANGED <<clock, sockVars, op, current, ops>>

Tick ==
  /\ clock < MaxClock
  /\ clock' = clock + 1
  /\ UNCHANGED <<slot, ready, result, sockVars, op, current, ops>>

----------------------------------------------------------------------------

CallStep ==
  \E t \in Tasks, timeout \in Timeouts \cup {kNoTimeout} :
    \/ \E s \in Streams : read_some(t, s, timeout) \/ write_all(t, s, timeout)
    \/ accept(t, timeout)

OpStep(t) ==
  \/ Recv(t) \/ RecvAgain(t)
  \/ Send(t) \/ SendFails(t) \/ SendAgain(t) \/ SendDone(t)
  \/ \E s \in Streams : Accept(t, s)
  \/ AcceptThrows(t) \/ AcceptAgain(t)
  \/ Resumed(t)

UserStep ==
  \/ \E s \in Streams : Construct(s)
  \/ \E s \in Socks : Close(s)
  \/ \E t \in Tasks : Yield(t)

WakeStep == \E n \in Fds, e \in Event : WakeReady(n, e) \/ Expire(n, e)

Next ==
  \/ CallStep \/ UserStep \/ Resume \/ WakeStep \/ Tick
  \/ \E t \in Tasks : OpStep(t)

Spec == Init /\ [][Next]_vars

\* The thread is scheduled, a task between two operations gives it back, time
\* passes, and expire_timers() runs in every turn of run(), so a timer that is
\* due again and again is served.  Peers owe nothing.
Fairness ==
  /\ WF_vars(Resume)
  /\ WF_vars(\E t \in Tasks : OpStep(t))
  /\ WF_vars(\E t \in Tasks : Yield(t))
  /\ WF_vars(Tick)
  /\ \A n \in Fds, e \in Event :
       SF_vars(Expire(n, e))

FairSpec == Spec /\ Fairness

----------------------------------------------------------------------------
(* Properties.                                                             *)

\* A descriptor number is open exactly as long as one object owns it, also
\* when adopt() or a constructor fails half way: nothing leaks, and no object
\* holds a number that now names another socket.
OneOwner ==
  /\ \A s \in Socks : fd[s] >= 0 => file[fd[s]] = s
  /\ \A n \in Fds : file[n] # None => fd[file[n]] = n
  /\ \A s \in gone : fd[s] = -1

\* A parked operation waits on the number its own socket still owns, in its
\* own direction: close() leaves no waiter behind that the next connection
\* with the same number would wake.
WaitersOwned ==
  \A n \in Fds, e \in Event :
    slot[n][e] # None =>
      LET o == op[slot[n][e].cont] IN
      /\ o.waiting
      /\ fd[o.sock] = n
      /\ e = IF o.kind = "write" THEN "WRITE" ELSE "READ"

\* The Deadline of an operation spans all its waits: however often it is
\* woken and parks again, it is not woken by a timer before its deadline, and
\* its timer is less than a millisecond late.
DeadlineSpans ==
  \A n \in Fds, e \in Event :
    LET w == slot[n][e] IN
    w # None =>
      LET due == op[w.cont].due IN
      IF due < 0 THEN w.due = -1
      ELSE \/ due <= w.due /\ w.due < due + TicksPerMs
           \/ due < w.due /\ w.due <= clock

\* An operation tells what happened: Timeout only once its deadline passed,
\* and for a socket that was closed while it was suspended nothing but Closed
\* (accept: the logic_error), whatever woke it.
OutcomeTrue ==
  [][\A t \in Tasks :
       op[t].kind # "none" /\ op'[t].kind = "none" =>
         /\ op'[t].status = "Closed" => fd[op[t].sock] = -1
         /\ fd[op[t].sock] = -1 => op'[t].status \in {"Closed", "Threw"}
         /\ op'[t].status = "Timeout" => 0 <= op[t].due /\ op[t].due <= clock]_vars

\* An operation with a timeout ends, however often it is woken for nothing,
\* and so does one whose socket is closed while it is suspended.
OpEnds ==
  \A t \in Tasks :
    op[t].kind # "none" /\ (op[t].due >= 0 \/ fd[op[t].sock] = -1)
      ~> op[t].kind = "none"

=============================================================================
