----------------------------- MODULE IoContext -----------------------------
(***************************************************************************)
(* IoContext: the single-threaded coroutine executor.  It owns the root     *)
(* tasks, resumes them from a FIFO ready queue, parks them in per-descriptor*)
(* wait slots and wakes them on epoll readiness, on a deadline or on        *)
(* cancel().                                                                *)
(*                                                                          *)
(* One step of the executor thread is one action: run() is split where the  *)
(* clock, the kernel or a coroutine can change something between two of its *)
(* reads.  A root stands for its whole chain of awaited frames: only the    *)
(* innermost frame of a chain can be suspended on the executor.             *)
(***************************************************************************)
EXTENDS EventLoop, Sequences

CONSTANTS
  Roots,         \* root tasks that may be spawned
  None,          \* no waiter / no running task
  Timeouts,      \* wait timeouts in milliseconds
  TicksPerMs,    \* resolution of steady_clock, in ticks per millisecond
  IntMax,        \* INT_MAX: the longest timeout epoll_wait takes
  Faults,        \* the calls that may throw, see FaultKinds
  ForeignAwait,  \* whether tasks may await something the executor never wakes
  MaxToken,      \* bound: number of waits armed
  MaxClock       \* bound: last tick of the clock

kNoTimeout == -1

FaultKinds == {"spawn", "add", "mod", "timer", "wait"}

\* "due" repeats the deadline of the wait, for the properties only.
WaitSlot == [cont : Roots, token : Nat, due : Nat \cup {-1}]

ASSUME IoContextAssumption ==
  /\ None \notin Roots
  /\ None \notin WaitSlot \cup [cont : Roots, due : Nat \cup {-1}]
  /\ Timeouts \subseteq Nat
  /\ TicksPerMs \in Nat \ {0}
  /\ IntMax \in Nat \ {0}
  /\ Faults \subseteq FaultKinds
  /\ ForeignAwait \in BOOLEAN
  /\ MaxToken \in Nat
  /\ MaxClock \in Nat

VARIABLES
  pc,              \* where the executor thread is; running_ = Running
  left,            \* run_ready: iterations left in this batch
  current,         \* the resumed root
  now,             \* expire_timers: the captured Clock::now()
  until,           \* dispatch_events: when epoll_wait times out, -1 = never
  ready,           \* ready_
  roots,           \* roots_
  frame,           \* life of each root's coroutine frame
  foreign,         \* roots suspended on something outside the executor
  slot,            \* FdState::reader and FdState::writer
  states,          \* the keys of fd_states_
  registered,      \* descriptors whose FdState::registered is true
  timers,          \* timers_
  next_token,      \* next_token_
  result,          \* *WaitSlot::result of the last wait of each root
  stop_requested,  \* stop_requested_
  clock            \* steady_clock

taskVars == <<ready, roots, frame, foreign, result>>
waitVars == <<slot, states, registered, timers, next_token>>
control == <<pc, left, current, now, until, stop_requested>>
vars == <<loopVars, taskVars, waitVars, control, clock>>

Pcs == {"idle", "loop", "ready", "task", "drain", "expire_before", "check",
        "timeout", "poll", "dispatch", "expire_after", "destroyed"}

TimerEntry == [deadline : Nat, token : Nat, fd : Fds, event : Event]

\* Executor state has the types its declarations give it.
TypeOK ==
  /\ LoopTypeOK
  /\ pc \in Pcs
  /\ left \in Nat
  /\ current \in Roots \cup {None}
  /\ now \in Nat
  /\ until \in Nat \cup {-1}
  /\ ready \in Seq(Roots)
  /\ roots \in SUBSET Roots
  /\ frame \in [Roots -> {"unborn", "live", "returned", "threw", "destroyed"}]
  /\ foreign \in SUBSET Roots
  /\ slot \in [Fds -> [Event -> WaitSlot \cup {None}]]
  /\ states \in SUBSET Fds
  /\ registered \in SUBSET Fds
  /\ timers \in SUBSET TimerEntry
  /\ next_token \in Nat
  /\ result \in [Roots -> BOOLEAN]
  /\ stop_requested \in BOOLEAN
  /\ clock \in Nat

NoWaiters == [fd \in Fds |-> [e \in Event |-> None]]

Init ==
  /\ LoopInit
  /\ pc = "idle"
  /\ left = 0
  /\ current = None
  /\ now = 0
  /\ until = -1
  /\ ready = <<>>
  /\ roots = {}
  /\ frame = [r \in Roots |-> "unborn"]
  /\ foreign = {}
  /\ slot = NoWaiters
  /\ states = {}
  /\ registered = {}
  /\ timers = {}
  /\ next_token = 1
  /\ result = [r \in Roots |-> FALSE]
  /\ stop_requested = FALSE
  /\ clock = 0

Running == pc \notin {"idle", "destroyed"}

\* Where user code runs: outside run(), or inside a resumed coroutine.
UserCode == pc \in {"idle", "task"}

Armed(s, fd) == {e \in Event : s[fd][e] # None}

----------------------------------------------------------------------------
(* Waking and parking.                                                     *)

\* Mutant: push_front instead of push_back.
schedule_front(q, r) == IF frame[r] = "live" THEN <<r>> \o q ELSE q

\* schedule(): a finished coroutine is not queued.
schedule(q, r) == IF frame[r] = "live" THEN Append(q, r) ELSE q

\* complete(): what emptying wait slot w does to the ready queue and to the
\* stored results.
queue_after(q, w) == IF w = None THEN q ELSE schedule(q, w.cont)
result_after(res, w, outcome) ==
  IF w = None THEN res ELSE [res EXCEPT ![w.cont] = outcome]

\* Mutant: the slot is not reset.
complete_keeps_slot(fd, e, outcome) ==
  /\ slot' = slot
  /\ ready' = queue_after(ready, slot[fd][e])
  /\ result' = result_after(result, slot[fd][e], outcome)

complete(fd, e, outcome) ==
  /\ slot' = [slot EXCEPT ![fd][e] = None]
  /\ ready' = queue_after(ready, slot[fd][e])
  /\ result' = result_after(result, slot[fd][e], outcome)

\* Mutant: the channel stays registered when its last waiter is gone.
refresh_keeps_channel(fd, s) ==
  IF Armed(s, fd) = {}
    THEN UNCHANGED <<registration, registered>>
    ELSE IF fd \in registered
      THEN /\ update_channel(fd, Armed(s, fd))
           /\ UNCHANGED registered
      ELSE /\ add_channel(fd, Armed(s, fd))
           /\ registered' = registered \cup {fd}

\* Mutant: a registered channel is not modified.
refresh_without_mod(fd, s) ==
  IF Armed(s, fd) = {}
    THEN /\ remove_channel(fd)
         /\ registered' = registered \ {fd}
    ELSE IF fd \in registered
      THEN UNCHANGED <<registration, registered>>
      ELSE /\ add_channel(fd, Armed(s, fd))
           /\ registered' = registered \cup {fd}

\* refresh_interest(), with s the wait slots after the change that calls it.
refresh_interest(fd, s) ==
  IF Armed(s, fd) = {}
    THEN /\ remove_channel(fd)
         /\ registered' = registered \ {fd}
    ELSE IF fd \in registered
      THEN /\ update_channel(fd, Armed(s, fd))
           /\ UNCHANGED registered
      ELSE /\ add_channel(fd, Armed(s, fd))
           /\ registered' = registered \cup {fd}

\* The tail of on_ready() and expire_timers(): the slot is completed, the
\* registration follows and an FdState without waiters is erased.
complete_and_refresh(fd, e, outcome) ==
  /\ complete(fd, e, outcome)
  /\ refresh_interest(fd, slot')
  /\ states' = IF Armed(slot', fd) = {} THEN states \ {fd} ELSE states

\* The same when the EPOLL_CTL_MOD in refresh_interest() throws: the waiter
\* is already queued, the registration keeps its old interest.
complete_then_mod_throws(fd, e, outcome) ==
  /\ "mod" \in Faults
  /\ complete(fd, e, outcome)
  /\ Armed(slot', fd) # {}
  /\ UNCHANGED <<registration, registered, states>>

on_ready(fd, e) ==
  IF fd \in states
    THEN complete_and_refresh(fd, e, TRUE)
    ELSE UNCHANGED <<registration, slot, ready, result, registered, states>>

\* Mutant: any waiter of the slot counts as the timer's.
timer_active_any_token(t) ==
  /\ t.fd \in states
  /\ slot[t.fd][t.event] # None

timer_active(t) ==
  /\ t.fd \in states
  /\ slot[t.fd][t.event] # None
  /\ slot[t.fd][t.event].token = t.token

\* timers_.top(): any of the earliest entries, ties are not ordered.
Tops == {t \in timers : \A u \in timers : t.deadline <= u.deadline}

----------------------------------------------------------------------------
(* User code: operations of the public interface.                          *)

\* spawn(): ownership moves to the executor and the task is queued.
Spawn(r) ==
  /\ UserCode
  /\ frame[r] = "unborn"
  /\ frame' = [frame EXCEPT ![r] = "live"]
  /\ roots' = roots \cup {r}
  /\ ready' = Append(ready, r)
  /\ UNCHANGED <<loopVars, foreign, result, waitVars, control, clock>>

\* spawn() when emplace or push_back throws: the frame is destroyed.
SpawnThrows(r) ==
  /\ UserCode
  /\ "spawn" \in Faults
  /\ frame[r] = "unborn"
  /\ frame' = [frame EXCEPT ![r] = "destroyed"]
  /\ UNCHANGED <<loopVars, ready, roots, foreign, result, waitVars, control,
                 clock>>

Stop ==
  /\ UserCode
  /\ stop_requested' = TRUE
  /\ UNCHANGED <<loopVars, taskVars, waitVars, pc, left, current, now, until,
                 clock>>

\* cancel(): both waiters of fd are queued with a false result.
cancel(fd) ==
  IF fd \in states
    THEN /\ remove_channel(fd)
         /\ registered' = registered \ {fd}
         /\ slot' = [slot EXCEPT ![fd] = [e \in Event |-> None]]
         /\ ready' = queue_after(queue_after(ready, slot[fd]["READ"]),
                                 slot[fd]["WRITE"])
         /\ result' = result_after(
                        result_after(result, slot[fd]["READ"], FALSE),
                        slot[fd]["WRITE"], FALSE)
         /\ states' = states \ {fd}
    ELSE UNCHANGED <<registration, registered, slot, ready, result, states>>

Cancel(fd) ==
  /\ UserCode
  /\ cancel(fd)
  /\ UNCHANGED <<cond, dispatching, roots, frame, foreign, timers, next_token,
                 control, clock>>

\* TcpStream::close() and TcpListener::close(): cancel(), then ::close().  A
\* later socket may get the same descriptor number; it starts with nothing
\* to report.
Close(fd) ==
  /\ UserCode
  /\ cancel(fd)
  /\ cond' = [cond EXCEPT ![fd] = {}]
  /\ UNCHANGED <<dispatching, roots, frame, foreign, timers, next_token,
                 control, clock>>

\* ~IoContext(): outside run(), every registered channel is removed, every
\* container is emptied and every owned frame is destroyed.
Destroy ==
  /\ pc = "idle"
  /\ pc' = "destroyed"
  /\ remove_channels(registered)
  /\ slot' = NoWaiters
  /\ states' = {}
  /\ registered' = {}
  /\ ready' = <<>>
  /\ timers' = {}
  /\ roots' = {}
  /\ frame' = [r \in Roots |-> IF r \in roots THEN "destroyed" ELSE frame[r]]
  /\ foreign' = {}
  /\ UNCHANGED <<cond, dispatching, next_token, result, left, current, now,
                 until, stop_requested, clock>>

----------------------------------------------------------------------------
(* The resumed coroutine: how it gives the thread back.                    *)

\* The coroutine suspends; run_ready continues with drain_completed().
Suspended ==
  /\ pc' = "drain"
  /\ current' = None
  /\ UNCHANGED <<left, now, until, stop_requested>>

\* co_await yield()
Yield ==
  /\ pc = "task"
  /\ ready' = schedule(ready, current)
  /\ Suspended
  /\ UNCHANGED <<loopVars, roots, frame, foreign, result, waitVars, clock>>

\* Clock::now() + timeout, or -1 for a wait without a deadline.
DueOf(timeout) ==
  IF timeout >= 0 THEN clock + timeout * TicksPerMs ELSE -1

NewWaiter(timeout) ==
  [cont |-> current, token |-> next_token, due |-> DueOf(timeout)]

\* arm_wait() that registers the waiter.  An occupied slot makes it throw
\* into the coroutine before anything changes.
Wait(fd, e, timeout) ==
  /\ pc = "task"
  /\ slot[fd][e] = None
  /\ next_token < MaxToken
  /\ DueOf(timeout) + TicksPerMs <= MaxClock + 1
  /\ slot' = [slot EXCEPT ![fd][e] = NewWaiter(timeout)]
  /\ timers' = IF timeout >= 0
                 THEN timers \cup {[deadline |-> DueOf(timeout),
                                    token |-> next_token,
                                    fd |-> fd, event |-> e]}
                 ELSE timers
  /\ refresh_interest(fd, slot')
  /\ states' = states \cup {fd}
  /\ next_token' = next_token + 1
  /\ result' = [result EXCEPT ![current] = FALSE]
  /\ Suspended
  /\ UNCHANGED <<cond, dispatching, ready, roots, frame, foreign, clock>>

\* arm_wait() that throws into the coroutine: refresh_interest() or the
\* timers_ push failed, and the slot is rolled back.  Only the token is used
\* up.  With a waiter left in the other direction the roll-back restores the
\* interest, or fails too and leaves what the kernel has.
WaitThrows(fd, e) ==
  /\ pc = "task"
  /\ slot[fd][e] = None
  /\ next_token < MaxToken
  /\ next_token' = next_token + 1
  /\ result' = [result EXCEPT ![current] = FALSE]
  /\ \/ /\ Armed(slot, fd) = {}
        /\ {"add", "timer"} \cap Faults # {}
        /\ remove_channel(fd)
        /\ registered' = registered \ {fd}
        /\ states' = states \ {fd}
     \/ /\ Armed(slot, fd) # {}
        /\ {"mod", "timer"} \cap Faults # {}
        /\ update_channel(fd, Armed(slot, fd))
        /\ UNCHANGED <<registered, states>>
     \/ /\ Armed(slot, fd) # {}
        /\ "mod" \in Faults
        /\ UNCHANGED <<registration, registered, states>>
     \/ /\ Armed(slot, fd) # {}
        /\ {"mod", "timer"} \subseteq Faults
        /\ update_channel(fd, Event)
        /\ UNCHANGED <<registered, states>>
  /\ UNCHANGED <<cond, dispatching, ready, roots, frame, foreign, slot, timers,
                 control, clock>>

\* The coroutine suspends on an awaitable of another library.
AwaitForeign ==
  /\ ForeignAwait
  /\ pc = "task"
  /\ foreign' = foreign \cup {current}
  /\ Suspended
  /\ UNCHANGED <<loopVars, ready, roots, frame, result, waitVars, clock>>

\* The root returns or an exception leaves it: final_suspend() calls
\* root_completed(), which links the frame into the completed list.
Finish(how) ==
  /\ pc = "task"
  /\ frame' = [frame EXCEPT ![current] = how]
  /\ Suspended
  /\ UNCHANGED <<loopVars, ready, roots, foreign, result, waitVars, clock>>

\* recv, send or accept4 in the coroutine uses a condition up.
UseFd(fd, c) ==
  /\ pc = "task"
  /\ Consume(fd, c)
  /\ UNCHANGED <<taskVars, waitVars, control, clock>>

----------------------------------------------------------------------------
(* The executor thread: run().                                             *)

\* Leaving run(), by return or by exception: running_ is reset and the locals
\* of run_ready(), expire_timers() and dispatch_events() are gone.
LeaveRun ==
  /\ pc' = "idle"
  /\ left' = 0
  /\ now' = 0
  /\ until' = -1
  /\ events' = NoEvents
  /\ halfway' = {}

\* Clock::now() at the start of expire_timers().
EnterExpire(phase) ==
  /\ pc' = phase
  /\ now' = clock

RunCall ==
  /\ pc = "idle"
  /\ pc' = "loop"
  /\ stop_requested' = FALSE
  /\ UNCHANGED <<loopVars, taskVars, waitVars, left, current, now, until, clock>>

\* The condition of the while loop; run_ready() takes the batch size.
LoopHead ==
  /\ pc = "loop"
  /\ IF stop_requested \/ roots = {}
       THEN LeaveRun
       ELSE /\ pc' = "ready"
            /\ left' = Len(ready)
            /\ UNCHANGED <<now, until, dispatching>>
  /\ UNCHANGED <<registration, cond, taskVars, waitVars, current,
                 stop_requested, clock>>

\* One iteration of run_ready(): a finished coroutine is skipped.
RunReadyNext ==
  /\ pc = "ready"
  /\ left > 0
  /\ ~stop_requested
  /\ ready # <<>>
  /\ left' = left - 1
  /\ ready' = Tail(ready)
  /\ IF frame[Head(ready)] = "live"
       THEN pc' = "task" /\ current' = Head(ready)
       ELSE UNCHANGED <<pc, current>>
  /\ UNCHANGED <<loopVars, roots, frame, foreign, result, waitVars, now, until,
                 stop_requested, clock>>

RunReadyDone ==
  /\ pc = "ready"
  /\ left = 0 \/ stop_requested
  /\ left' = 0
  /\ EnterExpire("expire_before")
  /\ UNCHANGED <<loopVars, taskVars, waitVars, current, until, stop_requested,
                 clock>>

Completed == {r \in roots : frame[r] \in {"returned", "threw"}}

\* Mutant: run_ready() measures the queue again after every task.
DrainThenNewBatch ==
  /\ pc = "drain"
  /\ roots' = roots \ Completed
  /\ frame' = [r \in Roots |-> IF r \in Completed THEN "destroyed" ELSE frame[r]]
  /\ IF \E r \in Completed : frame[r] = "threw"
       THEN LeaveRun
       ELSE pc' = "ready" /\ left' = Len(ready) /\ UNCHANGED <<now, until, dispatching>>
  /\ UNCHANGED <<registration, cond, ready, foreign, result, waitVars, current,
                 stop_requested, clock>>

\* Mutant: an error is rethrown before the roots are erased.
DrainRethrowsFirst ==
  /\ pc = "drain"
  /\ IF \E r \in Completed : frame[r] = "threw"
       THEN LeaveRun /\ UNCHANGED <<roots, frame>>
       ELSE /\ roots' = roots \ Completed
            /\ frame' = [r \in Roots |->
                           IF r \in Completed THEN "destroyed" ELSE frame[r]]
            /\ pc' = "ready"
            /\ UNCHANGED <<left, now, until, dispatching>>
  /\ UNCHANGED <<registration, cond, ready, foreign, result, waitVars, current,
                 stop_requested, clock>>

\* drain_completed(): every completed root is erased and destroyed before the
\* first error is rethrown out of run().
DrainCompleted ==
  /\ pc = "drain"
  /\ roots' = roots \ Completed
  /\ frame' = [r \in Roots |-> IF r \in Completed THEN "destroyed" ELSE frame[r]]
  /\ IF \E r \in Completed : frame[r] = "threw"
       THEN LeaveRun
       ELSE pc' = "ready" /\ UNCHANGED <<left, now, until, dispatching>>
  /\ UNCHANGED <<registration, cond, ready, foreign, result, waitVars, current,
                 stop_requested, clock>>

\* One iteration of expire_timers(): the top is due.
ExpireTimer(t) ==
  /\ pc \in {"expire_before", "expire_after"}
  /\ t.deadline <= now
  /\ timers' = timers \ {t}
  /\ IF timer_active(t)
       THEN complete_and_refresh(t.fd, t.event, FALSE)
       ELSE UNCHANGED <<registration, slot, ready, result, registered, states>>
  /\ UNCHANGED <<cond, dispatching, roots, frame, foreign, next_token, control,
                 clock>>

ExpireThrows(t) ==
  /\ pc \in {"expire_before", "expire_after"}
  /\ t.deadline <= now
  /\ timers' = timers \ {t}
  /\ timer_active(t)
  /\ complete_then_mod_throws(t.fd, t.event, FALSE)
  /\ LeaveRun
  /\ UNCHANGED <<cond, roots, frame, foreign, next_token, current,
                 stop_requested, clock>>

ExpireDone ==
  /\ pc \in {"expire_before", "expire_after"}
  /\ \A t \in timers : t.deadline > now
  /\ pc' = IF pc = "expire_before" THEN "check" ELSE "loop"
  /\ now' = 0
  /\ UNCHANGED <<loopVars, taskVars, waitVars, left, current, until,
                 stop_requested, clock>>

\* Mutant: has_ready is not looked at.
CheckIgnoresReady ==
  /\ pc = "check"
  /\ IF stop_requested \/ roots = {}
       THEN LeaveRun
       ELSE pc' = "timeout" /\ UNCHANGED <<until, left, now, dispatching>>
  /\ UNCHANGED <<registration, cond, taskVars, waitVars, current,
                 stop_requested, clock>>

\* The second test of stop_requested_ and roots_, and has_ready: with work
\* queued epoll_wait only polls.
Check ==
  /\ pc = "check"
  /\ IF stop_requested \/ roots = {}
       THEN LeaveRun
       ELSE /\ IF ready # <<>>
                 THEN pc' = "poll" /\ until' = clock
                 ELSE pc' = "timeout" /\ UNCHANGED until
            /\ UNCHANGED <<left, now, dispatching>>
  /\ UNCHANGED <<registration, cond, taskVars, waitVars, current,
                 stop_requested, clock>>

\* Mutant: the top is dropped while its waiter is still parked.
PruneAnyTimer(t) ==
  /\ pc = "timeout"
  /\ timers' = timers \ {t}
  /\ UNCHANGED <<loopVars, taskVars, slot, states, registered, next_token,
                 control, clock>>

\* next_poll_timeout(): a top that no longer belongs to a waiter is dropped.
PruneTimer(t) ==
  /\ pc = "timeout"
  /\ ~timer_active(t)
  /\ timers' = timers \ {t}
  /\ UNCHANGED <<loopVars, taskVars, slot, states, registered, next_token,
                 control, clock>>

\* Mutant: the remainder is cut off.
floor_ms(ticks) == ticks \div TicksPerMs

\* duration_cast truncates to milliseconds; a remainder rounds up.
ceil_ms(ticks) ==
  LET ms == ticks \div TicksPerMs
  IN IF ms * TicksPerMs < ticks THEN ms + 1 ELSE ms

\* next_poll_timeout() for the timer t at the top, in milliseconds.
next_poll_timeout(t) ==
  IF t.deadline <= clock THEN 0
  ELSE IF ceil_ms(t.deadline - clock) > IntMax THEN IntMax
  ELSE ceil_ms(t.deadline - clock)

PollUntilTimer(t) ==
  /\ pc = "timeout"
  /\ timer_active(t)
  /\ pc' = "poll"
  /\ until' = clock + next_poll_timeout(t) * TicksPerMs
  /\ UNCHANGED <<loopVars, taskVars, waitVars, left, current, now,
                 stop_requested, clock>>

\* No timer: epoll_wait blocks without a limit, unless nothing is registered.
PollForever ==
  /\ pc = "timeout"
  /\ timers = {}
  /\ registered # {}
  /\ pc' = "poll"
  /\ until' = -1
  /\ UNCHANGED <<loopVars, taskVars, waitVars, left, current, now,
                 stop_requested, clock>>

\* "IoContext Task has no readiness or timer wake source"
NoWakeSource ==
  /\ pc = "timeout"
  /\ timers = {}
  /\ registered = {}
  /\ LeaveRun
  /\ UNCHANGED <<registration, cond, taskVars, waitVars, current,
                 stop_requested, clock>>

----------------------------------------------------------------------------
(* loop_.poll(): epoll_wait and the callbacks it dispatches.               *)

PollEvents(batch) ==
  /\ pc = "poll"
  /\ epoll_wait_events(batch)
  /\ pc' = "dispatch"
  /\ until' = -1
  /\ UNCHANGED <<channels, watched, interest, cond, halfway, taskVars, waitVars,
                 left, current, now, stop_requested, clock>>

\* No event: the timeout has passed, or a signal interrupts the wait (EINTR).
PollNothing(interrupted) ==
  /\ pc = "poll"
  /\ Deliverable = {}
  /\ interrupted \/ (until >= 0 /\ clock >= until)
  /\ EnterExpire("expire_after")
  /\ until' = -1
  /\ UNCHANGED <<loopVars, taskVars, waitVars, left, current, stop_requested,
                 clock>>

\* Any other error of epoll_wait leaves run() as a system_error.
PollThrows ==
  /\ pc = "poll"
  /\ "wait" \in Faults
  /\ LeaveRun
  /\ UNCHANGED <<registration, cond, taskVars, waitVars, current,
                 stop_requested, clock>>

\* The first callback of the next array entry.
DispatchRead(fd) ==
  /\ pc = "dispatch"
  /\ halfway = {}
  /\ events[fd] # {}
  /\ halfway' = {fd}
  /\ IF calls_on_read(fd)
       THEN on_ready(fd, "READ")
       ELSE UNCHANGED <<registration, slot, ready, result, registered, states>>
  /\ UNCHANGED <<cond, events, roots, frame, foreign, timers, next_token,
                 control, clock>>

\* Its second callback; the first may have removed the channel.
DispatchWrite(fd) ==
  /\ pc = "dispatch"
  /\ halfway = {fd}
  /\ halfway' = {}
  /\ events' = [events EXCEPT ![fd] = {}]
  /\ IF calls_on_write(fd)
       THEN on_ready(fd, "WRITE")
       ELSE UNCHANGED <<registration, slot, ready, result, registered, states>>
  /\ UNCHANGED <<cond, roots, frame, foreign, timers, next_token, control,
                 clock>>

\* A callback throws: the rest of the array is lost.
DispatchThrows(fd, e) ==
  /\ pc = "dispatch"
  /\ \/ e = "READ" /\ halfway = {} /\ calls_on_read(fd)
     \/ e = "WRITE" /\ halfway = {fd} /\ calls_on_write(fd)
  /\ fd \in states
  /\ complete_then_mod_throws(fd, e, TRUE)
  /\ LeaveRun
  /\ UNCHANGED <<cond, roots, frame, foreign, timers, next_token, current,
                 stop_requested, clock>>

DispatchDone ==
  /\ pc = "dispatch"
  /\ halfway = {}
  /\ events = NoEvents
  /\ EnterExpire("expire_after")
  /\ UNCHANGED <<loopVars, taskVars, waitVars, left, current, until,
                 stop_requested, clock>>

----------------------------------------------------------------------------
(* The world outside the executor thread.                                  *)

Tick ==
  /\ pc # "destroyed"
  /\ clock < MaxClock
  /\ clock' = clock + 1
  /\ UNCHANGED <<loopVars, taskVars, waitVars, control>>

PeerActs(fd, c) ==
  /\ pc # "destroyed"
  /\ Arrive(fd, c)
  /\ UNCHANGED <<taskVars, waitVars, control, clock>>

----------------------------------------------------------------------------

\* What user code may do while it holds the thread.
UserStep ==
  \/ \E r \in Roots : Spawn(r) \/ SpawnThrows(r)
  \/ \E fd \in Fds : Cancel(fd) \/ Close(fd)
  \/ \E fd \in Fds, e \in Event : WaitThrows(fd, e)
  \/ \E fd \in Fds, c \in {"in", "out"} : UseFd(fd, c)
  \/ Stop
  \/ RunCall
  \/ Destroy

\* How a resumed coroutine gives the thread back.
TaskStep ==
  \/ Yield
  \/ AwaitForeign
  \/ \E how \in {"returned", "threw"} : Finish(how)
  \/ \E fd \in Fds, e \in Event, timeout \in Timeouts \cup {kNoTimeout} :
       Wait(fd, e, timeout)

\* The steps of run() itself, epoll_wait aside.
ExecutorStep ==
  \/ LoopHead
  \/ RunReadyNext
  \/ RunReadyDone
  \/ DrainCompleted
  \/ \E t \in Tops : ExpireTimer(t) \/ ExpireThrows(t)
  \/ ExpireDone
  \/ Check
  \/ \E t \in Tops : PruneTimer(t) \/ PollUntilTimer(t)
  \/ PollForever
  \/ NoWakeSource
  \/ \E fd \in Fds : DispatchRead(fd) \/ DispatchWrite(fd)
  \/ \E fd \in Fds, e \in Event : DispatchThrows(fd, e)
  \/ DispatchDone

PollStep ==
  \/ \E batch \in SUBSET Deliverable : PollEvents(batch)
  \/ \E interrupted \in BOOLEAN : PollNothing(interrupted)
  \/ PollThrows

WorldStep ==
  \/ Tick
  \/ \E fd \in Fds, c \in Condition : PeerActs(fd, c)

Next == UserStep \/ TaskStep \/ ExecutorStep \/ PollStep \/ WorldStep

Spec == Init /\ [][Next]_vars

\* The fairness the program can count on: the thread is scheduled, a resumed
\* coroutine eventually suspends or ends, time passes, and epoll_wait returns
\* when it has events or its timeout has passed (the kernel's ready list is
\* a FIFO, so no ready descriptor is passed over forever).  Nothing is
\* assumed of peers, of signals or of calls into the interface.
Fairness ==
  /\ WF_vars(ExecutorStep)
  /\ WF_vars(TaskStep)
  /\ WF_vars(Tick)
  /\ WF_vars(PollNothing(FALSE))
  /\ \A fd \in Fds :
       SF_vars(\E batch \in SUBSET Deliverable : fd \in batch /\ PollEvents(batch))

FairSpec == Spec /\ Fairness

----------------------------------------------------------------------------
(* Safety.                                                                 *)

IsQueued(r) == \E i \in DOMAIN ready : ready[i] = r

IsParked(r) ==
  \E fd \in Fds, e \in Event : slot[fd][e] # None /\ slot[fd][e].cont = r

\* The handles in ready_, in the wait slots and of the resumed coroutine are
\* those of the live frames, each in exactly one place (or, for a task that
\* awaits something outside the executor, in none).  A handle of a frame that
\* is gone would be resumed or written to after its destruction, a second
\* place would resume a suspended frame twice, and no place loses the task.
OneWakeSource ==
  /\ pc = "task" <=> current # None
  /\ \A i, j \in DOMAIN ready : ready[i] = ready[j] => i = j
  /\ \A fd1, fd2 \in Fds, e1, e2 \in Event :
       /\ slot[fd1][e1] # None
       /\ slot[fd2][e2] # None
       /\ slot[fd1][e1].cont = slot[fd2][e2].cont
       => fd1 = fd2 /\ e1 = e2
  /\ \A r \in Roots :
       /\ frame[r] = "live" <=>
            IsQueued(r) \/ IsParked(r) \/ r = current \/ r \in foreign
       /\ IsQueued(r) => ~IsParked(r) /\ r # current /\ r \notin foreign
       /\ IsParked(r) => r # current /\ r \notin foreign
       /\ r = current => r \notin foreign

\* roots_ owns exactly the frames that were spawned and not yet destroyed;
\* outside run() none of them is a finished one, and after ~IoContext() no
\* frame is left.
FramesOwned ==
  /\ roots = {r \in Roots : frame[r] \in {"live", "returned", "threw"}}
  /\ Completed # {} => pc = "drain"
  /\ pc = "destroyed" => roots = {}

\* fd_states_, FdState::registered, the channel table of the event loop and
\* the kernel's interest list name the same descriptors, those with a waiter,
\* and the kernel watches each direction that has one.  update_channel() and
\* add_channel() in refresh_interest() rely on it.
RegistrationAgrees ==
  /\ states = registered
  /\ states = channels
  /\ states = watched
  /\ \A fd \in Fds : fd \in states <=> Armed(slot, fd) # {}
  /\ \A fd \in Fds : Armed(slot, fd) \subseteq interest[fd]

\* Edge-triggered readiness is never lost: when a condition holds that a
\* parked waiter waits for, the kernel still has the descriptor on its ready
\* list or dispatch_events() still has the callback ahead of it.
NoLostEdge ==
  \A fd \in Fds, e \in Event :
    slot[fd][e] # None /\ cond[fd] \cap Wakes(e) # {} =>
      \/ fd \in pend
      \/ /\ pc = "dispatch"
         /\ events[fd] \cap Wakes(e) # {}
         /\ e = "READ" => halfway # {fd}

\* While epoll_wait sleeps, its timeout covers every parked deadline, and ends
\* less than a millisecond after the earliest one (next_poll_timeout rounds
\* up, prunes only stale entries and reads the top of the heap).
SleepBounded ==
  pc = "poll" =>
    \A fd \in Fds, e \in Event :
      slot[fd][e] # None /\ slot[fd][e].due >= 0 =>
        /\ until >= 0
        /\ clock < until => until < slot[fd][e].due + TicksPerMs

\* The executor does not spin: with nothing queued it polls with a timeout
\* only for a parked deadline and sleeps at least until it, or for INT_MAX
\* milliseconds (next_poll_timeout skips the entries of finished waits).
NoEarlyTimeout ==
  [][pc = "timeout" /\ pc' = "poll" /\ until' >= 0 =>
       \E fd \in Fds, e \in Event :
         /\ slot[fd][e] # None
         /\ 0 <= slot[fd][e].due
         /\ slot[fd][e].due <= until' \/ until' = clock + IntMax * TicksPerMs]_vars

\* run_ready() never pops an empty deque: the batch it measured is still
\* there, whatever the resumed coroutines schedule, cancel or spawn.
BatchWithinQueue == left <= Len(ready)

\* The exception "no readiness or timer wake source" is thrown only when every
\* task left is suspended on something outside the executor.
NoWakeSourceIsReal ==
  pc = "timeout" /\ timers = {} /\ registered = {} => roots \subseteq foreign

\* A parked coroutine leaves its slot for one of four reasons, each with the
\* result that goes with it, and is queued: readiness reported in its
\* direction (true), its own deadline passed (false), cancel() of its
\* descriptor by user code (false), or the executor is destroyed.  A timer of
\* an earlier wait on the same descriptor is no reason.
WakeCause ==
  [][\A fd \in Fds, e \in Event :
       LET w == slot[fd][e] IN
       w # None /\ slot'[fd][e] # w =>
         \/ pc' = "destroyed"
         \/ /\ slot'[fd][e] = None
            /\ \E i \in DOMAIN ready' : ready'[i] = w.cont
            /\ \/ /\ pc = "dispatch"
                  /\ events[fd] \cap Wakes(e) # {}
                  /\ result'[w.cont] = TRUE
               \/ /\ pc \in {"expire_before", "expire_after"}
                  /\ 0 <= w.due
                  /\ w.due <= clock
                  /\ result'[w.cont] = FALSE
               \/ /\ UserCode
                  /\ fd \notin registered'
                  /\ result'[w.cont] = FALSE]_vars

----------------------------------------------------------------------------
(* The executor implements the life cycle it documents.                    *)

LifeOf(r) ==
  IF frame[r] \in {"returned", "threw"} THEN "completed"
  ELSE IF frame[r] # "live" THEN frame[r]
  ELSE IF r = current THEN "running"
  ELSE IF IsQueued(r) THEN "ready"
  ELSE "waiting"

Life == [r \in Roots |-> LifeOf(r)]

Lifecycle == INSTANCE TaskLifecycle
               WITH Tasks <- Roots, life <- Life, queue <- ready

\* Every task follows the ready and waiting transitions of TaskLifecycle:
\* resumed only from the head of ready_, woken once per wait, destroyed only
\* after final suspend or with the executor.
RefinesLifecycle == Lifecycle!LifeSpec

\* The waits without their tokens.
PlainSlot ==
  [fd \in Fds |-> [e \in Event |->
     IF slot[fd][e] = None THEN None
     ELSE [cont |-> slot[fd][e].cont, due |-> slot[fd][e].due]]]

Waits == INSTANCE FdWaits WITH Tasks <- Roots, slot <- PlainSlot

\* What the transport operations rely on: each wait ends once, by readiness
\* with true, or at its own deadline or by cancel() with false, and its task
\* goes to the end of the ready queue (module FdWaits).
RefinesWaits == Waits!WaitsSpec

----------------------------------------------------------------------------
(* Liveness, while run() is active.                                        *)

TimedAs(token) ==
  \E fd \in Fds, e \in Event :
    slot[fd][e] # None /\ slot[fd][e].token = token /\ slot[fd][e].due >= 0

\* r is parked in a direction whose condition holds.
ReadyFor(r) ==
  \E fd \in Fds, e \in Event :
    /\ slot[fd][e] # None
    /\ slot[fd][e].cont = r
    /\ cond[fd] \cap Wakes(e) # {}

\* A wait with a timeout ends: expire_timers() runs in every turn and
\* epoll_wait never sleeps past a deadline, also while other tasks yield.
DeadlineServed ==
  \A token \in 1..(MaxToken - 1) : []<>(~TimedAs(token) \/ ~Running)

\* A task that is queued, or parked on a condition that holds, is resumed,
\* unless another task uses the condition up first: run_ready()'s bounded batch
\* lets readiness through, refresh_interest() re-arms the edge, dispatch wakes
\* the waiter and the ready queue is served in order.
TaskServed ==
  \A r \in Roots :
    IsQueued(r) \/ ReadyFor(r) ~>
      \/ current = r
      \/ IsParked(r) /\ ~ReadyFor(r)
      \/ ~Running

=============================================================================
