-------------------------- MODULE IoContextProofs --------------------------
(***************************************************************************)
(* Invariants of the executor for any set of descriptors, tasks, timeouts   *)
(* and faults, in layers: each one takes the layers below as hypotheses.    *)
(* On top are the ownership of tasks (where the handle of each live frame   *)
(* is, which frames roots_ owns) and what follows from it: why a parked     *)
(* task wakes up, when run() may give up, and that the executor implements  *)
(* TaskLifecycle and FdWaits.                                               *)
(***************************************************************************)
EXTENDS IoContext, TLAPS

----------------------------------------------------------------------------
(* Sequences.                                                              *)

LEMMA EmptySeq ==
  ASSUME NEW S
  PROVE  <<>> \in Seq(S) /\ Len(<<>>) = 0
OBVIOUS

LEMMA SeqDomain ==
  ASSUME NEW S, NEW s \in Seq(S)
  PROVE  Len(s) \in Nat /\ DOMAIN s = 1..Len(s) /\ s \in [1..Len(s) -> S]
OBVIOUS

LEMMA AppendFacts ==
  ASSUME NEW S, NEW s \in Seq(S), NEW e \in S
  PROVE  /\ Append(s, e) \in Seq(S) /\ Append(s, e) # <<>>
         /\ Len(Append(s, e)) = Len(s) + 1 /\ Append(s, e)[Len(s) + 1] = e
         /\ \A i \in 1..Len(s) : Append(s, e)[i] = s[i]
OBVIOUS

LEMMA TailFacts ==
  ASSUME NEW S, NEW s \in Seq(S), s # <<>>
  PROVE  /\ Head(s) \in S /\ Head(s) = s[1] /\ Len(s) >= 1
         /\ Tail(s) \in Seq(S) /\ Len(Tail(s)) = Len(s) - 1
         /\ \A i \in 1..Len(Tail(s)) : Tail(s)[i] = s[i + 1]
OBVIOUS

----------------------------------------------------------------------------
(* Layer 1: types.                                                         *)

\* The running coroutine is known exactly while it runs.
CurrentKnown == pc = "task" <=> current # None

TypeInv == TypeOK /\ CurrentKnown

\* Integer division by the clock resolution truncates.
LEMMA DivMs ==
  ASSUME NEW n \in Nat
  PROVE  /\ n \div TicksPerMs \in Nat
         /\ (n \div TicksPerMs) * TicksPerMs <= n
         /\ n < (n \div TicksPerMs) * TicksPerMs + TicksPerMs
<1>1. TicksPerMs \in Nat \ {0}
  BY IoContextAssumption, Zenon
<1>2. \A k \in Nat \ {0} : /\ n \div k \in Nat
                           /\ k * (n \div k) <= n
                           /\ n < k * (n \div k) + k
  OBVIOUS
<1> QED
  BY <1>1, <1>2

\* ceil_ms rounds up to the next millisecond, by less than one.
LEMMA CeilMs ==
  ASSUME NEW n \in Nat
  PROVE  /\ ceil_ms(n) \in Nat
         /\ n <= ceil_ms(n) * TicksPerMs
         /\ ceil_ms(n) * TicksPerMs < n + TicksPerMs
<1> DEFINE q == n \div TicksPerMs
<1>1. TicksPerMs \in Nat \ {0}
  BY IoContextAssumption, Zenon
<1>2. q \in Nat /\ q * TicksPerMs <= n /\ n < q * TicksPerMs + TicksPerMs
  BY DivMs, Zenon
<1>3. (q + 1) * TicksPerMs = q * TicksPerMs + TicksPerMs /\ q * TicksPerMs \in Nat
  BY <1>1, <1>2
<1>4. ceil_ms(n) = IF q * TicksPerMs < n THEN q + 1 ELSE q
  BY Zenon DEF ceil_ms
<1> HIDE DEF q
<1> QED
  BY <1>1, <1>2, <1>3, <1>4

\* A poll timeout is a natural number, no less than the time to the deadline
\* unless it is cut to INT_MAX, and less than a millisecond more.
LEMMA PollTimeout ==
  ASSUME NEW t, t.deadline \in Nat, clock \in Nat
  PROVE  /\ next_poll_timeout(t) \in Nat
         /\ next_poll_timeout(t) * TicksPerMs \in Nat
         /\ \/ next_poll_timeout(t) = IntMax
            \/ t.deadline <= clock + next_poll_timeout(t) * TicksPerMs
         /\ \/ next_poll_timeout(t) = 0
            \/ clock + next_poll_timeout(t) * TicksPerMs < t.deadline + TicksPerMs
<1>1. TicksPerMs \in Nat \ {0} /\ IntMax \in Nat \ {0}
  BY IoContextAssumption, Zenon
<1>2. CASE t.deadline <= clock
  BY <1>1, <1>2 DEF next_poll_timeout
<1>3. CASE ~(t.deadline <= clock)
  <2> DEFINE n == t.deadline - clock
             c == ceil_ms(n)
  <2>1. n \in Nat
    BY <1>3
  <2>2. c \in Nat /\ n <= c * TicksPerMs /\ c * TicksPerMs < n + TicksPerMs
    BY <2>1, CeilMs, Zenon
  <2>3. next_poll_timeout(t) = IF c > IntMax THEN IntMax ELSE c
    BY <1>3, Zenon DEF next_poll_timeout
  <2> HIDE DEF c
  <2>4. c > IntMax => IntMax * TicksPerMs <= c * TicksPerMs
    BY <1>1, <2>2
  <2>5. c * TicksPerMs \in Nat /\ IntMax * TicksPerMs \in Nat
    BY <1>1, <2>2
  <2> QED
    BY <1>1, <2>1, <2>2, <2>3, <2>4, <2>5
<1> QED
  BY <1>2, <1>3, Zenon

LEMMA TypeInit == Init => TypeInv
<1> SUFFICES ASSUME Init PROVE TypeInv
  BY Zenon
<1>1. LoopTypeOK
  BY Zenon DEF Init, LoopInit, LoopTypeOK, NoEvents, Event, Condition
<1>2. slot \in [Fds -> [Event -> WaitSlot \cup {None}]]
  BY Zenon DEF Init, NoWaiters
<1>3. ready \in Seq(Roots) /\ left \in Nat /\ now \in Nat /\ clock \in Nat
      /\ next_token \in Nat /\ until \in Nat \cup {-1}
  BY DEF Init
<1>4. frame \in [Roots -> {"unborn", "live", "returned", "threw", "destroyed"}]
      /\ result \in [Roots -> BOOLEAN]
  BY Zenon DEF Init
<1> QED
  BY <1>1, <1>2, <1>3, <1>4, Zenon DEF Init, TypeInv, TypeOK, CurrentKnown, Pcs

\* Emptying a slot and queueing its waiter keeps the types.
LEMMA CompleteTypes ==
  ASSUME TypeOK, NEW fd \in Fds, NEW e \in Event, NEW outcome \in BOOLEAN,
         complete(fd, e, outcome)
  PROVE  /\ slot' \in [Fds -> [Event -> WaitSlot \cup {None}]]
         /\ ready' \in Seq(Roots)
         /\ result' \in [Roots -> BOOLEAN]
  BY IoContextAssumption
  DEF TypeOK, complete, queue_after, result_after, schedule, WaitSlot

\* So does the registration that follows it.
LEMMA RefreshTypes ==
  ASSUME TypeOK, NEW fd \in Fds, NEW s, refresh_interest(fd, s)
  PROVE  /\ channels' \in SUBSET Fds
         /\ watched' \in SUBSET Fds
         /\ interest' \in [Fds -> SUBSET Event]
         /\ pend' \in SUBSET Fds
         /\ registered' \in SUBSET Fds
  BY DEF TypeOK, LoopTypeOK, refresh_interest, remove_channel, remove_channels,
         add_channel, update_channel, ctl_arm, Armed

\* And cancel().
LEMMA CancelTypes ==
  ASSUME TypeOK, NEW fd \in Fds, cancel(fd)
  PROVE  /\ slot' \in [Fds -> [Event -> WaitSlot \cup {None}]]
         /\ ready' \in Seq(Roots)
         /\ result' \in [Roots -> BOOLEAN]
         /\ channels' \in SUBSET Fds
         /\ watched' \in SUBSET Fds
         /\ interest' \in [Fds -> SUBSET Event]
         /\ pend' \in SUBSET Fds
         /\ registered' \in SUBSET Fds
         /\ states' \in SUBSET Fds
<1> DEFINE rd == slot[fd]["READ"]
           wr == slot[fd]["WRITE"]
<1>1. rd \in WaitSlot \cup {None} /\ wr \in WaitSlot \cup {None}
  BY DEF TypeOK, Event
<1>2. \A q \in Seq(Roots) : /\ queue_after(q, rd) \in Seq(Roots)
                            /\ queue_after(q, wr) \in Seq(Roots)
  BY <1>1 DEF queue_after, schedule, WaitSlot
<1>3. \A res \in [Roots -> BOOLEAN] :
        /\ result_after(res, rd, FALSE) \in [Roots -> BOOLEAN]
        /\ result_after(res, wr, FALSE) \in [Roots -> BOOLEAN]
  BY <1>1, Zenon DEF result_after, WaitSlot
<1>4. ready' \in Seq(Roots) /\ result' \in [Roots -> BOOLEAN]
  BY <1>2, <1>3, Zenon DEF cancel, TypeOK
<1>5. slot' \in [Fds -> [Event -> WaitSlot \cup {None}]]
  <2>1. [e \in Event |-> None] \in [Event -> WaitSlot \cup {None}]
    BY Zenon
  <2>2. slot' = slot \/ slot' = [slot EXCEPT ![fd] = [e \in Event |-> None]]
    BY Zenon DEF cancel
  <2> QED
    BY <2>1, <2>2, Zenon DEF TypeOK
<1>6. /\ channels' \in SUBSET Fds
      /\ watched' \in SUBSET Fds
      /\ interest' \in [Fds -> SUBSET Event]
      /\ pend' \in SUBSET Fds
  <2>1. /\ channels \in SUBSET Fds
        /\ watched \in SUBSET Fds
        /\ interest \in [Fds -> SUBSET Event]
        /\ pend \in SUBSET Fds
    BY Zenon DEF TypeOK, LoopTypeOK
  <2>2. CASE remove_channels({fd})
    BY <2>1, <2>2, Zenon DEF remove_channels
  <2>3. CASE UNCHANGED registration
    BY <2>1, <2>3, Zenon DEF registration
  <2> QED
    BY <2>2, <2>3, Zenon DEF cancel, remove_channel, registration
<1>7. registered' \in SUBSET Fds /\ states' \in SUBSET Fds
  BY Zenon DEF cancel, TypeOK
<1> QED
  BY <1>4, <1>5, <1>6, <1>7, Zenon

\* A new waiter is a WaitSlot, with a deadline exactly if it has a timeout.
LEMMA NewWaiterType ==
  ASSUME TypeInv, pc = "task", NEW timeout \in Timeouts \cup {kNoTimeout}
  PROVE  /\ NewWaiter(timeout) \in WaitSlot
         /\ NewWaiter(timeout) # None
         /\ timeout >= 0 => DueOf(timeout) \in Nat
         /\ ~(timeout >= 0) => DueOf(timeout) = -1
<1>1. \A m, n \in Nat : m * n \in Nat
  OBVIOUS
<1>2. TicksPerMs \in Nat /\ Timeouts \subseteq Nat /\ None \notin WaitSlot
  BY IoContextAssumption, Zenon
<1>3. clock \in Nat /\ next_token \in Nat /\ current \in Roots
  BY Zenon DEF TypeInv, TypeOK, CurrentKnown
<1>4. timeout \in Nat \/ timeout = -1
  BY <1>2 DEF kNoTimeout
<1>5. CASE timeout \in Nat
  <2>1. timeout * TicksPerMs \in Nat
    BY <1>1, <1>2, <1>5, Zenon
  <2>2. DueOf(timeout) \in Nat
    BY <1>3, <1>5, <2>1 DEF DueOf
  <2> QED
    BY <1>2, <1>3, <1>5, <2>2 DEF NewWaiter, WaitSlot
<1>6. CASE timeout = -1
  BY <1>2, <1>3, <1>6, SMTT(30) DEF NewWaiter, WaitSlot, DueOf
<1> QED
  BY <1>4, <1>5, <1>6, Zenon

LEMMA TypeStep == TypeInv /\ [Next]_vars => TypeInv'
<1> SUFFICES ASSUME TypeInv, [Next]_vars PROVE TypeInv'
  BY Zenon
<1> USE IoContextAssumption
<1> USE DEF TypeInv, TypeOK, CurrentKnown, LoopTypeOK, loopVars, taskVars,
            waitVars, control, registration, dispatching, Pcs
<1>1. CASE UNCHANGED vars
  BY <1>1, Zenon DEF vars
<1>2. ASSUME NEW r \in Roots, Spawn(r) \/ SpawnThrows(r) PROVE TypeInv'
  <2>1. Append(ready, r) \in Seq(Roots)
    OBVIOUS
  <2>2. CASE Spawn(r)
    BY <2>1, <2>2, Zenon DEF Spawn
  <2>3. CASE SpawnThrows(r)
    BY <2>3, Zenon DEF SpawnThrows
  <2> QED
    BY <1>2, <2>2, <2>3, Zenon
<1>3. ASSUME NEW fd \in Fds, Cancel(fd) \/ Close(fd) PROVE TypeInv'
  <2>1. /\ slot' \in [Fds -> [Event -> WaitSlot \cup {None}]]
        /\ ready' \in Seq(Roots)
        /\ result' \in [Roots -> BOOLEAN]
    BY <1>3, CancelTypes, Zenon DEF Cancel, Close
  <2>2. /\ channels' \in SUBSET Fds
        /\ watched' \in SUBSET Fds
        /\ interest' \in [Fds -> SUBSET Event]
        /\ pend' \in SUBSET Fds
        /\ registered' \in SUBSET Fds
        /\ states' \in SUBSET Fds
    BY <1>3, CancelTypes, Zenon DEF Cancel, Close
  <2> QED
    BY <1>3, <2>1, <2>2, ZenonT(30) DEF Cancel, Close
<1>4. ASSUME NEW fd \in Fds, NEW e \in Event, WaitThrows(fd, e) PROVE TypeInv'
  <2>1. current \in Roots
    BY <1>4, Zenon DEF WaitThrows
  <2>2. /\ channels' \in SUBSET Fds
        /\ watched' \in SUBSET Fds
        /\ interest' \in [Fds -> SUBSET Event]
        /\ pend' \in SUBSET Fds
        /\ registered' \in SUBSET Fds
        /\ states' \in SUBSET Fds
    BY <1>4 DEF WaitThrows, remove_channel, remove_channels, update_channel,
                ctl_arm, Armed
  <2> QED
    BY <1>4, <2>1, <2>2 DEF WaitThrows
<1>5. ASSUME NEW fd \in Fds, NEW c \in {"in", "out"}, UseFd(fd, c) PROVE TypeInv'
  BY <1>5, Zenon DEF UseFd, Consume, Condition
<1>6. CASE Stop \/ RunCall
  BY <1>6, Zenon DEF Stop, RunCall
<1>7. CASE Destroy
  BY <1>7, EmptySeq, Zenon DEF Destroy, remove_channels, NoWaiters
<1>8. CASE Yield
  BY <1>8 DEF Yield, Suspended, schedule
<1>9. CASE AwaitForeign
  BY <1>9, Zenon DEF AwaitForeign, Suspended
<1>10. ASSUME NEW how \in {"returned", "threw"}, Finish(how) PROVE TypeInv'
  BY <1>10, Zenon DEF Finish, Suspended
<1>11. ASSUME NEW fd \in Fds, NEW e \in Event,
              NEW timeout \in Timeouts \cup {kNoTimeout}, Wait(fd, e, timeout)
       PROVE  TypeInv'
  <2>1. NewWaiter(timeout) \in WaitSlot /\ (timeout >= 0 => DueOf(timeout) \in Nat)
    BY <1>11, NewWaiterType, Zenon DEF Wait
  <2>2. current \in Roots
    BY <1>11, Zenon DEF Wait
  <2>4. /\ slot' \in [Fds -> [Event -> WaitSlot \cup {None}]]
        /\ timers' \in SUBSET TimerEntry
    BY <1>11, <2>1, SMTT(30) DEF Wait, TimerEntry
  <2>5. refresh_interest(fd, slot')
    BY <1>11, Zenon DEF Wait
  <2>6. /\ LoopTypeOK'
        /\ registered' \in SUBSET Fds
    BY <1>11, <2>5, RefreshTypes, Zenon DEF Wait
  <2>7. /\ pc' = "drain" /\ current' = None
        /\ UNCHANGED <<left, now, until, stop_requested, ready, roots, frame,
                       foreign, clock>>
    BY <1>11, Zenon DEF Wait, Suspended
  <2>8. states' \in SUBSET Fds /\ next_token' \in Nat
    BY <1>11 DEF Wait
  <2>9. result' \in [Roots -> BOOLEAN]
    BY <1>11, <2>2, Zenon DEF Wait
  <2> QED
    BY <2>4, <2>6, <2>7, <2>8, <2>9, Zenon
<1>12. CASE LoopHead
  BY <1>12 DEF LoopHead, LeaveRun, NoEvents
<1>13. CASE RunReadyNext
  BY <1>13 DEF RunReadyNext
<1>14. CASE RunReadyDone
  BY <1>14, Zenon DEF RunReadyDone, EnterExpire
<1>15. CASE DrainCompleted
  BY <1>15, SMTT(30) DEF DrainCompleted, LeaveRun, NoEvents, Completed
<1>16. ASSUME NEW t \in Tops, ExpireTimer(t) \/ ExpireThrows(t) PROVE TypeInv'
  <2>1. t \in timers /\ t.fd \in Fds /\ t.event \in Event
    BY Zenon DEF Tops, TimerEntry
  <2>2. /\ slot' \in [Fds -> [Event -> WaitSlot \cup {None}]]
        /\ ready' \in Seq(Roots)
        /\ result' \in [Roots -> BOOLEAN]
    BY <1>16, <2>1, CompleteTypes, Zenon
    DEF ExpireTimer, ExpireThrows, complete_and_refresh, complete_then_mod_throws
  <2>3. /\ LoopTypeOK'
        /\ registered' \in SUBSET Fds
        /\ states' \in SUBSET Fds
    BY <1>16, <2>1, RefreshTypes, Zenon
    DEF ExpireTimer, ExpireThrows, complete_and_refresh,
        complete_then_mod_throws, LeaveRun, NoEvents
  <2> QED
    <3>1. CASE ExpireTimer(t)
      BY <2>2, <2>3, <3>1, Zenon DEF ExpireTimer
    <3>2. CASE ExpireThrows(t)
      BY <2>2, <2>3, <3>2, Zenon DEF ExpireThrows, LeaveRun
    <3> QED
      BY <1>16, <3>1, <3>2, Zenon
<1>17. CASE ExpireDone
  BY <1>17, Zenon DEF ExpireDone
<1>18. CASE Check
  BY <1>18 DEF Check, LeaveRun, NoEvents
<1>19. ASSUME NEW t \in Tops, PruneTimer(t) PROVE TypeInv'
  BY <1>19, Zenon DEF PruneTimer
<1>20. ASSUME NEW t \in Tops, PollUntilTimer(t) PROVE TypeInv'
  <2>1. t.deadline \in Nat
    BY Zenon DEF Tops, TimerEntry
  <2>2. clock + next_poll_timeout(t) * TicksPerMs \in Nat
    BY <2>1, PollTimeout, SMTT(30)
  <2> QED
    BY <1>20, <2>2, Zenon DEF PollUntilTimer
<1>21. CASE PollForever \/ NoWakeSource
  BY <1>21, SMTT(30) DEF PollForever, NoWakeSource, LeaveRun, NoEvents
<1>22. ASSUME NEW fd \in Fds, DispatchRead(fd) \/ DispatchWrite(fd) PROVE TypeInv'
  <2>1. /\ slot' \in [Fds -> [Event -> WaitSlot \cup {None}]]
        /\ ready' \in Seq(Roots)
        /\ result' \in [Roots -> BOOLEAN]
    BY <1>22, CompleteTypes, Zenon
    DEF DispatchRead, DispatchWrite, on_ready, complete_and_refresh, Event
  <2>2. /\ LoopTypeOK'
        /\ registered' \in SUBSET Fds
        /\ states' \in SUBSET Fds
    BY <1>22, RefreshTypes, ZenonT(30)
    DEF DispatchRead, DispatchWrite, on_ready, complete_and_refresh
  <2> QED
    BY <1>22, <2>1, <2>2, SMTT(30) DEF DispatchRead, DispatchWrite
<1>23. ASSUME NEW fd \in Fds, NEW e \in Event, DispatchThrows(fd, e) PROVE TypeInv'
  BY <1>23, CompleteTypes, Zenon
  DEF DispatchThrows, complete_then_mod_throws, LeaveRun, NoEvents
<1>24. CASE DispatchDone
  BY <1>24, Zenon DEF DispatchDone, EnterExpire
<1>25. ASSUME NEW batch \in SUBSET Deliverable, PollEvents(batch) PROVE TypeInv'
  BY <1>25, Zenon DEF PollEvents, epoll_wait_events, Reported
<1>26. ASSUME NEW interrupted \in BOOLEAN, PollNothing(interrupted) PROVE TypeInv'
  BY <1>26, Zenon DEF PollNothing, EnterExpire
<1>27. CASE PollThrows
  BY <1>27, Zenon DEF PollThrows, LeaveRun, NoEvents
<1>28. CASE Tick
  BY <1>28, SMTT(30) DEF Tick
<1>29. ASSUME NEW fd \in Fds, NEW c \in Condition, PeerActs(fd, c) PROVE TypeInv'
  BY <1>29, Zenon DEF PeerActs, Arrive
<1> HIDE IoContextAssumption
<1> HIDE DEF TypeInv
<1> QED
  BY <1>1, <1>2, <1>3, <1>4, <1>5, <1>6, <1>7, <1>8, <1>9, <1>10, <1>11, <1>12, Zenon,
     <1>13, <1>14, <1>15, <1>16, <1>17, <1>18, <1>19, <1>20, <1>21, <1>22,
     <1>23, <1>24, <1>25, <1>26, <1>27, <1>28, <1>29
  DEF Next, UserStep, TaskStep, ExecutorStep, PollStep, WorldStep

LEMMA TypeInvariant == Spec => []TypeInv
  BY TypeInit, TypeStep, PTL DEF Spec

\* The executor's variables keep their declared types in every reachable
\* state, through every interleaving of coroutines, callbacks, timers,
\* failures and tear-down.
THEOREM TypeCorrect == Spec => []TypeOK
  BY TypeInvariant, PTL DEF TypeInv

----------------------------------------------------------------------------
(* Layer 2: fd_states_, channels_ and the kernel's interest list agree.    *)

RegInv == TypeInv /\ RegistrationAgrees

regVars == <<channels, watched, interest, slot, states, registered>>

LEMMA RegFrame ==
  ASSUME RegistrationAgrees, UNCHANGED regVars
  PROVE  RegistrationAgrees'
  BY Zenon DEF RegistrationAgrees, regVars, Armed

\* Emptying a slot: complete() and refresh_interest(), or the failure of the
\* latter with a waiter left.
LEMMA RegComplete ==
  ASSUME RegInv, NEW fd \in Fds, NEW e \in Event, NEW outcome, fd \in states,
         \/ complete_and_refresh(fd, e, outcome)
         \/ complete_then_mod_throws(fd, e, outcome)
  PROVE  RegistrationAgrees'
<1> USE DEF RegInv, TypeInv, TypeOK, LoopTypeOK
<1>1. slot' = [slot EXCEPT ![fd][e] = None]
  BY Zenon DEF complete_and_refresh, complete_then_mod_throws, complete
<1>2. \A g \in Fds : g # fd => slot'[g] = slot[g] /\ Armed(slot', g) = Armed(slot, g)
  BY <1>1, Zenon DEF Armed
<1>3. Armed(slot', fd) = Armed(slot, fd) \ {e}
  BY <1>1, Zenon DEF Armed
<1>4. CASE complete_and_refresh(fd, e, outcome)
  <2>1. CASE Armed(slot', fd) = {}
    BY <1>2, <1>4, <2>1, Zenon
    DEF complete_and_refresh, refresh_interest, remove_channel, remove_channels,
        RegistrationAgrees
  <2>2. CASE Armed(slot', fd) # {}
    BY <1>2, <1>3, <1>4, <2>2, SMTT(30)
    DEF complete_and_refresh, refresh_interest, update_channel, ctl_arm,
        RegistrationAgrees
  <2> QED
    BY <2>1, <2>2, Zenon
<1>5. CASE complete_then_mod_throws(fd, e, outcome)
  BY <1>2, <1>3, <1>5, Zenon
  DEF complete_then_mod_throws, registration, RegistrationAgrees
<1> QED
  BY <1>4, <1>5, Zenon

LEMMA RegCancel ==
  ASSUME RegInv, NEW fd \in Fds, cancel(fd)
  PROVE  RegistrationAgrees'
<1> USE DEF RegInv, TypeInv, TypeOK, LoopTypeOK
<1>1. CASE fd \in states
  <2>1. slot' = [slot EXCEPT ![fd] = [e \in Event |-> None]]
    BY <1>1, Zenon DEF cancel
  <2>2. Armed(slot', fd) = {}
    BY <2>1, Zenon DEF Armed
  <2>3. \A g \in Fds : g # fd => Armed(slot', g) = Armed(slot, g)
    BY <2>1, Zenon DEF Armed
  <2>4. \A g \in Fds : g \in states' <=> Armed(slot', g) # {}
    BY <1>1, <2>2, <2>3, Zenon DEF cancel, RegistrationAgrees
  <2>5. \A g \in Fds : Armed(slot', g) \subseteq interest'[g]
    <3>1. \A g \in Fds : g # fd => interest'[g] = interest[g]
      BY <1>1 DEF cancel, remove_channel, remove_channels
    <3> QED
      BY <2>2, <2>3, <3>1, Zenon DEF RegistrationAgrees
  <2> QED
    BY <1>1, <2>4, <2>5, Zenon
    DEF cancel, remove_channel, remove_channels, RegistrationAgrees
<1>2. CASE fd \notin states
  BY <1>2, RegFrame, Zenon DEF cancel, registration, regVars
<1> QED
  BY <1>1, <1>2, Zenon

\* Arming a wait, with or without success.
LEMMA RegWait ==
  ASSUME RegInv, NEW fd \in Fds, NEW e \in Event, 
         NEW timeout \in Timeouts \cup {kNoTimeout}, Wait(fd, e, timeout)
  PROVE  RegistrationAgrees'
<1> USE DEF RegInv, TypeInv, TypeOK, LoopTypeOK
<1>1. slot' = [slot EXCEPT ![fd][e] = NewWaiter(timeout)]
  BY Zenon DEF Wait
<1>2. NewWaiter(timeout) # None
  BY NewWaiterType, Zenon DEF Wait
<1>3. \A g \in Fds : g # fd => Armed(slot', g) = Armed(slot, g)
  BY <1>1, Zenon DEF Armed
<1>4. Armed(slot', fd) = Armed(slot, fd) \cup {e}
  BY <1>1, <1>2 DEF Armed
<1>5. refresh_interest(fd, slot') /\ states' = states \cup {fd}
  BY Zenon DEF Wait
<1>6. /\ registered' = registered \cup {fd}
      /\ channels' = channels \cup {fd}
      /\ watched' = watched \cup {fd}
      /\ interest' = [interest EXCEPT ![fd] = Armed(slot', fd)]
  <2>1. Armed(slot', fd) # {}
    BY <1>4, Zenon
  <2>2. CASE fd \in registered
    BY <1>5, <2>1, <2>2, Zenon DEF refresh_interest, update_channel, ctl_arm
  <2>3. CASE fd \notin registered
    BY <1>5, <2>1, <2>3, Zenon DEF refresh_interest, add_channel, ctl_arm
  <2> QED
    BY <2>2, <2>3, Zenon
<1>7. \A g \in Fds : g \in states' <=> Armed(slot', g) # {}
  BY <1>3, <1>4, <1>5, Zenon DEF RegistrationAgrees
<1>8. \A g \in Fds : Armed(slot', g) \subseteq interest'[g]
  BY <1>3, <1>6, Zenon DEF RegistrationAgrees
<1> QED
  BY <1>5, <1>6, <1>7, <1>8, Zenon DEF RegistrationAgrees

LEMMA RegWaitThrows ==
  ASSUME RegInv, NEW fd \in Fds, NEW e \in Event, WaitThrows(fd, e)
  PROVE  RegistrationAgrees'
<1> USE DEF RegInv, TypeInv, TypeOK, LoopTypeOK
<1>1. slot' = slot /\ \A g \in Fds : Armed(slot', g) = Armed(slot, g)
  BY Zenon DEF WaitThrows, Armed
<1>2. \A g \in Fds : Armed(slot, g) \subseteq Event
  BY Zenon DEF Armed
<1> QED
  BY <1>1, <1>2, ZenonT(30)
  DEF WaitThrows, remove_channel, remove_channels, update_channel, ctl_arm,
      registration, RegistrationAgrees

LEMMA RegDestroy ==
  ASSUME RegInv, Destroy
  PROVE  RegistrationAgrees'
<1> USE DEF RegInv, TypeInv, TypeOK, LoopTypeOK
<1>1. \A fd \in Fds : Armed(slot', fd) = {}
  BY Zenon DEF Destroy, NoWaiters, Armed
<1> QED
  BY <1>1, Zenon DEF Destroy, remove_channels, RegistrationAgrees

\* What a step does to the wait slots and the registrations: nothing, or one
\* of the operations above.
LEMMA StepKinds ==
  ASSUME TypeInv, [Next]_vars
  PROVE  \/ UNCHANGED regVars
         \/ Destroy
         \/ \E fd \in Fds : UserCode /\ cancel(fd)
         \/ \E fd \in Fds, e \in Event : WaitThrows(fd, e)
         \/ \E fd \in Fds, e \in Event, timeout \in Timeouts \cup {kNoTimeout} :
              Wait(fd, e, timeout)
         \/ \E t \in Tops : /\ ExpireTimer(t) \/ ExpireThrows(t)
                            /\ t.fd \in states
                            /\ \/ complete_and_refresh(t.fd, t.event, FALSE)
                               \/ complete_then_mod_throws(t.fd, t.event, FALSE)
         \/ \E fd \in Fds, e \in Event :
              /\ \/ e = "READ" /\ (DispatchRead(fd) \/ DispatchThrows(fd, e))
                 \/ e = "WRITE" /\ (DispatchWrite(fd) \/ DispatchThrows(fd, e))
              /\ fd \in states
              /\ \/ complete_and_refresh(fd, e, TRUE)
                 \/ complete_then_mod_throws(fd, e, TRUE)
<1> USE DEF regVars, loopVars, taskVars, waitVars, control, registration,
            dispatching
<1>1. CASE UNCHANGED vars
  BY <1>1, Zenon DEF vars
<1>2. CASE UserStep
  BY <1>2, Zenon DEF UserStep, Spawn, SpawnThrows, Cancel, Close, UseFd, Consume, Stop,
              RunCall
<1>3. CASE TaskStep
  BY <1>3, Zenon DEF TaskStep, Yield, AwaitForeign, Finish
<1>4. CASE \E t \in Tops : ExpireTimer(t) \/ ExpireThrows(t)
  BY <1>4, ZenonT(30) DEF ExpireTimer, ExpireThrows, timer_active
<1>5. CASE LoopHead \/ RunReadyNext \/ RunReadyDone \/ DrainCompleted
           \/ ExpireDone \/ Check \/ PollForever \/ NoWakeSource \/ DispatchDone
  BY <1>5, Zenon DEF LoopHead, RunReadyNext, RunReadyDone, DrainCompleted, ExpireDone,
              Check, PollForever, NoWakeSource, DispatchDone, LeaveRun
<1>6. CASE \E t \in Tops : PruneTimer(t) \/ PollUntilTimer(t)
  BY <1>6, Zenon DEF PruneTimer, PollUntilTimer
<1>7. CASE \E fd \in Fds : DispatchRead(fd) \/ DispatchWrite(fd)
  BY <1>7, ZenonT(30) DEF DispatchRead, DispatchWrite, on_ready, Event
<1>8. CASE \E fd \in Fds, e \in Event : DispatchThrows(fd, e)
  BY <1>8, Zenon DEF DispatchThrows, Event
<1>9. CASE PollStep
  BY <1>9, Zenon DEF PollStep, PollEvents, PollNothing, PollThrows
<1>10. CASE WorldStep
  BY <1>10, Zenon DEF WorldStep, Tick, PeerActs, Arrive
<1> QED
  BY <1>1, <1>2, <1>3, <1>4, <1>5, <1>6, <1>7, <1>8, <1>9, <1>10, Zenon
  DEF Next, ExecutorStep

LEMMA RegInit == Init => RegistrationAgrees
  BY SMTT(30) DEF Init, LoopInit, RegistrationAgrees, NoWaiters, Armed

LEMMA RegStep == RegInv /\ [Next]_vars => RegistrationAgrees'
<1> SUFFICES ASSUME RegInv, [Next]_vars PROVE RegistrationAgrees'
  BY Zenon
<1>1. TypeInv /\ RegistrationAgrees
  BY Zenon DEF RegInv
<1>2. \A t \in Tops : t.fd \in Fds /\ t.event \in Event
  BY <1>1, Zenon DEF Tops, TimerEntry, TypeInv, TypeOK
<1> QED
  BY <1>1, <1>2, StepKinds, RegFrame, RegDestroy, RegCancel, RegWaitThrows,
     RegWait, RegComplete, Zenon

\* At every moment fd_states_, the registered flags, the event loop's channel
\* table and the kernel's interest list name the same descriptors, those with
\* a parked waiter, and the kernel watches every direction that has one.
THEOREM RegistrationCorrect == Spec => []RegistrationAgrees
<1>1. Init => RegInv
  BY TypeInit, RegInit, Zenon DEF RegInv
<1>2. RegInv /\ [Next]_vars => RegInv'
  BY TypeStep, RegStep, Zenon DEF RegInv
<1>3. RegInv => RegistrationAgrees
  BY Zenon DEF RegInv
<1> QED
  BY <1>1, <1>2, <1>3, PTL DEF Spec

----------------------------------------------------------------------------
(* Layer 3: no edge is lost, as long as EPOLL_CTL_MOD does not fail.       *)

\* A callback is only ever half done inside dispatch_events().
HalfwayInDispatch == pc # "dispatch" => halfway = {}

EdgeInv == RegInv /\ HalfwayInDispatch /\ NoLostEdge

\* A condition that wakes a watched direction is in the epoll mask.
LEMMA MaskCovers ==
  ASSUME NEW ev \in SUBSET Event, NEW e \in ev, NEW fd \in Fds,
         cond[fd] \cap Wakes(e) # {}
  PROVE  /\ Wakes(e) \subseteq to_epoll_events(ev)
         /\ Reported(fd, ev) \cap Wakes(e) # {}
  BY Zenon DEF to_epoll_events, Reported

\* refresh_interest() takes no descriptor with a waiter off the ready list,
\* and puts one with a waiter whose condition holds on it.
LEMMA RefreshEdges ==
  ASSUME TypeOK, NEW fd \in Fds, NEW s, refresh_interest(fd, s)
  PROVE  /\ \A g \in pend : g # fd \/ Armed(s, fd) # {} => g \in pend'
         /\ \A e \in Armed(s, fd) : cond[fd] \cap Wakes(e) # {} => fd \in pend'
<1>1. CASE Armed(s, fd) = {}
  BY <1>1, Zenon DEF refresh_interest, remove_channel, remove_channels
<1>2. CASE Armed(s, fd) # {}
  <2>1. ctl_arm(fd, Armed(s, fd))
    BY <1>2, Zenon DEF refresh_interest, add_channel, update_channel
  <2>2. Armed(s, fd) \in SUBSET Event
    BY Zenon DEF Armed
  <2>3. \A e \in Armed(s, fd) : cond[fd] \cap Wakes(e) # {} =>
          Reported(fd, Armed(s, fd)) # {}
    BY <2>2, MaskCovers, Zenon
  <2> QED
    BY <1>2, <2>1, <2>3, Zenon DEF ctl_arm
<1> QED
  BY <1>1, <1>2, Zenon

\* Outside dispatch_events() the edge is on the ready list; it stays there.
LEMMA EdgeQuiet ==
  ASSUME NoLostEdge, pc # "dispatch", slot' = slot, cond' = cond, pend' = pend
  PROVE  NoLostEdge'
  BY Zenon DEF NoLostEdge

\* Emptying slot (fd, e) outside dispatch_events().
LEMMA EdgeComplete ==
  ASSUME EdgeInv, NEW fd \in Fds, NEW e \in Event, NEW outcome,
         pc # "dispatch", complete_and_refresh(fd, e, outcome), cond' = cond
  PROVE  NoLostEdge'
<1> USE DEF EdgeInv, RegInv, TypeInv
<1>1. slot' = [slot EXCEPT ![fd][e] = None] /\ refresh_interest(fd, slot')
  BY Zenon DEF complete_and_refresh, complete
<1>2. \A g \in Fds, d \in Event : slot'[g][d] # None => slot'[g][d] = slot[g][d]
  BY <1>1, Zenon DEF TypeOK
<1>3. \A g \in Fds, d \in Event :
        slot'[g][d] # None /\ cond[g] \cap Wakes(d) # {} => g \in pend
  BY <1>2, Zenon DEF NoLostEdge
<1>4. \A d \in Event : slot'[fd][d] # None => Armed(slot', fd) # {}
  BY Zenon DEF Armed
<1>5. \A g \in Fds, d \in Event :
        slot'[g][d] # None /\ cond[g] \cap Wakes(d) # {} => g \in pend'
  BY <1>1, <1>3, <1>4, RefreshEdges, Zenon
<1> QED
  BY <1>5, Zenon DEF NoLostEdge

LEMMA EdgeCancel ==
  ASSUME EdgeInv, NEW fd \in Fds, UserCode, cancel(fd),
         cond' = cond \/ cond' = [cond EXCEPT ![fd] = {}]
  PROVE  NoLostEdge'
<1> USE DEF EdgeInv, RegInv, TypeInv
<1>1. CASE fd \in states
  <2>1. \A g \in Fds, d \in Event : slot'[g][d] # None => g # fd /\ slot'[g][d] = slot[g][d]
    <3>1. slot' = [slot EXCEPT ![fd] = [e \in Event |-> None]]
      BY <1>1, Zenon DEF cancel
    <3>2. slot \in [Fds -> [Event -> WaitSlot \cup {None}]]
      BY Zenon DEF TypeOK
    <3> QED
      BY <3>1, <3>2, Zenon
  <2>2. \A g \in Fds : g # fd => (g \in pend => g \in pend') /\ cond'[g] = cond[g]
    BY <1>1, Zenon DEF cancel, remove_channel, remove_channels, TypeOK, LoopTypeOK
  <2> QED
    BY <2>1, <2>2 DEF NoLostEdge, UserCode
<1>2. CASE fd \notin states
  <2>1. slot' = slot /\ pend' = pend
    BY <1>2, Zenon DEF cancel, registration
  <2>2. \A d \in Event : slot[fd][d] = None
    BY <1>2, Zenon DEF RegistrationAgrees, Armed
  <2>3. \A g \in Fds : g # fd => cond'[g] = cond[g]
    BY Zenon DEF TypeOK, LoopTypeOK
  <2> QED
    BY <2>1, <2>2, <2>3, Zenon DEF NoLostEdge, UserCode
<1> QED
  BY <1>1, <1>2, Zenon

LEMMA EdgeWait ==
  ASSUME EdgeInv, NEW fd \in Fds, NEW e \in Event,
         NEW timeout \in Timeouts \cup {kNoTimeout}, Wait(fd, e, timeout)
  PROVE  NoLostEdge'
<1> USE DEF EdgeInv, RegInv, TypeInv
<1>1. /\ slot' = [slot EXCEPT ![fd][e] = NewWaiter(timeout)]
      /\ refresh_interest(fd, slot')
      /\ cond' = cond
      /\ pc = "task"
  BY Zenon DEF Wait
<1>2. \A g \in Fds, d \in Event : g # fd => slot'[g][d] = slot[g][d]
  BY <1>1, Zenon DEF TypeOK
<1>3. \A d \in Event : slot'[fd][d] # None => d \in Armed(slot', fd)
  BY Zenon DEF Armed
<1>4. \A d \in Event : slot'[fd][d] # None /\ cond[fd] \cap Wakes(d) # {} => fd \in pend'
  BY <1>1, <1>3, RefreshEdges, Zenon
<1>5. \A g \in Fds, d \in Event :
        g # fd /\ slot'[g][d] # None /\ cond[g] \cap Wakes(d) # {} => g \in pend'
  BY <1>1, <1>2, RefreshEdges, Zenon DEF NoLostEdge
<1> QED
  BY <1>1, <1>4, <1>5, Zenon DEF NoLostEdge

LEMMA EdgeWaitThrows ==
  ASSUME EdgeInv, NEW fd \in Fds, NEW e \in Event, WaitThrows(fd, e)
  PROVE  NoLostEdge'
<1> USE DEF EdgeInv, RegInv, TypeInv
<1>1. slot' = slot /\ cond' = cond /\ pc = "task"
  BY Zenon DEF WaitThrows
<1>2. \A g \in pend : g # fd \/ Armed(slot, fd) # {} => g \in pend'
  BY Zenon DEF WaitThrows, remove_channel, remove_channels, update_channel, ctl_arm,
         registration
<1>3. \A d \in Event : slot[fd][d] # None => Armed(slot, fd) # {}
  BY Zenon DEF Armed
<1> QED
  BY <1>1, <1>2, <1>3, Zenon DEF NoLostEdge

\* epoll_wait moves an edge from the ready list to the events array.
LEMMA EdgePoll ==
  ASSUME EdgeInv, NEW batch \in SUBSET Deliverable, PollEvents(batch)
  PROVE  NoLostEdge'
<1> USE DEF EdgeInv, RegInv, TypeInv
<1>1. /\ slot' = slot /\ cond' = cond /\ halfway' = {}
      /\ pc = "poll" /\ pc' = "dispatch"
      /\ pend' = pend \ batch
      /\ events' = [fd \in Fds |->
                      IF fd \in batch THEN Reported(fd, interest[fd]) ELSE {}]
  BY Zenon DEF PollEvents, epoll_wait_events, HalfwayInDispatch, waitVars
<1>2. ASSUME NEW fd \in Fds, NEW e \in Event, slot[fd][e] # None,
             cond[fd] \cap Wakes(e) # {}
      PROVE  fd \in pend /\ (fd \in batch => events'[fd] \cap Wakes(e) # {})
  <2>1. fd \in pend
    BY <1>1, <1>2, Zenon DEF NoLostEdge
  <2>2. e \in interest[fd] /\ interest[fd] \in SUBSET Event
    BY <1>2, Zenon DEF RegistrationAgrees, Armed, TypeOK, LoopTypeOK
  <2>3. Reported(fd, interest[fd]) \cap Wakes(e) # {}
    BY <1>2, <2>2, MaskCovers, Zenon
  <2> QED
    BY <1>1, <2>1, <2>3, Zenon
<1> QED
  BY <1>1, <1>2, Zenon DEF NoLostEdge

\* The two callbacks of an array entry.  The direction called is emptied and
\* the other one is re-armed, or the entry had nothing for the direction.
LEMMA EdgeDispatchRead ==
  ASSUME EdgeInv, NEW fd \in Fds, DispatchRead(fd)
  PROVE  NoLostEdge'
<1> USE DEF EdgeInv, RegInv, TypeInv
<1>1. /\ cond' = cond /\ events' = events /\ pc = "dispatch" /\ pc' = pc
      /\ halfway = {} /\ halfway' = {fd} /\ events[fd] # {}
  BY Zenon DEF DispatchRead, control
<1>2. CASE calls_on_read(fd)
  <2>1. fd \in states
    BY <1>2, Zenon DEF calls_on_read, RegistrationAgrees
  <2>2. complete_and_refresh(fd, "READ", TRUE)
    BY <1>2, <2>1, Zenon DEF DispatchRead, on_ready
  <2>3. slot' = [slot EXCEPT ![fd]["READ"] = None] /\ refresh_interest(fd, slot')
    BY <2>2, Zenon DEF complete_and_refresh, complete
  <2>4. slot'[fd]["READ"] = None /\ \A g \in Fds, d \in Event : g # fd => slot'[g][d] = slot[g][d]
    BY <2>3, Zenon DEF TypeOK, Event
  <2>5. \A d \in Event : slot'[fd][d] # None => d \in Armed(slot', fd)
    BY Zenon DEF Armed
  <2>6. \A d \in Event : slot'[fd][d] # None /\ cond[fd] \cap Wakes(d) # {} => fd \in pend'
    BY <2>3, <2>5, RefreshEdges, Zenon
  <2>7. \A g \in pend : g # fd => g \in pend'
    BY <2>3, RefreshEdges, Zenon
  <2>8. \A g \in Fds : g # fd => halfway' # {g}
    BY <1>1, Zenon
  <2> QED
    BY <1>1, <2>4, <2>6, <2>7, <2>8, SMTT(30) DEF NoLostEdge
<1>3. CASE ~calls_on_read(fd)
  <2>1. slot' = slot /\ pend' = pend
    BY <1>3, Zenon DEF DispatchRead, registration
  <2>2. slot[fd]["READ"] # None => events[fd] \cap Wakes("READ") = {}
    BY <1>3, Zenon DEF calls_on_read, Wakes, RegistrationAgrees, Armed, Event
  <2>3. \A g \in Fds : g # fd => halfway' # {g}
    BY <1>1, Zenon
  <2> QED
    BY <1>1, <2>1, <2>2, <2>3, Zenon DEF NoLostEdge, Event
<1> QED
  BY <1>2, <1>3, Zenon

LEMMA EdgeDispatchWrite ==
  ASSUME EdgeInv, NEW fd \in Fds, DispatchWrite(fd)
  PROVE  NoLostEdge'
<1> USE DEF EdgeInv, RegInv, TypeInv
<1>1. /\ cond' = cond /\ pc = "dispatch" /\ pc' = pc
      /\ halfway = {fd} /\ halfway' = {}
      /\ events' = [events EXCEPT ![fd] = {}]
  BY Zenon DEF DispatchWrite, control
<1>2. \A g \in Fds : g # fd => events'[g] = events[g]
  BY <1>1, Zenon DEF TypeOK, LoopTypeOK
<1>3. CASE calls_on_write(fd)
  <2>1. fd \in states
    BY <1>3, Zenon DEF calls_on_write, RegistrationAgrees
  <2>2. complete_and_refresh(fd, "WRITE", TRUE)
    BY <1>3, <2>1, Zenon DEF DispatchWrite, on_ready
  <2>3. slot' = [slot EXCEPT ![fd]["WRITE"] = None] /\ refresh_interest(fd, slot')
    BY <2>2, Zenon DEF complete_and_refresh, complete
  <2>4. \A g \in Fds, d \in Event : g # fd => slot'[g][d] = slot[g][d]
    BY <2>3, Zenon DEF TypeOK, Event
  <2>5. \A d \in Event : slot'[fd][d] # None => d \in Armed(slot', fd)
    BY Zenon DEF Armed
  <2>6. \A d \in Event : slot'[fd][d] # None /\ cond[fd] \cap Wakes(d) # {} => fd \in pend'
    BY <2>3, <2>5, RefreshEdges, Zenon
  <2>7. \A g \in pend : g # fd => g \in pend'
    BY <2>3, RefreshEdges, Zenon
  <2>8. ASSUME NEW g \in Fds, NEW d \in Event, g # fd,
               slot'[g][d] # None, cond'[g] \cap Wakes(d) # {}
        PROVE  g \in pend' \/ events'[g] \cap Wakes(d) # {}
    <3>1. slot[g][d] # None /\ cond[g] \cap Wakes(d) # {}
      BY <1>1, <2>4, <2>8, Zenon
    <3>2. g \in pend \/ events[g] \cap Wakes(d) # {}
      BY <3>1, Zenon DEF NoLostEdge
    <3> QED
      BY <1>2, <2>7, <2>8, <3>2, Zenon
  <2>9. \A g \in Fds : halfway' # {g}
    BY <1>1, Zenon
  <2> QED
    BY <1>1, <2>6, <2>8, <2>9, Zenon DEF NoLostEdge
<1>4. CASE ~calls_on_write(fd)
  <2>1. slot' = slot /\ pend' = pend
    BY <1>4, Zenon DEF DispatchWrite, registration
  <2>2. slot[fd]["WRITE"] # None => events[fd] \cap Wakes("WRITE") = {}
    BY <1>4, Zenon DEF calls_on_write, Wakes, RegistrationAgrees, Armed, Event
  <2> QED
    BY <1>1, <1>2, <2>1, <2>2, Zenon DEF NoLostEdge, Event
<1> QED
  BY <1>3, <1>4, Zenon

LEMMA EdgePeer ==
  ASSUME EdgeInv, NEW fd \in Fds, NEW c \in Condition, PeerActs(fd, c)
  PROVE  NoLostEdge'
<1> USE DEF EdgeInv, RegInv, TypeInv
<1>1. /\ slot' = slot /\ events' = events /\ halfway' = halfway /\ pc' = pc
      /\ cond' = [cond EXCEPT ![fd] = @ \cup {c}]
      /\ pend' = IF fd \in watched /\ c \in to_epoll_events(interest[fd])
                   THEN pend \cup {fd} ELSE pend
  BY Zenon DEF PeerActs, Arrive, waitVars, control
<1>2. \A g \in Fds : g # fd => cond'[g] = cond[g]
  BY <1>1, Zenon DEF TypeOK, LoopTypeOK
<1>3. cond'[fd] = cond[fd] \cup {c}
  BY <1>1, Zenon DEF TypeOK, LoopTypeOK
<1>4. \A e \in Event : slot[fd][e] # None /\ c \in Wakes(e) => fd \in pend'
  <2> SUFFICES ASSUME NEW e \in Event, slot[fd][e] # None, c \in Wakes(e)
               PROVE  fd \in pend'
    BY Zenon
  <2>1. fd \in watched /\ e \in interest[fd]
    BY Zenon DEF RegistrationAgrees, Armed
  <2>2. c \in to_epoll_events(interest[fd])
    BY <2>1, Zenon DEF to_epoll_events
  <2> QED
    BY <1>1, <2>1, <2>2, Zenon
<1>5. \A e \in Event : slot[fd][e] # None /\ cond'[fd] \cap Wakes(e) # {} =>
        cond[fd] \cap Wakes(e) # {} \/ fd \in pend'
  BY <1>3, <1>4, Zenon
<1>6. \A g \in pend : g \in pend'
  BY <1>1, Zenon
<1> QED
  BY <1>1, <1>2, <1>5, <1>6, Zenon DEF NoLostEdge

LEMMA EdgeStep ==
  ASSUME "mod" \notin Faults, EdgeInv, [Next]_vars
  PROVE  HalfwayInDispatch' /\ NoLostEdge'
<1> USE DEF HalfwayInDispatch, loopVars, taskVars, waitVars, control,
            registration, dispatching
<1>1. NoLostEdge /\ HalfwayInDispatch /\ TypeOK
  BY Zenon DEF EdgeInv, RegInv, TypeInv
<1>2. CASE UNCHANGED vars
  BY <1>1, <1>2, Zenon DEF vars, NoLostEdge
<1>3. CASE UserStep
  <2>1. ASSUME NEW fd \in Fds, Cancel(fd) \/ Close(fd)
        PROVE  HalfwayInDispatch' /\ NoLostEdge'
    BY <1>1, <2>1, EdgeCancel, Zenon DEF Cancel, Close, UserCode
  <2>2. ASSUME NEW fd \in Fds, NEW e \in Event, WaitThrows(fd, e)
        PROVE  HalfwayInDispatch' /\ NoLostEdge'
    BY <1>1, <2>2, EdgeWaitThrows, Zenon DEF WaitThrows
  <2>3. ASSUME NEW fd \in Fds, NEW c \in {"in", "out"}, UseFd(fd, c)
        PROVE  HalfwayInDispatch' /\ NoLostEdge'
    BY <1>1, <2>3, Zenon DEF UseFd, Consume, NoLostEdge, TypeOK, LoopTypeOK
  <2>4. CASE Destroy
    BY <1>1, <2>4, Zenon DEF Destroy, NoWaiters, NoLostEdge
  <2>5. CASE Stop \/ RunCall \/ \E r \in Roots : Spawn(r) \/ SpawnThrows(r)
    BY <1>1, <2>5, EdgeQuiet, Zenon DEF Stop, RunCall, Spawn, SpawnThrows, UserCode
  <2> QED
    BY <1>3, <2>1, <2>2, <2>3, <2>4, <2>5, Zenon DEF UserStep
<1>4. CASE TaskStep
  <2>1. ASSUME NEW fd \in Fds, NEW e \in Event,
               NEW timeout \in Timeouts \cup {kNoTimeout}, Wait(fd, e, timeout)
        PROVE  HalfwayInDispatch' /\ NoLostEdge'
    BY <1>1, <2>1, EdgeWait, Zenon DEF Wait
  <2>2. CASE Yield \/ AwaitForeign \/ \E how \in {"returned", "threw"} : Finish(how)
    BY <1>1, <2>2, EdgeQuiet, Zenon DEF Yield, AwaitForeign, Finish, Suspended
  <2> QED
    BY <1>4, <2>1, <2>2, Zenon DEF TaskStep
<1>5. ASSUME NEW t \in Tops, ExpireTimer(t) \/ ExpireThrows(t)
      PROVE  HalfwayInDispatch' /\ NoLostEdge'
  <2>1. ExpireTimer(t)
    BY <1>5, Zenon DEF ExpireThrows, complete_then_mod_throws
  <2>2. t.fd \in Fds /\ t.event \in Event
    BY <1>1, Zenon DEF Tops, TimerEntry, TypeOK
  <2>3. pc # "dispatch" /\ cond' = cond
    BY <2>1, Zenon DEF ExpireTimer
  <2> QED
    BY <1>1, <2>1, <2>2, <2>3, EdgeComplete, EdgeQuiet, Zenon DEF ExpireTimer
<1>6. CASE LoopHead \/ RunReadyNext \/ RunReadyDone \/ DrainCompleted
           \/ ExpireDone \/ Check \/ PollForever \/ NoWakeSource
  BY <1>1, <1>6, EdgeQuiet, Zenon
  DEF LoopHead, RunReadyNext, RunReadyDone, DrainCompleted, ExpireDone, Check,
      PollForever, NoWakeSource, LeaveRun, EnterExpire
<1>7. CASE \E t \in Tops : PruneTimer(t) \/ PollUntilTimer(t)
  BY <1>1, <1>7, EdgeQuiet, Zenon DEF PruneTimer, PollUntilTimer
<1>8. ASSUME NEW fd \in Fds, DispatchRead(fd)
      PROVE  HalfwayInDispatch' /\ NoLostEdge'
  BY <1>8, EdgeDispatchRead, Zenon DEF DispatchRead
<1>9. ASSUME NEW fd \in Fds, DispatchWrite(fd)
      PROVE  HalfwayInDispatch' /\ NoLostEdge'
  BY <1>9, EdgeDispatchWrite, Zenon DEF DispatchWrite
<1>10. ASSUME NEW fd \in Fds, NEW e \in Event, DispatchThrows(fd, e) PROVE FALSE
  BY <1>10, Zenon DEF DispatchThrows, complete_then_mod_throws
<1>11. CASE DispatchDone
  BY <1>1, <1>11, Zenon DEF DispatchDone, EnterExpire, NoEvents, NoLostEdge
<1>12. CASE PollStep
  <2>1. ASSUME NEW batch \in SUBSET Deliverable, PollEvents(batch)
        PROVE  HalfwayInDispatch' /\ NoLostEdge'
    BY <2>1, EdgePoll, Zenon DEF PollEvents
  <2>2. CASE PollThrows \/ \E interrupted \in BOOLEAN : PollNothing(interrupted)
    BY <1>1, <2>2, EdgeQuiet, Zenon DEF PollNothing, PollThrows, EnterExpire, LeaveRun
  <2> QED
    BY <1>12, <2>1, <2>2, Zenon DEF PollStep
<1>13. CASE Tick
  BY <1>1, <1>13, Zenon DEF Tick, NoLostEdge
<1>14. ASSUME NEW fd \in Fds, NEW c \in Condition, PeerActs(fd, c)
       PROVE  HalfwayInDispatch' /\ NoLostEdge'
  BY <1>1, <1>14, EdgePeer, Zenon DEF PeerActs, Arrive
<1> HIDE DEF HalfwayInDispatch
<1> QED
  BY <1>2, <1>3, <1>4, <1>5, <1>6, <1>7, <1>8, <1>9, <1>10, <1>11, <1>12, <1>13, Zenon,
     <1>14
  DEF Next, ExecutorStep, WorldStep

\* While epoll_ctl(MOD) succeeds, no readiness of a parked waiter is lost to
\* edge-triggered delivery: the descriptor is on the kernel's ready list or
\* its callback is still to come in the current dispatch_events().
THEOREM EdgesKept ==
  ASSUME "mod" \notin Faults
  PROVE  Spec => []NoLostEdge
<1>1. Init => EdgeInv
  <2> SUFFICES ASSUME Init PROVE EdgeInv
    BY Zenon
  <2>1. RegInv
    BY TypeInit, RegInit, Zenon DEF RegInv
  <2>2. HalfwayInDispatch
    BY Zenon DEF HalfwayInDispatch, Init, LoopInit
  <2>3. \A fd \in Fds, e \in Event : slot[fd][e] = None
    BY Zenon DEF Init, NoWaiters
  <2>4. NoLostEdge
    BY <2>3, Zenon DEF NoLostEdge
  <2> QED
    BY <2>1, <2>2, <2>4, Zenon DEF EdgeInv
<1>2. EdgeInv /\ [Next]_vars => EdgeInv'
  BY EdgeStep, TypeStep, RegStep, Zenon DEF EdgeInv, RegInv
<1>3. EdgeInv => NoLostEdge
  BY Zenon DEF EdgeInv
<1> QED
  BY <1>1, <1>2, <1>3, PTL DEF Spec

----------------------------------------------------------------------------
(* Layer 4, on layer 2: every parked deadline has its entry in the timer    *)
(* heap, an entry whose token matches belongs to the waiter it was made     *)
(* for, and epoll_wait never sleeps past a deadline.                        *)

\* Tokens are handed out once.
TokensUsed ==
  /\ \A fd \in Fds, e \in Event : slot[fd][e] # None => slot[fd][e].token < next_token
  /\ \A t \in timers : t.token < next_token

TimerOf(fd, e) ==
  [deadline |-> slot[fd][e].due, token |-> slot[fd][e].token, fd |-> fd, event |-> e]

\* A parked deadline is in the heap ...
DeadlinesInHeap ==
  \A fd \in Fds, e \in Event :
    slot[fd][e] # None /\ slot[fd][e].due >= 0 => TimerOf(fd, e) \in timers

\* ... and an entry with the token of the parked waiter is its deadline.
EntriesMatch ==
  \A t \in timers :
    /\ slot[t.fd][t.event] # None
    /\ slot[t.fd][t.event].token = t.token
    => slot[t.fd][t.event].due = t.deadline

TimerInv ==
  /\ RegInv
  /\ TokensUsed
  /\ DeadlinesInHeap
  /\ EntriesMatch
  /\ now <= clock

heapVars == <<slot, timers, next_token>>

LEMMA TimerFrame ==
  ASSUME TimerInv, UNCHANGED heapVars
  PROVE  TokensUsed' /\ DeadlinesInHeap' /\ EntriesMatch'
  BY Zenon DEF TimerInv, TokensUsed, DeadlinesInHeap, EntriesMatch, TimerOf, heapVars

\* Slots may be emptied as long as the heap only loses entries that belong to
\* no waiter left.
LEMMA TimerShrink ==
  ASSUME TimerInv, TypeInv', next_token' \in Nat, next_token <= next_token',
         timers' \subseteq timers,
         \A fd \in Fds, e \in Event :
           slot'[fd][e] # None => /\ slot'[fd][e] = slot[fd][e]
                                  /\ TimerOf(fd, e) \in timers => TimerOf(fd, e) \in timers'
  PROVE  TokensUsed' /\ DeadlinesInHeap' /\ EntriesMatch'
<1> USE DEF TimerInv, RegInv, TypeInv, TypeOK
<1>1. \A t \in timers : /\ t.fd \in Fds /\ t.event \in Event
                        /\ t.token \in Nat /\ t.deadline \in Nat
  BY Zenon DEF TimerEntry
<1>2. \A fd \in Fds, e \in Event : slot[fd][e] # None => slot[fd][e].token \in Nat
  BY SMTT(60) DEF WaitSlot
<1>3. TokensUsed'
  BY <1>1, <1>2, SMTT(60) DEF TokensUsed
<1>4. DeadlinesInHeap'
  BY Zenon DEF DeadlinesInHeap, TimerOf
<1>5. EntriesMatch'
  BY <1>1, Zenon DEF EntriesMatch
<1> QED
  BY <1>3, <1>4, <1>5, Zenon

LEMMA TimerWait ==
  ASSUME TimerInv, NEW fd \in Fds, NEW e \in Event,
         NEW timeout \in Timeouts \cup {kNoTimeout}, Wait(fd, e, timeout)
  PROVE  TokensUsed' /\ DeadlinesInHeap' /\ EntriesMatch'
<1> USE DEF TimerInv, RegInv, TypeInv, TypeOK
<1> DEFINE w == NewWaiter(timeout)
           u == [deadline |-> DueOf(timeout), token |-> next_token,
                 fd |-> fd, event |-> e]
<1>1. /\ slot' = [slot EXCEPT ![fd][e] = w]
      /\ timers' = IF timeout >= 0 THEN timers \cup {u} ELSE timers
      /\ next_token' = next_token + 1
      /\ pc = "task"
  BY Zenon DEF Wait
<1>2. /\ w.token = next_token /\ w.due = DueOf(timeout) /\ w # None
      /\ timeout >= 0 => DueOf(timeout) \in Nat
      /\ ~(timeout >= 0) => DueOf(timeout) = -1
  BY <1>1, NewWaiterType, Zenon DEF NewWaiter
<1>3. u.deadline = DueOf(timeout) /\ u.token = next_token /\ u.fd = fd /\ u.event = e
  BY Zenon
<1>4. \A t \in timers : t.fd \in Fds /\ t.event \in Event /\ t.token \in Nat
  BY Zenon DEF TimerEntry
<1>5. \A g \in Fds, d \in Event : slot[g][d] # None => slot[g][d].token \in Nat
  BY Zenon DEF WaitSlot
<1>6. slot'[fd][e] = w /\ \A g \in Fds, d \in Event :
        ~(g = fd /\ d = e) => slot'[g][d] = slot[g][d]
  BY <1>1, Zenon
<1>7. TimerOf(fd, e)' = [deadline |-> w.due, token |-> w.token, fd |-> fd, event |-> e]
  BY <1>6, Zenon DEF TimerOf
<1> HIDE DEF w, u
<1>8. TokensUsed'
  BY <1>1, <1>2, <1>3, <1>4, <1>5, <1>6, SMTT(30) DEF TokensUsed
<1>9. DeadlinesInHeap'
  <2>1. w.due >= 0 => TimerOf(fd, e)' \in timers'
    BY <1>1, <1>2, <1>7, SMTT(60) DEF u
  <2>2. \A g \in Fds, d \in Event : ~(g = fd /\ d = e) => TimerOf(g, d)' = TimerOf(g, d)
    BY <1>6, Zenon DEF TimerOf
  <2> QED
    BY <1>1, <1>6, <2>1, <2>2, SMTT(30) DEF DeadlinesInHeap
<1>10. EntriesMatch'
  <2>1. ASSUME NEW t \in timers PROVE t.token # next_token
    BY <1>4, <2>1 DEF TokensUsed
  <2> QED
    BY <1>1, <1>2, <1>3, <1>4, <1>6, <2>1, SMTT(120) DEF EntriesMatch
<1> QED
  BY <1>8, <1>9, <1>10, Zenon

\* Popping the top of the heap: an entry that is not active is no waiter's,
\* one that is active loses its waiter.
LEMMA TimerPop ==
  ASSUME TimerInv, TypeInv', NEW t \in timers, timers' = timers \ {t},
         next_token' = next_token,
         \/ ~timer_active(t) /\ slot' = slot
         \/ slot' = [slot EXCEPT ![t.fd][t.event] = None]
  PROVE  TokensUsed' /\ DeadlinesInHeap' /\ EntriesMatch'
<1> USE DEF TimerInv, RegInv, TypeInv, TypeOK
<1>1. t.fd \in Fds /\ t.event \in Event
  BY Zenon DEF TimerEntry
<1>2. \A fd \in Fds, e \in Event : slot'[fd][e] # None => slot'[fd][e] = slot[fd][e]
  BY <1>1, SMTT(30)
<1>3. ASSUME NEW fd \in Fds, NEW e \in Event, slot'[fd][e] # None
      PROVE  TimerOf(fd, e) # t
  <2>1. SUFFICES ASSUME TimerOf(fd, e) = t PROVE FALSE
    BY Zenon
  <2>2. t.fd = fd /\ t.event = e /\ t.token = slot[fd][e].token
    BY <2>1, Zenon DEF TimerOf
  <2>3. slot[fd][e] # None
    BY <1>2, <1>3, Zenon
  <2>4. fd \in states
    BY <2>3, Zenon DEF RegistrationAgrees, Armed
  <2>5. timer_active(t)
    BY <2>2, <2>3, <2>4, Zenon DEF timer_active
  <2>6. slot'[fd][e] = None
    BY <1>1, <2>2, <2>5, SMTT(60)
  <2> QED
    BY <1>3, <2>6, Zenon
<1>4. \A fd \in Fds, e \in Event :
        slot'[fd][e] # None => /\ slot'[fd][e] = slot[fd][e]
                               /\ TimerOf(fd, e) \in timers => TimerOf(fd, e) \in timers'
  BY <1>2, <1>3, Zenon
<1>5. next_token' \in Nat /\ next_token <= next_token' /\ timers' \subseteq timers
  OBVIOUS
<1> QED
  BY <1>4, <1>5, TimerShrink, Zenon

\* Emptying a slot without touching the heap.
LEMMA TimerComplete ==
  ASSUME TimerInv, TypeInv', NEW fd \in Fds, timers' = timers,
         next_token' = next_token,
         \/ \E e \in Event : slot' = [slot EXCEPT ![fd][e] = None]
         \/ slot' = [slot EXCEPT ![fd] = [e \in Event |-> None]]
  PROVE  TokensUsed' /\ DeadlinesInHeap' /\ EntriesMatch'
<1>1. slot \in [Fds -> [Event -> WaitSlot \cup {None}]] /\ next_token \in Nat
  BY Zenon DEF TimerInv, RegInv, TypeInv, TypeOK
<1>2. \A g \in Fds, d \in Event : slot'[g][d] # None => slot'[g][d] = slot[g][d]
  BY <1>1, SMTT(30)
<1> QED
  BY <1>1, <1>2, TimerShrink

LEMMA TimerStep == TimerInv /\ TypeInv' /\ [Next]_vars =>
                     TokensUsed' /\ DeadlinesInHeap' /\ EntriesMatch'
<1> SUFFICES ASSUME TimerInv, TypeInv', [Next]_vars
             PROVE  TokensUsed' /\ DeadlinesInHeap' /\ EntriesMatch'
  BY Zenon
<1> USE DEF loopVars, taskVars, waitVars, control, registration, dispatching,
            heapVars
<1>1. TypeOK
  BY Zenon DEF TimerInv, RegInv, TypeInv
<1>2. CASE UNCHANGED vars
  BY <1>2, TimerFrame, Zenon DEF vars
<1>3. CASE UserStep
  <2>1. ASSUME NEW fd \in Fds, Cancel(fd) \/ Close(fd)
        PROVE  TokensUsed' /\ DeadlinesInHeap' /\ EntriesMatch'
    BY <2>1, TimerComplete, TimerFrame, Zenon DEF Cancel, Close, cancel
  <2>2. ASSUME NEW fd \in Fds, NEW e \in Event, WaitThrows(fd, e)
        PROVE  TokensUsed' /\ DeadlinesInHeap' /\ EntriesMatch'
    <3>1. /\ slot' = slot /\ timers' = timers
          /\ next_token' \in Nat /\ next_token <= next_token'
      BY <1>1, <2>2 DEF WaitThrows, TypeOK
    <3> QED
      BY <3>1, TimerShrink, Zenon
  <2>3. CASE Destroy
    <3>1. /\ \A fd \in Fds, e \in Event : slot'[fd][e] = None
          /\ timers' = {} /\ next_token' = next_token
      BY <2>3, Zenon DEF Destroy, NoWaiters
    <3>2. next_token' \in Nat /\ next_token <= next_token'
      BY <1>1, <3>1, SMTT(30) DEF TypeOK
    <3> QED
      BY <3>1, <3>2, TimerShrink, Zenon
  <2>4. CASE \/ Stop \/ RunCall
             \/ \E r \in Roots : Spawn(r) \/ SpawnThrows(r)
             \/ \E fd \in Fds, c \in {"in", "out"} : UseFd(fd, c)
    BY <2>4, TimerFrame, Zenon DEF Stop, RunCall, Spawn, SpawnThrows, UseFd
  <2> QED
    BY <1>3, <2>1, <2>2, <2>3, <2>4, Zenon DEF UserStep
<1>4. CASE TaskStep
  <2>1. CASE Yield \/ AwaitForeign \/ \E how \in {"returned", "threw"} : Finish(how)
    BY <2>1, TimerFrame, Zenon DEF Yield, AwaitForeign, Finish
  <2> QED
    BY <1>4, <2>1, TimerWait, Zenon DEF TaskStep
<1>5. ASSUME NEW t \in Tops, ExpireTimer(t) \/ ExpireThrows(t) \/ PruneTimer(t)
      PROVE  TokensUsed' /\ DeadlinesInHeap' /\ EntriesMatch'
  <2>1. t \in timers
    BY Zenon DEF Tops
  <2>2. /\ timers' = timers \ {t} /\ next_token' = next_token
        /\ \/ ~timer_active(t) /\ slot' = slot
           \/ slot' = [slot EXCEPT ![t.fd][t.event] = None]
    BY <1>5, Zenon DEF ExpireTimer, ExpireThrows, PruneTimer, complete_and_refresh,
                complete_then_mod_throws, complete
  <2> QED
    BY <2>1, <2>2, TimerPop, Zenon
<1>6. CASE LoopHead \/ RunReadyNext \/ RunReadyDone \/ DrainCompleted
           \/ ExpireDone \/ Check \/ PollForever \/ NoWakeSource \/ DispatchDone
           \/ \E t \in Tops : PollUntilTimer(t)
  BY <1>6, TimerFrame, Zenon
  DEF LoopHead, RunReadyNext, RunReadyDone, DrainCompleted, ExpireDone, Check,
      PollForever, NoWakeSource, DispatchDone, PollUntilTimer
<1>7. ASSUME NEW fd \in Fds, DispatchRead(fd) \/ DispatchWrite(fd)
      PROVE  TokensUsed' /\ DeadlinesInHeap' /\ EntriesMatch'
  <2>1. /\ timers' = timers /\ next_token' = next_token
        /\ \/ slot' = slot
           \/ \E e \in Event : slot' = [slot EXCEPT ![fd][e] = None]
    BY <1>7, Zenon DEF DispatchRead, DispatchWrite, on_ready, complete_and_refresh,
                complete, Event
  <2> QED
    BY <2>1, TimerComplete, TimerFrame, Zenon
<1>8. ASSUME NEW fd \in Fds, NEW e \in Event, DispatchThrows(fd, e)
      PROVE  TokensUsed' /\ DeadlinesInHeap' /\ EntriesMatch'
  BY <1>8, TimerComplete, Zenon DEF DispatchThrows, complete_then_mod_throws, complete
<1>9. CASE PollStep
  BY <1>9, TimerFrame, Zenon DEF PollStep, PollEvents, PollNothing, PollThrows
<1>10. CASE WorldStep
  BY <1>10, TimerFrame, Zenon DEF WorldStep, Tick, PeerActs
<1> QED
  BY <1>2, <1>3, <1>4, <1>5, <1>6, <1>7, <1>8, <1>9, <1>10, Zenon
  DEF Next, ExecutorStep

\* The captured time of expire_timers() is never ahead of the clock.
LEMMA NowStep == TypeInv /\ now <= clock /\ [Next]_vars => now' <= clock'
<1> SUFFICES ASSUME TypeInv, now <= clock, [Next]_vars PROVE now' <= clock'
  BY Zenon
<1>1. now \in Nat /\ clock \in Nat
  BY Zenon DEF TypeInv, TypeOK
<1> USE DEF control
<1>2. CASE UNCHANGED vars
  BY <1>1, <1>2, Zenon DEF vars
<1>3. CASE UserStep
  BY <1>1, <1>3, Zenon DEF UserStep, Spawn, SpawnThrows, Cancel, Close, WaitThrows,
                    UseFd, Stop, RunCall, Destroy
<1>4. CASE TaskStep
  BY <1>1, <1>4, Zenon DEF TaskStep, Yield, AwaitForeign, Finish, Wait, Suspended
<1>5. CASE ExecutorStep
  <2>1. CASE LoopHead \/ RunReadyNext \/ RunReadyDone \/ DrainCompleted
             \/ ExpireDone \/ Check \/ PollForever \/ NoWakeSource \/ DispatchDone
    BY <1>1, <2>1, SMTT(120)
    DEF LoopHead, RunReadyNext, RunReadyDone, DrainCompleted, ExpireDone, Check,
        PollForever, NoWakeSource, DispatchDone, LeaveRun, EnterExpire
  <2>2. ASSUME NEW t \in Tops, \/ ExpireTimer(t) \/ ExpireThrows(t)
                               \/ PruneTimer(t) \/ PollUntilTimer(t)
        PROVE  now' <= clock'
    <3>1. clock' = clock /\ (now' = now \/ now' = 0)
      BY <2>2, Zenon DEF ExpireTimer, ExpireThrows, PruneTimer, PollUntilTimer, LeaveRun
    <3> QED
      BY <1>1, <3>1, SMTT(30)
  <2>3. ASSUME NEW fd \in Fds, \/ DispatchRead(fd) \/ DispatchWrite(fd)
                               \/ \E e \in Event : DispatchThrows(fd, e)
        PROVE  now' <= clock'
    <3>1. clock' = clock /\ (now' = now \/ now' = 0)
      BY <2>3, Zenon DEF DispatchRead, DispatchWrite, DispatchThrows, LeaveRun
    <3> QED
      BY <1>1, <3>1
  <2> QED
    BY <1>5, <2>1, <2>2, <2>3, Zenon DEF ExecutorStep
<1>6. CASE PollStep
  <2>1. CASE \/ \E batch \in SUBSET Deliverable : PollEvents(batch)
             \/ \E interrupted \in BOOLEAN : PollNothing(interrupted)
    BY <1>1, <2>1, SMTT(30) DEF PollEvents, PollNothing, EnterExpire
  <2>2. CASE PollThrows
    BY <1>1, <2>2, SMTT(30) DEF PollThrows, LeaveRun
  <2> QED
    BY <1>6, <2>1, <2>2, Zenon DEF PollStep
<1>7. CASE WorldStep
  BY <1>1, <1>7, SMTT(30) DEF WorldStep, Tick, PeerActs
<1> QED
  BY <1>2, <1>3, <1>4, <1>5, <1>6, <1>7, Zenon DEF Next

LEMMA TimerInvariant == Spec => []TimerInv
<1>1. Init => TimerInv
  <2> SUFFICES ASSUME Init PROVE TimerInv
    BY Zenon
  <2>1. TypeInv /\ RegistrationAgrees
    BY TypeInit, RegInit, Zenon
  <2>2. \A fd \in Fds, e \in Event : slot[fd][e] = None
    BY Zenon DEF Init, NoWaiters
  <2>3. timers = {} /\ now = 0 /\ clock = 0
    BY Zenon DEF Init
  <2> QED
    BY <2>1, <2>2, <2>3
    DEF TimerInv, RegInv, TokensUsed, DeadlinesInHeap, EntriesMatch
<1>2. TimerInv /\ [Next]_vars => TimerInv'
  BY TypeStep, RegStep, TimerStep, NowStep, Zenon DEF TimerInv, RegInv
<1> QED
  BY <1>1, <1>2, PTL DEF Spec

----------------------------------------------------------------------------
(* What the heap is for.                                                   *)

\* The top of the heap, when it is active, is the earliest parked deadline.
LEMMA TopIsEarliest ==
  ASSUME TimerInv, NEW t \in Tops, NEW fd \in Fds, NEW e \in Event,
         slot[fd][e] # None, slot[fd][e].due >= 0
  PROVE  t.deadline <= slot[fd][e].due
  BY Zenon DEF TimerInv, DeadlinesInHeap, TimerOf, Tops

LEMMA SleepStep ==
  ASSUME TimerInv, SleepBounded, [Next]_vars
  PROVE  SleepBounded'
<1>1. TypeOK
  BY Zenon DEF TimerInv, RegInv, TypeInv
<1>2. TicksPerMs \in Nat \ {0}
  BY IoContextAssumption, Zenon
<1>3. \A fd \in Fds, e \in Event : slot[fd][e] # None => slot[fd][e].due \in Int
  BY <1>1, SMTT(60) DEF TypeOK, WaitSlot
<1> USE DEF control, waitVars
<1>4. CASE pc' # "poll"
  BY <1>4, Zenon DEF SleepBounded
<1>5. CASE pc = "poll" /\ pc' = "poll"
  <2>1. UNCHANGED <<slot, until>> /\ (clock' = clock \/ clock' = clock + 1)
    <3> USE <1>5
    <3>1. CASE UNCHANGED vars
      BY <3>1, Zenon DEF vars
    <3>2. CASE UserStep
      BY <3>2, Zenon DEF UserStep, UserCode, Spawn, SpawnThrows, Cancel, Close,
                  WaitThrows, UseFd, Stop, RunCall, Destroy
    <3>3. CASE TaskStep
      BY <3>3, Zenon DEF TaskStep, Yield, AwaitForeign, Finish, Wait
    <3>4. CASE ExecutorStep
      BY <3>4, Zenon
      DEF ExecutorStep, LoopHead, RunReadyNext, RunReadyDone, DrainCompleted,
          ExpireTimer, ExpireThrows, ExpireDone, Check, PruneTimer,
          PollUntilTimer, PollForever, NoWakeSource, DispatchRead,
          DispatchWrite, DispatchThrows, DispatchDone
    <3>5. CASE PollStep
      BY <3>5, Zenon DEF PollStep, PollEvents, PollNothing, PollThrows, LeaveRun,
                  EnterExpire
    <3>6. CASE WorldStep
      BY <3>6, Zenon DEF WorldStep, Tick, PeerActs
    <3> QED
      BY <3>1, <3>2, <3>3, <3>4, <3>5, <3>6, Zenon DEF Next
  <2>2. clock \in Nat /\ until \in Int
    BY <1>1 DEF TypeOK
  <2> QED
    BY <1>2, <1>3, <1>5, <2>1, <2>2 DEF SleepBounded
<1>6. CASE pc # "poll" /\ pc' = "poll"
  <2>1. \/ Check \/ PollForever \/ \E t \in Tops : PollUntilTimer(t)
    <3> USE <1>6
    <3>1. CASE UNCHANGED vars
      BY <3>1, Zenon DEF vars
    <3>2. CASE UserStep
      BY <3>2, Zenon DEF UserStep, UserCode, Spawn, SpawnThrows, Cancel, Close,
                  WaitThrows, UseFd, Stop, RunCall, Destroy
    <3>3. CASE TaskStep
      BY <3>3, Zenon DEF TaskStep, Yield, AwaitForeign, Finish, Wait, Suspended
    <3>4. CASE ExecutorStep
      BY <3>4, Zenon
      DEF ExecutorStep, LoopHead, RunReadyNext, RunReadyDone, DrainCompleted,
          ExpireTimer, ExpireThrows, ExpireDone, PruneTimer, NoWakeSource,
          DispatchRead, DispatchWrite, DispatchThrows, DispatchDone, LeaveRun,
          EnterExpire
    <3>5. CASE PollStep
      BY <3>5, Zenon DEF PollStep, PollEvents, PollNothing, PollThrows
    <3>6. CASE WorldStep
      BY <3>6, Zenon DEF WorldStep, Tick, PeerActs
    <3> QED
      BY <3>1, <3>2, <3>3, <3>4, <3>5, <3>6, Zenon DEF Next
  <2>2. clock \in Nat
    BY <1>1, Zenon DEF TypeOK
  <2>3. CASE Check
    <3>1. slot' = slot /\ clock' = clock /\ until' = clock
      BY <1>6, <2>3, Zenon DEF Check, LeaveRun
    <3> QED
      BY <1>1, <2>2, <3>1, SMTT(30) DEF SleepBounded
  <2>4. CASE PollForever
    <3>1. slot' = slot /\ timers = {}
      BY <2>4, Zenon DEF PollForever
    <3>2. \A fd \in Fds, e \in Event : ~(slot[fd][e] # None /\ slot[fd][e].due >= 0)
      BY <3>1, Zenon DEF TimerInv, DeadlinesInHeap
    <3> QED
      BY <3>1, <3>2, Zenon DEF SleepBounded
  <2>5. ASSUME NEW t \in Tops, PollUntilTimer(t) PROVE SleepBounded'
    <3> DEFINE m == next_poll_timeout(t) * TicksPerMs
    <3>1. slot' = slot /\ clock' = clock /\ until' = clock + m
      BY <2>5, Zenon DEF PollUntilTimer
    <3>2. t.deadline \in Nat
      BY <1>1, Zenon DEF Tops, TimerEntry, TypeOK
    <3>3. m \in Nat /\ (m = 0 \/ clock + m < t.deadline + TicksPerMs)
      BY <1>2, <2>2, <3>2, PollTimeout, SMTT(30)
    <3>4. \A fd \in Fds, e \in Event :
            slot[fd][e] # None /\ slot[fd][e].due >= 0 => t.deadline <= slot[fd][e].due
      BY TopIsEarliest, Zenon
    <3> HIDE DEF m
    <3> QED
      BY <1>2, <1>3, <2>2, <3>1, <3>2, <3>3, <3>4, SMTT(30) DEF SleepBounded
  <2> QED
    BY <2>1, <2>3, <2>4, <2>5, Zenon
<1> QED
  BY <1>4, <1>5, <1>6, Zenon

\* epoll_wait is never left to sleep past a parked deadline by a millisecond
\* or more, whatever stale entries the heap holds.
THEOREM SleepsInTime == Spec => []SleepBounded
<1>1. Init => SleepBounded
  BY Zenon DEF Init, SleepBounded
<1>2. TimerInv /\ SleepBounded /\ [Next]_vars => SleepBounded'
  BY SleepStep, Zenon
<1> QED
  BY <1>1, <1>2, TimerInvariant, PTL DEF Spec

\* With nothing queued, run() polls with a timeout only for a parked deadline,
\* and up to it (or for INT_MAX milliseconds): it does not spin on entries of
\* waits that are over.
THEOREM NeverSpins == Spec => NoEarlyTimeout
<1>1. ASSUME TimerInv, [Next]_vars,
             pc = "timeout", pc' = "poll", until' >= 0
      PROVE  \E fd \in Fds, e \in Event :
               /\ slot[fd][e] # None
               /\ 0 <= slot[fd][e].due
               /\ slot[fd][e].due <= until' \/ until' = clock + IntMax * TicksPerMs
  <2> USE <1>1 DEF control
  <2>1. PollForever \/ \E t \in Tops : PollUntilTimer(t)
    <3>1. CASE UNCHANGED vars
      BY <3>1, Zenon DEF vars
    <3>2. CASE UserStep
      BY <3>2, Zenon DEF UserStep, UserCode, Spawn, SpawnThrows, Cancel, Close,
                  WaitThrows, UseFd, Stop, RunCall, Destroy
    <3>3. CASE TaskStep
      BY <3>3, Zenon DEF TaskStep, Yield, AwaitForeign, Finish, Wait
    <3>4. CASE ExecutorStep
      BY <3>4, Zenon
      DEF ExecutorStep, LoopHead, RunReadyNext, RunReadyDone, DrainCompleted,
          ExpireTimer, ExpireThrows, ExpireDone, Check, PruneTimer,
          NoWakeSource, DispatchRead, DispatchWrite, DispatchThrows,
          DispatchDone, LeaveRun
    <3>5. CASE PollStep
      BY <3>5, Zenon DEF PollStep, PollEvents, PollNothing, PollThrows
    <3>6. CASE WorldStep
      BY <3>6, Zenon DEF WorldStep, Tick, PeerActs
    <3> QED
      BY <3>1, <3>2, <3>3, <3>4, <3>5, <3>6, Zenon DEF Next
  <2>2. ~PollForever
    BY DEF PollForever
  <2>3. PICK t \in Tops : PollUntilTimer(t)
    BY <2>1, <2>2, Zenon
  <2> DEFINE m == next_poll_timeout(t) * TicksPerMs
  <2>4. until' = clock + m /\ timer_active(t)
    BY <2>3, Zenon DEF PollUntilTimer
  <2>5. /\ t \in timers /\ t.deadline \in Nat /\ t.fd \in Fds /\ t.event \in Event
        /\ clock \in Nat
    BY Zenon DEF Tops, TimerEntry, TimerInv, RegInv, TypeInv, TypeOK
  <2>6. slot[t.fd][t.event] # None /\ slot[t.fd][t.event].due = t.deadline
    BY <2>4, <2>5, Zenon DEF timer_active, TimerInv, EntriesMatch
  <2>7. next_poll_timeout(t) = IntMax \/ t.deadline <= clock + m
    BY <2>5, PollTimeout, Zenon
  <2> QED
    BY <2>4, <2>5, <2>6, <2>7
<1>2. TimerInv /\ [Next]_vars =>
        [pc = "timeout" /\ pc' = "poll" /\ until' >= 0 =>
           \E fd \in Fds, e \in Event :
             /\ slot[fd][e] # None
             /\ 0 <= slot[fd][e].due
             /\ slot[fd][e].due <= until' \/ until' = clock + IntMax * TicksPerMs]_vars
  BY <1>1, Zenon
<1> QED
  BY <1>2, TimerInvariant, PTL DEF Spec, NoEarlyTimeout

----------------------------------------------------------------------------
(* Queues as sequences without repetition.                                 *)

Has(q, x) == \E i \in DOMAIN q : q[i] = x

NoRepeat(q) == \A i, j \in DOMAIN q : q[i] = q[j] => i = j

\* push_back of an element that is not in the queue.
LEMMA PushBack ==
  ASSUME NEW S, NEW q \in Seq(S), NEW r \in S
  PROVE  /\ Append(q, r) \in Seq(S)
         /\ Len(Append(q, r)) = Len(q) + 1
         /\ \A x : Has(Append(q, r), x) <=> Has(q, x) \/ x = r
         /\ NoRepeat(q) /\ ~Has(q, r) => NoRepeat(Append(q, r))
<1> DEFINE p == Append(q, r)
<1>1. /\ p \in Seq(S) /\ Len(p) = Len(q) + 1
      /\ \A i \in 1..Len(q) : p[i] = q[i]
      /\ p[Len(q) + 1] = r
  BY AppendFacts
<1>2. DOMAIN q = 1..Len(q) /\ DOMAIN p = 1..(Len(q) + 1) /\ Len(q) \in Nat
  BY <1>1, SeqDomain, Zenon
<1> HIDE DEF p
<1>3. \A x : Has(p, x) <=> Has(q, x) \/ x = r
  <2>1. ASSUME NEW x, Has(p, x) PROVE Has(q, x) \/ x = r
    BY <1>1, <1>2, <2>1 DEF Has
  <2>2. ASSUME NEW x, Has(q, x) PROVE Has(p, x)
    <3>1. PICK i \in DOMAIN q : q[i] = x
      BY <2>2, Zenon DEF Has
    <3> QED
      BY <1>1, <1>2, <3>1 DEF Has
  <2>3. Has(p, r)
    BY <1>1, <1>2 DEF Has
  <2> QED
    BY <2>1, <2>2, <2>3, Zenon
<1>4. NoRepeat(q) /\ ~Has(q, r) => NoRepeat(p)
  BY <1>1, <1>2 DEF Has, NoRepeat
<1> QED
  BY <1>1, <1>3, <1>4, Zenon DEF p

\* pop_front.
LEMMA PopFront ==
  ASSUME NEW S, NEW q \in Seq(S), q # <<>>
  PROVE  /\ Head(q) \in S
         /\ Has(q, Head(q))
         /\ Tail(q) \in Seq(S)
         /\ Len(Tail(q)) = Len(q) - 1
         /\ NoRepeat(q) => NoRepeat(Tail(q))
         /\ NoRepeat(q) => \A x : Has(Tail(q), x) <=> Has(q, x) /\ x # Head(q)
<1> DEFINE p == Tail(q)
<1>1. /\ p \in Seq(S) /\ Len(p) = Len(q) - 1 /\ Len(q) \in Nat /\ Len(q) >= 1
      /\ \A i \in 1..Len(p) : p[i] = q[i + 1]
      /\ Head(q) \in S /\ Head(q) = q[1]
  BY TailFacts, SeqDomain, EmptySeq
<1>2. DOMAIN q = 1..Len(q) /\ DOMAIN p = 1..(Len(q) - 1)
  BY <1>1, SeqDomain, Zenon
<1> HIDE DEF p
<1>3. Has(q, Head(q))
  BY <1>1, <1>2 DEF Has
<1>4. NoRepeat(q) => NoRepeat(p)
  <2> SUFFICES ASSUME NoRepeat(q), NEW i \in DOMAIN p, NEW j \in DOMAIN p, p[i] = p[j]
               PROVE  i = j
    BY Zenon DEF NoRepeat
  <2>1. i + 1 \in DOMAIN q /\ j + 1 \in DOMAIN q /\ q[i + 1] = q[j + 1]
    BY <1>1, <1>2
  <2>2. i + 1 = j + 1
    BY <2>1, Zenon DEF NoRepeat
  <2> QED
    BY <1>2, <2>2
<1>5. ASSUME NoRepeat(q), NEW x PROVE Has(p, x) <=> Has(q, x) /\ x # Head(q)
  <2>1. ASSUME Has(p, x) PROVE Has(q, x) /\ x # Head(q)
    <3>1. PICK i \in DOMAIN p : p[i] = x
      BY <2>1, Zenon DEF Has
    <3>2. i + 1 \in DOMAIN q /\ q[i + 1] = x /\ i + 1 # 1 /\ 1 \in DOMAIN q
      BY <1>1, <1>2, <3>1
    <3> QED
      BY <1>1, <1>5, <3>2, Zenon DEF Has, NoRepeat
  <2>2. ASSUME Has(q, x), x # Head(q) PROVE Has(p, x)
    <3>1. PICK i \in DOMAIN q : q[i] = x
      BY <2>2, Zenon DEF Has
    <3>2. i # 1
      BY <1>1, <2>2, <3>1, Zenon
    <3>3. i - 1 \in DOMAIN p /\ p[i - 1] = x
      BY <1>1, <1>2, <3>1, <3>2
    <3> QED
      BY <3>3, Zenon DEF Has
  <2> QED
    BY <2>1, <2>2, Zenon
<1> QED
  BY <1>1, <1>3, <1>4, <1>5, Zenon DEF p

----------------------------------------------------------------------------
(* The task invariant.                                                     *)

\* OneWakeSource, taken apart.
SlotsDistinct ==
  \A fd1, fd2 \in Fds, e1, e2 \in Event :
    /\ slot[fd1][e1] # None
    /\ slot[fd2][e2] # None
    /\ slot[fd1][e1].cont = slot[fd2][e2].cont
    => fd1 = fd2 /\ e1 = e2

OnePlace(r) ==
  /\ frame[r] = "live" <=>
       Has(ready, r) \/ IsParked(r) \/ r = current \/ r \in foreign
  /\ Has(ready, r) => ~IsParked(r) /\ r # current /\ r \notin foreign
  /\ IsParked(r) => r # current /\ r \notin foreign
  /\ r = current => r \notin foreign

TaskInv ==
  /\ TimerInv
  /\ NoRepeat(ready)
  /\ SlotsDistinct
  /\ \A r \in Roots : OnePlace(r)
  /\ FramesOwned
  /\ BatchWithinQueue
  /\ pc \in {"idle", "destroyed"} => left = 0

LEMMA TaskInvGives == TaskInv => OneWakeSource /\ FramesOwned /\ BatchWithinQueue
  BY Zenon DEF TaskInv, TimerInv, RegInv, TypeInv, CurrentKnown, OneWakeSource,
         NoRepeat, SlotsDistinct, OnePlace, Has, IsQueued

\* The parts of TaskInv that the type and timer invariants do not give.
TaskNew ==
  /\ NoRepeat(ready)
  /\ SlotsDistinct
  /\ \A r \in Roots : OnePlace(r)
  /\ FramesOwned
  /\ BatchWithinQueue
  /\ pc \in {"idle", "destroyed"} => left = 0

placeVars == <<ready, slot, frame, current, foreign, roots>>

\* Steps that move no task.
LEMMA TaskFrame ==
  ASSUME TaskInv, UNCHANGED placeVars
  PROVE  /\ NoRepeat(ready') /\ SlotsDistinct'
         /\ \A r \in Roots : OnePlace(r)'
         /\ roots' = {r \in Roots : frame'[r] \in {"live", "returned", "threw"}}
         /\ Completed' = Completed
<1>1. /\ ready' = ready /\ slot' = slot /\ frame' = frame /\ current' = current
      /\ foreign' = foreign /\ roots' = roots
  BY Zenon DEF placeVars
<1>2. NoRepeat(ready') /\ SlotsDistinct'
  <2>1. NoRepeat(ready')
    BY <1>1, Zenon DEF TaskInv
  <2>2. SlotsDistinct'
    <3>1. SlotsDistinct
      BY Zenon DEF TaskInv
    <3> QED
      BY <1>1, <3>1 DEF SlotsDistinct
  <2> QED
    BY <2>1, <2>2, Zenon
<1>3. ASSUME NEW r \in Roots
      PROVE  OnePlace(r)'
  <2>1. OnePlace(r) /\ (IsParked(r)' <=> IsParked(r))
    BY <1>1, Zenon DEF TaskInv, IsParked
  <2> QED
    BY <1>1, <2>1, Zenon DEF OnePlace
<1>4. roots' = {r \in Roots : frame'[r] \in {"live", "returned", "threw"}}
  BY <1>1, Zenon DEF TaskInv, FramesOwned
<1>5. Completed' = Completed
  BY <1>1, Zenon DEF Completed
<1> QED
  BY <1>2, <1>3, <1>4, <1>5, Zenon

\* A parked coroutine is live, so complete() queues it.
LEMMA ParkedIsLive ==
  ASSUME TaskInv, NEW fd \in Fds, NEW e \in Event, slot[fd][e] # None
  PROVE  /\ slot[fd][e].cont \in Roots
         /\ frame[slot[fd][e].cont] = "live"
         /\ IsParked(slot[fd][e].cont)
         /\ ~Has(ready, slot[fd][e].cont)
<1>1. slot[fd][e].cont \in Roots
  BY DEF TaskInv, TimerInv, RegInv, TypeInv, TypeOK, WaitSlot
<1>2. IsParked(slot[fd][e].cont)
  BY Zenon DEF IsParked
<1> QED
  BY <1>1, <1>2, Zenon DEF TaskInv, OnePlace

LEMMA SlotCleared ==
  ASSUME SlotsDistinct, NEW fd \in Fds, NEW e \in Event, slot'[fd][e] = None,
         \A g \in Fds, d \in Event : ~(g = fd /\ d = e) => slot'[g][d] = slot[g][d]
  PROVE  SlotsDistinct'
<1>1. \A g \in Fds, d \in Event : slot'[g][d] # None => slot'[g][d] = slot[g][d]
  BY Zenon
<1>2. ASSUME NEW fd1 \in Fds, NEW fd2 \in Fds, NEW e1 \in Event, NEW e2 \in Event,
             slot'[fd1][e1] # None, slot'[fd2][e2] # None,
             slot'[fd1][e1].cont = slot'[fd2][e2].cont
      PROVE  fd1 = fd2 /\ e1 = e2
  <2>1. slot'[fd1][e1] = slot[fd1][e1] /\ slot'[fd2][e2] = slot[fd2][e2]
    BY <1>1, <1>2, Zenon
  <2>2. /\ slot[fd1][e1] # None /\ slot[fd2][e2] # None
        /\ slot[fd1][e1].cont = slot[fd2][e2].cont
    BY <1>2, <2>1, Zenon
  <2> QED
    BY <2>2, Zenon DEF SlotsDistinct
<1> QED
  BY <1>2, SMTT(30) DEF SlotsDistinct

\* complete() moves its waiter from the slot to the back of the queue.
LEMMA CompleteMoves ==
  ASSUME TaskInv, NEW fd \in Fds, NEW e \in Event, NEW outcome,
         complete(fd, e, outcome), slot[fd][e] # None
  PROVE  LET w == slot[fd][e].cont IN
         /\ ready' = Append(ready, w)
         /\ \A x \in Roots : Has(ready', x) <=> Has(ready, x) \/ x = w
         /\ \A x \in Roots : IsParked(x)' <=> IsParked(x) /\ x # w
         /\ SlotsDistinct'
<1> DEFINE w == slot[fd][e].cont
<1>1. slot \in [Fds -> [Event -> WaitSlot \cup {None}]] /\ ready \in Seq(Roots)
  BY Zenon DEF TaskInv, TimerInv, RegInv, TypeInv, TypeOK
<1>2. w \in Roots /\ frame[w] = "live"
  BY ParkedIsLive, Zenon
<1>3. ready' = Append(ready, w)
  BY <1>2, Zenon DEF complete, queue_after, schedule
<1>4. slot' = [slot EXCEPT ![fd][e] = None]
  BY Zenon DEF complete
<1>5. /\ slot'[fd][e] = None
      /\ \A g \in Fds, d \in Event : ~(g = fd /\ d = e) => slot'[g][d] = slot[g][d]
  BY <1>1, <1>4, Zenon
<1>6. \A x \in Roots : IsParked(x)' <=> IsParked(x) /\ x # w
  <2>1. ASSUME NEW x \in Roots, IsParked(x)' PROVE IsParked(x) /\ x # w
    <3>1. PICK g \in Fds, d \in Event : slot'[g][d] # None /\ slot'[g][d].cont = x
      BY <2>1, Zenon DEF IsParked
    <3>2. slot[g][d] # None /\ slot[g][d].cont = x /\ ~(g = fd /\ d = e)
      BY <1>5, <3>1, Zenon
    <3> QED
      BY <3>2 DEF IsParked, TaskInv, SlotsDistinct
  <2>2. ASSUME NEW x \in Roots, IsParked(x), x # w PROVE IsParked(x)'
    <3>1. PICK g \in Fds, d \in Event : slot[g][d] # None /\ slot[g][d].cont = x
      BY <2>2, Zenon DEF IsParked
    <3> QED
      BY <1>5, <2>2, <3>1 DEF IsParked
  <2> QED
    BY <2>1, <2>2, Zenon
<1>7. SlotsDistinct'
  BY <1>5, SlotCleared, Zenon DEF TaskInv
<1> QED
  BY <1>1, <1>2, <1>3, <1>6, <1>7, PushBack, SMTT(30)

\* Completing an empty slot changes nothing.
LEMMA CompleteNothing ==
  ASSUME TypeOK, NEW fd \in Fds, NEW e \in Event, NEW outcome,
         complete(fd, e, outcome), slot[fd][e] = None
  PROVE  slot' = slot /\ ready' = ready /\ result' = result
<1>1. slot' = [slot EXCEPT ![fd][e] = None]
  BY Zenon DEF complete
<1>2. slot' = slot
  BY <1>1, Zenon DEF TypeOK
<1> QED
  BY <1>2, Zenon DEF complete, queue_after, result_after

\* complete() keeps the task invariant, in any step that moves no other task.
LEMMA TaskComplete ==
  ASSUME TaskInv, NEW fd \in Fds, NEW e \in Event, NEW outcome,
         complete(fd, e, outcome), UNCHANGED <<frame, current, foreign, roots>>
  PROVE  /\ NoRepeat(ready') /\ SlotsDistinct'
         /\ \A r \in Roots : OnePlace(r)'
         /\ roots' = {r \in Roots : frame'[r] \in {"live", "returned", "threw"}}
         /\ Completed' = Completed
         /\ Len(ready) <= Len(ready')
<1>0. TypeOK /\ ready \in Seq(Roots)
  BY Zenon DEF TaskInv, TimerInv, RegInv, TypeInv, TypeOK
<1>1. CASE slot[fd][e] = None
  <2>1. UNCHANGED placeVars
    BY <1>0, <1>1, CompleteNothing, Zenon DEF placeVars
  <2> QED
    BY <1>0, <2>1, TaskFrame, SeqDomain DEF placeVars
<1>2. CASE slot[fd][e] # None
  <2> DEFINE w == slot[fd][e].cont
  <2>1. w \in Roots /\ frame[w] = "live" /\ IsParked(w) /\ ~Has(ready, w)
    BY <1>2, ParkedIsLive, Zenon
  <2>2. /\ ready' = Append(ready, w)
        /\ \A x \in Roots : Has(ready', x) <=> Has(ready, x) \/ x = w
        /\ \A x \in Roots : IsParked(x)' <=> IsParked(x) /\ x # w
        /\ SlotsDistinct'
    BY <1>2, CompleteMoves, Zenon
  <2> HIDE DEF w
  <2>3. \A r \in Roots : OnePlace(r)'
    BY <2>1, <2>2, Zenon DEF TaskInv, OnePlace
  <2>4. NoRepeat(ready') /\ Len(ready) <= Len(ready')
    BY <1>0, <2>1, <2>2, PushBack, SeqDomain, SMTT(30) DEF TaskInv
  <2> QED
    BY <2>2, <2>3, <2>4, Zenon DEF TaskInv, FramesOwned, Completed
<1> QED
  BY <1>1, <1>2, Zenon

\* Queueing a waiter that is not queued yet, for cancel(), which does it twice.
LEMMA QueueAfter ==
  ASSUME NEW q \in Seq(Roots), NoRepeat(q), NEW w,
         w # None => w.cont \in Roots /\ frame[w.cont] = "live" /\ ~Has(q, w.cont)
  PROVE  /\ queue_after(q, w) \in Seq(Roots)
         /\ NoRepeat(queue_after(q, w))
         /\ Len(q) <= Len(queue_after(q, w))
         /\ \A x : Has(queue_after(q, w), x) <=> Has(q, x) \/ (w # None /\ x = w.cont)
<1>1. CASE w = None
  BY <1>1, SeqDomain DEF queue_after
<1>2. CASE w # None
  <2>1. queue_after(q, w) = Append(q, w.cont)
    BY <1>2, Zenon DEF queue_after, schedule
  <2> QED
    BY <1>2, <2>1, PushBack, SeqDomain
<1> QED
  BY <1>1, <1>2, Zenon

LEMMA TaskCancel ==
  ASSUME TaskInv, NEW fd \in Fds, cancel(fd),
         UNCHANGED <<frame, current, foreign, roots>>
  PROVE  /\ NoRepeat(ready') /\ SlotsDistinct'
         /\ \A r \in Roots : OnePlace(r)'
         /\ roots' = {r \in Roots : frame'[r] \in {"live", "returned", "threw"}}
         /\ Completed' = Completed
         /\ Len(ready) <= Len(ready')
<1>0. /\ slot \in [Fds -> [Event -> WaitSlot \cup {None}]]
      /\ ready \in Seq(Roots)
  BY Zenon DEF TaskInv, TimerInv, RegInv, TypeInv, TypeOK
<1>1. CASE fd \notin states
  <2>1. UNCHANGED placeVars
    BY <1>1, Zenon DEF cancel, placeVars
  <2> QED
    BY <1>0, <2>1, TaskFrame, SeqDomain DEF placeVars
<1>2. CASE fd \in states
  <2> DEFINE rd == slot[fd]["READ"]
             wr == slot[fd]["WRITE"]
             q1 == queue_after(ready, rd)
  <2>1. /\ slot' = [slot EXCEPT ![fd] = [e \in Event |-> None]]
        /\ ready' = queue_after(q1, wr)
    BY <1>2, Zenon DEF cancel
  <2>2. /\ \A e \in Event : slot'[fd][e] = None
        /\ \A g \in Fds, d \in Event : g # fd => slot'[g][d] = slot[g][d]
    BY <1>0, <2>1, Zenon
  <2>3. /\ rd # None => /\ rd.cont \in Roots /\ frame[rd.cont] = "live"
                        /\ ~Has(ready, rd.cont) /\ IsParked(rd.cont)
        /\ wr # None => /\ wr.cont \in Roots /\ frame[wr.cont] = "live"
                        /\ ~Has(ready, wr.cont) /\ IsParked(wr.cont)
    BY ParkedIsLive, Zenon DEF Event
  <2>4. rd # None /\ wr # None => rd.cont # wr.cont
    BY Zenon DEF TaskInv, SlotsDistinct, Event
  <2>5. \A x \in Roots : IsParked(x)' <=> /\ IsParked(x)
                                          /\ ~(rd # None /\ x = rd.cont)
                                          /\ ~(wr # None /\ x = wr.cont)
    <3>1. ASSUME NEW x \in Roots, IsParked(x)'
          PROVE  /\ IsParked(x)
                 /\ ~(rd # None /\ x = rd.cont)
                 /\ ~(wr # None /\ x = wr.cont)
      <4>1. PICK g \in Fds, d \in Event : slot'[g][d] # None /\ slot'[g][d].cont = x
        BY <3>1, Zenon DEF IsParked
      <4>2. g # fd /\ slot[g][d] # None /\ slot[g][d].cont = x
        BY <2>2, <4>1, SMTT(30)
      <4> QED
        BY <4>2 DEF IsParked, TaskInv, SlotsDistinct, Event
    <3>2. ASSUME NEW x \in Roots, IsParked(x),
                 ~(rd # None /\ x = rd.cont), ~(wr # None /\ x = wr.cont)
          PROVE  IsParked(x)'
      <4>1. PICK g \in Fds, d \in Event : slot[g][d] # None /\ slot[g][d].cont = x
        BY <3>2, Zenon DEF IsParked
      <4>2. g # fd
        BY <3>2, <4>1, Zenon DEF Event
      <4> QED
        BY <2>2, <4>1, <4>2, Zenon DEF IsParked
    <3> QED
      BY <3>1, <3>2, Zenon
  <2>6. SlotsDistinct'
    BY <2>2, SMTT(90) DEF TaskInv, SlotsDistinct
  <2> HIDE DEF rd, wr
  <2>7. /\ q1 \in Seq(Roots) /\ NoRepeat(q1) /\ Len(ready) <= Len(q1)
        /\ \A x : Has(q1, x) <=> Has(ready, x) \/ (rd # None /\ x = rd.cont)
    BY <1>0, <2>3, QueueAfter, Zenon DEF TaskInv
  <2> HIDE DEF q1
  <2>8. /\ NoRepeat(ready') /\ Len(q1) <= Len(ready')
        /\ \A x : Has(ready', x) <=> Has(q1, x) \/ (wr # None /\ x = wr.cont)
        /\ ready' \in Seq(Roots)
    BY <2>1, <2>3, <2>4, <2>7, QueueAfter, Zenon
  <2>9. Len(ready) <= Len(ready')
    BY <1>0, <2>7, <2>8, SeqDomain, SMTT(30)
  <2>10. \A r \in Roots : OnePlace(r)'
    BY <2>3, <2>5, <2>7, <2>8, Zenon DEF TaskInv, OnePlace
  <2> QED
    BY <2>6, <2>8, <2>9, <2>10, Zenon DEF TaskInv, FramesOwned, Completed
<1> QED
  BY <1>1, <1>2, Zenon

LEMMA TaskSpawn ==
  ASSUME TaskInv, NEW r \in Roots, Spawn(r) \/ SpawnThrows(r)
  PROVE  TaskNew'
<1>0. /\ ready \in Seq(Roots) /\ roots \in SUBSET Roots /\ left \in Nat
      /\ frame \in [Roots -> {"unborn", "live", "returned", "threw", "destroyed"}]
      /\ slot' = slot /\ current' = current /\ foreign' = foreign /\ pc' = pc
      /\ left' = left
      /\ \A x \in Roots : IsParked(x)' <=> IsParked(x)
      /\ SlotsDistinct'
  <2>1. /\ ready \in Seq(Roots) /\ roots \in SUBSET Roots /\ left \in Nat
        /\ frame \in [Roots -> {"unborn", "live", "returned", "threw", "destroyed"}]
    BY Zenon DEF TaskInv, TimerInv, RegInv, TypeInv, TypeOK
  <2>2. /\ slot' = slot /\ current' = current /\ foreign' = foreign /\ pc' = pc
        /\ left' = left
    BY Zenon DEF Spawn, SpawnThrows, waitVars, control
  <2>3. \A x \in Roots : IsParked(x)' <=> IsParked(x)
    BY <2>2, Zenon DEF IsParked
  <2>4. SlotsDistinct'
    BY <2>2 DEF TaskInv, SlotsDistinct
  <2> QED
    BY <2>1, <2>2, <2>3, <2>4, Zenon
<1>1. frame[r] = "unborn" /\ ~Has(ready, r) /\ ~IsParked(r) /\ r # current
      /\ r \notin foreign /\ r \notin roots
  BY Zenon DEF Spawn, SpawnThrows, TaskInv, OnePlace, FramesOwned
<1>2. pc # "destroyed" /\ pc # "drain"
  BY Zenon DEF Spawn, SpawnThrows, UserCode
<1>3. CASE Spawn(r)
  <2>1. ready' = Append(ready, r) /\ frame' = [frame EXCEPT ![r] = "live"]
        /\ roots' = roots \cup {r}
    BY <1>3, Zenon DEF Spawn
  <2>2. /\ NoRepeat(ready') /\ Len(ready') = Len(ready) + 1
        /\ \A x \in Roots : Has(ready', x) <=> Has(ready, x) \/ x = r
    BY <1>0, <1>1, <2>1, PushBack, Zenon DEF TaskInv
  <2>3. \A x \in Roots : OnePlace(x)'
    BY <1>0, <1>1, <2>1, <2>2, Zenon DEF TaskInv, OnePlace
  <2>4. FramesOwned'
    BY <1>0, <1>1, <1>2, <2>1, SMTT(30) DEF TaskInv, FramesOwned, Completed
  <2>5. BatchWithinQueue'
    BY <1>0, <2>2, SeqDomain, SMTT(30) DEF TaskInv, BatchWithinQueue
  <2> QED
    BY <1>0, <2>2, <2>3, <2>4, <2>5, Zenon DEF TaskNew, TaskInv
<1>4. CASE SpawnThrows(r)
  <2>1. ready' = ready /\ frame' = [frame EXCEPT ![r] = "destroyed"] /\ roots' = roots
    BY <1>4, Zenon DEF SpawnThrows
  <2>2. \A x \in Roots : OnePlace(x)'
    BY <1>0, <1>1, <2>1, Zenon DEF TaskInv, OnePlace
  <2>3. FramesOwned'
    BY <1>0, <1>1, <1>2, <2>1, Zenon DEF TaskInv, FramesOwned, Completed
  <2> QED
    BY <1>0, <2>1, <2>2, <2>3, Zenon DEF TaskNew, TaskInv, BatchWithinQueue
<1> QED
  BY <1>3, <1>4, Zenon

\* How the running task leaves: the running place empties and one other fills,
\* or the frame is finished.
LEMMA TaskSuspends ==
  ASSUME TaskInv, TaskStep
  PROVE  TaskNew'
<1>0. /\ ready \in Seq(Roots) /\ roots \in SUBSET Roots /\ left \in Nat
      /\ frame \in [Roots -> {"unborn", "live", "returned", "threw", "destroyed"}]
      /\ slot \in [Fds -> [Event -> WaitSlot \cup {None}]]
      /\ None \notin Roots
  BY IoContextAssumption, Zenon DEF TaskInv, TimerInv, RegInv, TypeInv, TypeOK
<1>1. /\ pc = "task" /\ pc' = "drain" /\ current' = None /\ left' = left /\ roots' = roots
  BY Zenon DEF TaskStep, Yield, AwaitForeign, Finish, Wait, Suspended
<1>2. /\ current \in Roots /\ frame[current] = "live" /\ ~Has(ready, current)
      /\ ~IsParked(current) /\ current \notin foreign /\ current \in roots
  BY <1>0, <1>1, Zenon DEF TaskInv, TimerInv, RegInv, TypeInv, TypeOK, CurrentKnown,
                    OnePlace, FramesOwned
<1>3. \A r \in Roots : r # current'
  BY <1>0, <1>1, Zenon
<1>4. CASE Yield
  <2>1. ready' = Append(ready, current) /\ UNCHANGED <<slot, frame, foreign>>
    BY <1>2, <1>4, Zenon DEF Yield, schedule, waitVars
  <2>2. /\ NoRepeat(ready') /\ Len(ready') = Len(ready) + 1
        /\ \A x \in Roots : Has(ready', x) <=> Has(ready, x) \/ x = current
    BY <1>0, <1>2, <2>1, PushBack DEF TaskInv
  <2>3. SlotsDistinct' /\ \A x \in Roots : IsParked(x)' <=> IsParked(x)
    BY <2>1 DEF TaskInv, SlotsDistinct, IsParked
  <2>4. \A x \in Roots : OnePlace(x)'
    BY <1>2, <1>3, <2>1, <2>2, <2>3, Zenon DEF TaskInv, OnePlace
  <2>5. BatchWithinQueue'
    BY <1>0, <1>1, <2>2, SeqDomain DEF TaskInv, BatchWithinQueue
  <2> QED
    BY <1>1, <2>1, <2>2, <2>3, <2>4, <2>5, Zenon DEF TaskNew, TaskInv, FramesOwned, Completed
<1>5. CASE AwaitForeign
  <2>1. foreign' = foreign \cup {current} /\ UNCHANGED <<slot, frame, ready>>
    BY <1>5, Zenon DEF AwaitForeign, waitVars
  <2>2. SlotsDistinct' /\ \A x \in Roots : IsParked(x)' <=> IsParked(x)
    BY <2>1 DEF TaskInv, SlotsDistinct, IsParked
  <2>3. \A x \in Roots : OnePlace(x)'
    BY <1>2, <1>3, <2>1, <2>2, Zenon DEF TaskInv, OnePlace
  <2> QED
    BY <1>1, <2>1, <2>2, <2>3, Zenon
    DEF TaskNew, TaskInv, FramesOwned, Completed, BatchWithinQueue
<1>6. ASSUME NEW how \in {"returned", "threw"}, Finish(how) PROVE TaskNew'
  <2>1. frame' = [frame EXCEPT ![current] = how] /\ UNCHANGED <<slot, foreign, ready>>
    BY <1>6, Zenon DEF Finish, waitVars
  <2>2. SlotsDistinct' /\ \A x \in Roots : IsParked(x)' <=> IsParked(x)
    BY <2>1 DEF TaskInv, SlotsDistinct, IsParked
  <2>3. \A x \in Roots : OnePlace(x)'
    BY <1>0, <1>2, <1>3, <2>1, <2>2, Zenon DEF TaskInv, OnePlace
  <2>4. roots' = {r \in Roots : frame'[r] \in {"live", "returned", "threw"}}
    BY <1>0, <1>1, <1>2, <2>1, Zenon DEF TaskInv, FramesOwned
  <2> QED
    BY <1>1, <2>1, <2>2, <2>3, <2>4, Zenon
    DEF TaskNew, TaskInv, FramesOwned, BatchWithinQueue
<1>7. ASSUME NEW fd \in Fds, NEW e \in Event,
             NEW timeout \in Timeouts \cup {kNoTimeout}, Wait(fd, e, timeout)
      PROVE  TaskNew'
  <2> DEFINE w == NewWaiter(timeout)
  <2>1. /\ slot' = [slot EXCEPT ![fd][e] = w] /\ slot[fd][e] = None
        /\ UNCHANGED <<foreign, frame, ready>>
    BY <1>7, Zenon DEF Wait
  <2>2. w # None /\ w.cont = current
    BY <1>1, NewWaiterType, Zenon DEF NewWaiter, TaskInv, TimerInv, RegInv
  <2> HIDE DEF w
  <2>3. slot'[fd][e] = w /\ \A g \in Fds, d \in Event :
          ~(g = fd /\ d = e) => slot'[g][d] = slot[g][d]
    BY <1>0, <2>1, Zenon
  <2>4. \A x \in Roots : IsParked(x)' <=> IsParked(x) \/ x = current
    <3>1. ASSUME NEW x \in Roots, IsParked(x)' PROVE IsParked(x) \/ x = current
      BY <2>2, <2>3, <3>1 DEF IsParked
    <3>2. ASSUME NEW x \in Roots, IsParked(x) PROVE IsParked(x)'
      <4>1. PICK g \in Fds, d \in Event : slot[g][d] # None /\ slot[g][d].cont = x
        BY <3>2, Zenon DEF IsParked
      <4>2. ~(g = fd /\ d = e)
        BY <2>1, <4>1, Zenon
      <4> QED
        BY <2>3, <4>1, <4>2, Zenon DEF IsParked
    <3>3. ASSUME NEW x \in Roots, x = current PROVE IsParked(x)'
      BY <2>2, <2>3, <3>3, Zenon DEF IsParked
    <3> QED
      BY <3>1, <3>2, <3>3, Zenon
  <2>5. \A g \in Fds, d \in Event : slot[g][d] # None => slot[g][d].cont # current
    BY <1>2, Zenon DEF IsParked
  <2>6. SlotsDistinct'
    BY <2>2, <2>3, <2>5 DEF TaskInv, SlotsDistinct
  <2>7. \A x \in Roots : OnePlace(x)'
    BY <1>2, <1>3, <2>1, <2>4, Zenon DEF TaskInv, OnePlace
  <2> QED
    BY <1>1, <2>1, <2>6, <2>7, Zenon
    DEF TaskNew, TaskInv, FramesOwned, Completed, BatchWithinQueue
<1> QED
  BY <1>4, <1>5, <1>6, <1>7, Zenon DEF TaskStep

\* run_ready() takes the head of the queue, which is live.
LEMMA TaskResumes ==
  ASSUME TaskInv, RunReadyNext
  PROVE  /\ TaskNew'
         /\ pc' = "task" /\ current = None /\ current' = Head(ready)
         /\ ready # <<>> /\ ready' = Tail(ready) /\ UNCHANGED <<slot, frame, foreign, roots>>
<1>0. /\ ready \in Seq(Roots) /\ left \in Nat /\ pc = "ready" /\ current = None
      /\ None \notin Roots
  BY IoContextAssumption, Zenon
  DEF TaskInv, TimerInv, RegInv, TypeInv, TypeOK, CurrentKnown, RunReadyNext
<1>1. /\ ready # <<>> /\ ready' = Tail(ready) /\ left' = left - 1 /\ left > 0
      /\ UNCHANGED <<slot, frame, foreign, roots>>
  BY Zenon DEF RunReadyNext, waitVars
<1>2. /\ Head(ready) \in Roots /\ Has(ready, Head(ready))
      /\ Len(ready') = Len(ready) - 1 /\ NoRepeat(ready') /\ ready' \in Seq(Roots)
      /\ \A x \in Roots : Has(ready', x) <=> Has(ready, x) /\ x # Head(ready)
  BY <1>0, <1>1, PopFront, Zenon DEF TaskInv
<1>3. frame[Head(ready)] = "live"
  BY <1>2, Zenon DEF TaskInv, OnePlace
<1>4. pc' = "task" /\ current' = Head(ready)
  BY <1>3, Zenon DEF RunReadyNext
<1>5. SlotsDistinct' /\ \A x \in Roots : IsParked(x)' <=> IsParked(x)
  BY <1>1 DEF TaskInv, SlotsDistinct, IsParked
<1>6. \A x \in Roots : OnePlace(x)'
  BY <1>0, <1>1, <1>2, <1>4, <1>5, Zenon DEF TaskInv, OnePlace
<1>7. FramesOwned'
  BY <1>0, <1>1, <1>4, Zenon DEF TaskInv, FramesOwned, Completed
<1>8. BatchWithinQueue'
  BY <1>0, <1>1, <1>2, SeqDomain DEF TaskInv, BatchWithinQueue
<1> QED
  BY <1>0, <1>1, <1>2, <1>4, <1>5, <1>6, <1>7, <1>8, Zenon DEF TaskNew

\* drain_completed() touches finished frames only.
LEMMA TaskDrains ==
  ASSUME TaskInv, DrainCompleted
  PROVE  TaskNew'
<1>0. /\ roots \in SUBSET Roots /\ ready \in Seq(Roots) /\ left \in Nat
      /\ frame \in [Roots -> {"unborn", "live", "returned", "threw", "destroyed"}]
  BY Zenon DEF TaskInv, TimerInv, RegInv, TypeInv, TypeOK
<1>1. /\ UNCHANGED <<ready, slot, foreign, current>>
      /\ roots' = roots \ Completed
      /\ frame' = [r \in Roots |-> IF r \in Completed THEN "destroyed" ELSE frame[r]]
      /\ \/ pc' = "idle" /\ left' = 0
         \/ pc' = "ready" /\ left' = left
  BY Zenon DEF DrainCompleted, LeaveRun, waitVars
<1>2. Completed = {r \in Roots : frame[r] \in {"returned", "threw"}}
  BY Zenon DEF TaskInv, FramesOwned, Completed
<1>3. SlotsDistinct' /\ \A x \in Roots : IsParked(x)' <=> IsParked(x)
  <2>1. slot' = slot
    BY <1>1, Zenon
  <2>2. SlotsDistinct'
    BY <2>1 DEF TaskInv, SlotsDistinct
  <2>3. \A x \in Roots : IsParked(x)' <=> IsParked(x)
    BY <2>1, Zenon DEF IsParked
  <2> QED
    BY <2>2, <2>3, Zenon
<1>4. \A x \in Roots : frame'[x] = "live" <=> frame[x] = "live"
  BY <1>0, <1>1, <1>2, Zenon
<1>5. \A x \in Roots : OnePlace(x)'
  BY <1>1, <1>3, <1>4, Zenon DEF TaskInv, OnePlace
<1>6. FramesOwned'
  BY <1>0, <1>1, <1>2, Zenon DEF TaskInv, FramesOwned, Completed
<1>7. BatchWithinQueue'
  BY <1>0, <1>1, SeqDomain DEF TaskInv, BatchWithinQueue
<1> QED
  BY <1>1, <1>3, <1>5, <1>6, <1>7, Zenon DEF TaskNew, TaskInv

LEMMA TaskDestroy ==
  ASSUME TaskInv, Destroy
  PROVE  TaskNew'
<1>0. /\ frame \in [Roots -> {"unborn", "live", "returned", "threw", "destroyed"}]
      /\ roots \in SUBSET Roots /\ current = None /\ None \notin Roots /\ left = 0
  BY IoContextAssumption, Zenon
  DEF TaskInv, TimerInv, RegInv, TypeInv, TypeOK, CurrentKnown, Destroy
<1>1. /\ ready' = <<>> /\ foreign' = {} /\ roots' = {} /\ current' = current
      /\ frame' = [r \in Roots |-> IF r \in roots THEN "destroyed" ELSE frame[r]]
      /\ pc' = "destroyed" /\ left' = left
      /\ \A fd \in Fds, e \in Event : slot'[fd][e] = None
  BY Zenon DEF Destroy, NoWaiters
<1>2. \A x \in Roots : ~Has(ready', x)
  BY <1>1 DEF Has
<1>3. \A x \in Roots : ~IsParked(x)'
  BY <1>1, Zenon DEF IsParked
<1>4. \A x \in Roots : frame'[x] \notin {"live", "returned", "threw"}
  BY <1>0, <1>1, Zenon DEF TaskInv, FramesOwned
<1>5. \A x \in Roots : OnePlace(x)'
  BY <1>0, <1>1, <1>2, <1>3, <1>4, Zenon DEF OnePlace
<1>6. SlotsDistinct' /\ NoRepeat(ready')
  BY <1>1 DEF SlotsDistinct, NoRepeat
<1>7. FramesOwned'
  BY <1>1, <1>4, Zenon DEF FramesOwned, Completed
<1>8. BatchWithinQueue'
  BY <1>0, <1>1, EmptySeq DEF BatchWithinQueue
<1> QED
  BY <1>0, <1>1, <1>5, <1>6, <1>7, <1>8, Zenon DEF TaskNew

LEMMA TaskInit == Init => TaskInv
<1> SUFFICES ASSUME Init PROVE TaskInv
  BY Zenon
<1>1. TimerInv
  <2>1. TypeInv /\ RegistrationAgrees
    BY TypeInit, RegInit, Zenon
  <2>2. \A fd \in Fds, e \in Event : slot[fd][e] = None
    BY Zenon DEF Init, NoWaiters
  <2>3. timers = {} /\ now = 0 /\ clock = 0
    BY Zenon DEF Init
  <2>4. TokensUsed /\ DeadlinesInHeap
    BY <2>2, <2>3, Zenon DEF TokensUsed, DeadlinesInHeap
  <2>5. EntriesMatch
    BY <2>3, Zenon DEF EntriesMatch
  <2> QED
    <3>1. now <= clock
      BY <2>3
    <3> QED
      BY <2>1, <2>4, <2>5, <3>1, Zenon DEF TimerInv, RegInv
<1>2. NoRepeat(ready) /\ \A r \in Roots : ~Has(ready, r)
  BY DEF Init, NoRepeat, Has
<1>3. SlotsDistinct /\ \A r \in Roots : ~IsParked(r)
  BY Zenon DEF Init, NoWaiters, SlotsDistinct, IsParked
<1>4. \A r \in Roots : OnePlace(r)
  BY <1>2, <1>3, IoContextAssumption, Zenon DEF Init, OnePlace
<1>5. FramesOwned
  BY Zenon DEF Init, FramesOwned, Completed
<1>6. BatchWithinQueue
  BY EmptySeq DEF Init, BatchWithinQueue
<1> QED
  BY <1>1, <1>2, <1>3, <1>4, <1>5, <1>6, Zenon DEF TaskInv, Init

\* Steps that move no task, or only what complete() or cancel() moves.
LEMMA TaskKeeps ==
  ASSUME TaskInv,
         /\ NoRepeat(ready') /\ SlotsDistinct'
         /\ \A r \in Roots : OnePlace(r)'
         /\ roots' = {r \in Roots : frame'[r] \in {"live", "returned", "threw"}}
         /\ Completed' = Completed
         /\ Len(ready) <= Len(ready'),
         ready' \in Seq(Roots),
         roots' = roots,
         pc # "drain" \/ pc' = pc,
         pc = "destroyed" <=> pc' = "destroyed",
         left' = 0 \/ (left' = left /\ (pc' = "idle" => pc = "idle"))
  PROVE  TaskNew'
<1>1. ready \in Seq(Roots) /\ left \in Nat
  BY Zenon DEF TaskInv, TimerInv, RegInv, TypeInv, TypeOK
<1>2. FramesOwned'
  <2>1. FramesOwned
    BY Zenon DEF TaskInv
  <2>2. roots' = {r \in Roots : frame'[r] \in {"live", "returned", "threw"}}
    BY Zenon
  <2> QED
    BY <2>1, <2>2 DEF FramesOwned
<1>3. BatchWithinQueue'
  BY <1>1, SeqDomain DEF TaskInv, BatchWithinQueue
<1>4. pc' \in {"idle", "destroyed"} => left' = 0
  BY Zenon DEF TaskInv
<1> QED
  BY <1>2, <1>3, <1>4, Zenon DEF TaskNew

LEMMA TaskInvStep ==
  ASSUME TaskInv, TypeInv', [Next]_vars
  PROVE  TaskNew'
<1>0. ready \in Seq(Roots) /\ ready' \in Seq(Roots) /\ Len(ready) \in Nat /\ TypeOK
  BY SeqDomain, Zenon DEF TaskInv, TimerInv, RegInv, TypeInv, TypeOK
<1>1. ASSUME UNCHANGED placeVars
      PROVE  /\ NoRepeat(ready') /\ SlotsDistinct'
             /\ \A r \in Roots : OnePlace(r)'
             /\ roots' = {r \in Roots : frame'[r] \in {"live", "returned", "threw"}}
             /\ Completed' = Completed
             /\ Len(ready) <= Len(ready')
             /\ roots' = roots
  BY <1>0, <1>1, TaskFrame, SMTT(30) DEF placeVars
<1> USE DEF placeVars, taskVars, waitVars, control
<1>2. CASE UNCHANGED vars
  BY <1>0, <1>1, <1>2, TaskKeeps, Zenon DEF vars
<1>3. CASE UserStep
  <2>1. ASSUME NEW fd \in Fds, Cancel(fd) \/ Close(fd) PROVE TaskNew'
    <3>1. cancel(fd) /\ UNCHANGED <<frame, current, foreign, roots, pc, left>>
      BY <2>1, Zenon DEF Cancel, Close
    <3> QED
      BY <1>0, <3>1, TaskCancel, TaskKeeps, Zenon
  <2>2. CASE \/ Stop \/ RunCall
             \/ \E fd \in Fds, e \in Event : WaitThrows(fd, e)
             \/ \E fd \in Fds, c \in {"in", "out"} : UseFd(fd, c)
    <3>1. UNCHANGED placeVars /\ left' = left /\ pc # "drain" /\ pc # "destroyed"
          /\ pc' # "destroyed" /\ (pc' = "idle" => pc = "idle")
      BY <2>2, Zenon DEF Stop, RunCall, WaitThrows, UseFd, UserCode
    <3> QED
      BY <1>0, <1>1, <3>1, TaskKeeps, Zenon
  <2> QED
    BY <1>3, <2>1, <2>2, TaskSpawn, TaskDestroy, Zenon DEF UserStep
<1>4. CASE TaskStep
  BY <1>4, TaskSuspends, Zenon
<1>5. CASE RunReadyNext
  BY <1>5, TaskResumes, Zenon
<1>6. CASE DrainCompleted
  BY <1>6, TaskDrains, Zenon
<1>7. CASE LoopHead
  <2>1. /\ UNCHANGED placeVars /\ pc = "loop"
        /\ \/ pc' = "idle" /\ left' = 0
           \/ pc' = "ready" /\ left' = Len(ready)
    BY <1>7, Zenon DEF LoopHead, LeaveRun
  <2>2. FramesOwned' /\ BatchWithinQueue' /\ (pc' \in {"idle", "destroyed"} => left' = 0)
    BY <1>0, <1>1, <2>1, SMTT(30) DEF FramesOwned, BatchWithinQueue, TaskInv
  <2> QED
    BY <1>1, <2>1, <2>2, Zenon DEF TaskNew
<1>8. CASE RunReadyDone \/ ExpireDone \/ Check \/ PollForever \/ NoWakeSource
           \/ DispatchDone \/ PollStep \/ WorldStep
           \/ \E t \in Tops : PruneTimer(t) \/ PollUntilTimer(t)
  <2>1. /\ UNCHANGED placeVars
        /\ pc # "drain" \/ pc' = pc
        /\ pc = "destroyed" <=> pc' = "destroyed"
        /\ left' = 0 \/ (left' = left /\ (pc' = "idle" => pc = "idle"))
    <3>1. CASE RunReadyDone \/ ExpireDone \/ Check \/ PollForever \/ NoWakeSource
               \/ DispatchDone
      BY <3>1, Zenon DEF RunReadyDone, ExpireDone, Check, PollForever, NoWakeSource,
                  DispatchDone, LeaveRun, EnterExpire
    <3>2. CASE PollStep
      BY <3>2, Zenon DEF PollStep, PollEvents, PollNothing, PollThrows, LeaveRun, EnterExpire
    <3>3. CASE WorldStep
      BY <3>3, Zenon DEF WorldStep, Tick, PeerActs
    <3>4. CASE \E t \in Tops : PruneTimer(t) \/ PollUntilTimer(t)
      BY <3>4, Zenon DEF PruneTimer, PollUntilTimer
    <3> QED
      BY <1>8, <3>1, <3>2, <3>3, <3>4, Zenon
  <2> QED
    BY <1>0, <1>1, <2>1, TaskKeeps, Zenon
<1>9. ASSUME NEW t \in Tops, ExpireTimer(t) \/ ExpireThrows(t) PROVE TaskNew'
  <2>1. t.fd \in Fds /\ t.event \in Event
    BY <1>0, Zenon DEF Tops, TimerEntry, TypeOK
  <2>2. /\ UNCHANGED <<frame, current, foreign, roots>>
        /\ complete(t.fd, t.event, FALSE) \/ UNCHANGED <<slot, ready>>
        /\ pc \in {"expire_before", "expire_after"}
        /\ (pc' = pc /\ left' = left) \/ (pc' = "idle" /\ left' = 0)
    BY <1>9, Zenon DEF ExpireTimer, ExpireThrows, complete_and_refresh,
                complete_then_mod_throws, LeaveRun
  <2> QED
    BY <1>0, <1>1, <2>1, <2>2, TaskComplete, TaskKeeps, Zenon
<1>10. ASSUME NEW fd \in Fds, NEW e \in Event,
              \/ DispatchRead(fd) \/ DispatchWrite(fd) \/ DispatchThrows(fd, e)
       PROVE  TaskNew'
  <2>1. /\ UNCHANGED <<frame, current, foreign, roots>>
        /\ (\E d \in Event : complete(fd, d, TRUE)) \/ UNCHANGED <<slot, ready>>
        /\ pc = "dispatch"
        /\ (pc' = pc /\ left' = left) \/ (pc' = "idle" /\ left' = 0)
    BY <1>10, Zenon DEF DispatchRead, DispatchWrite, DispatchThrows, on_ready,
                 complete_and_refresh, complete_then_mod_throws, LeaveRun, Event
  <2> QED
    BY <1>0, <1>1, <2>1, TaskComplete, TaskKeeps, Zenon
<1> QED
  BY <1>2, <1>3, <1>4, <1>5, <1>6, <1>7, <1>8, <1>9, <1>10, Zenon
  DEF Next, ExecutorStep, Event

LEMMA TaskInvariant == Spec => []TaskInv
<1>1. TaskInv /\ [Next]_vars => TaskInv'
  BY TypeStep, RegStep, TimerStep, NowStep, TaskInvStep, Zenon
  DEF TaskInv, TaskNew, TimerInv, RegInv
<1> QED
  BY <1>1, TaskInit, PTL DEF Spec

\* The handles the executor holds are those of the live frames, each held in
\* one place only: no frame is resumed twice for one suspension, none is
\* resumed or written to after it is gone, none is forgotten.
THEOREM HandlesCorrect == Spec => []OneWakeSource
<1>1. TaskInv => OneWakeSource
  BY TaskInvGives, Zenon
<1> QED
  BY <1>1, TaskInvariant, PTL

\* roots_ owns exactly the frames spawned and not destroyed; finished ones are
\* gone when drain_completed() is over, also when it rethrows.
THEOREM OwnershipCorrect == Spec => []FramesOwned
<1>1. TaskInv => FramesOwned
  BY TaskInvGives, Zenon
<1> QED
  BY <1>1, TaskInvariant, PTL

\* The batch run_ready() measured is never longer than the queue, so
\* ready_.front() is never called on an empty deque.
THEOREM BatchCorrect == Spec => []BatchWithinQueue
<1>1. TaskInv => BatchWithinQueue
  BY TaskInvGives, Zenon
<1> QED
  BY <1>1, TaskInvariant, PTL

----------------------------------------------------------------------------
(* Giving up.                                                              *)

\* next_poll_timeout() is only asked with nothing queued.
TimeoutQueueEmpty == pc = "timeout" => ready = <<>>

LEMMA TimeoutStep ==
  ASSUME TaskInv, TimeoutQueueEmpty, [Next]_vars
  PROVE  TimeoutQueueEmpty'
<1> USE DEF TimeoutQueueEmpty, taskVars, control
<1>1. CASE UNCHANGED vars
  BY <1>1, Zenon DEF vars
<1>2. CASE UserStep
  BY <1>2, Zenon DEF UserStep, UserCode, Spawn, SpawnThrows, Cancel, Close, WaitThrows,
              UseFd, Stop, RunCall, Destroy
<1>3. CASE TaskStep
  BY <1>3, Zenon DEF TaskStep, Yield, AwaitForeign, Finish, Wait, Suspended
<1>4. CASE LoopHead \/ RunReadyNext \/ RunReadyDone \/ DrainCompleted
           \/ ExpireDone \/ Check \/ PollForever \/ NoWakeSource \/ DispatchDone
  BY <1>4, Zenon
  DEF LoopHead, RunReadyNext, RunReadyDone, DrainCompleted, ExpireDone, Check,
      PollForever, NoWakeSource, DispatchDone, LeaveRun, EnterExpire
<1>5. CASE \/ \E t \in Tops : ExpireTimer(t) \/ ExpireThrows(t)
           \/ \E t \in Tops : PruneTimer(t) \/ PollUntilTimer(t)
           \/ \E fd \in Fds : DispatchRead(fd) \/ DispatchWrite(fd)
           \/ \E fd \in Fds, e \in Event : DispatchThrows(fd, e)
  BY <1>5, Zenon DEF ExpireTimer, ExpireThrows, PruneTimer, PollUntilTimer,
              DispatchRead, DispatchWrite, DispatchThrows, LeaveRun
<1>6. CASE PollStep
  BY <1>6, Zenon DEF PollStep, PollEvents, PollNothing, PollThrows, LeaveRun, EnterExpire
<1>7. CASE WorldStep
  BY <1>7, Zenon DEF WorldStep, Tick, PeerActs
<1> QED
  BY <1>1, <1>2, <1>3, <1>4, <1>5, <1>6, <1>7, Zenon DEF Next, ExecutorStep

\* run() throws "no readiness or timer wake source" only when every task left
\* awaits something outside the executor.
THEOREM GivesUpRightly == Spec => []NoWakeSourceIsReal
<1>1. Init => TimeoutQueueEmpty
  BY Zenon DEF Init, TimeoutQueueEmpty
<1>2. TaskInv /\ TimeoutQueueEmpty => NoWakeSourceIsReal
  <2> SUFFICES ASSUME TaskInv, TimeoutQueueEmpty, pc = "timeout", timers = {},
                      registered = {}, NEW r \in roots
               PROVE  r \in foreign
    BY Zenon DEF NoWakeSourceIsReal
  <2>1. r \in Roots /\ None \notin Roots /\ current = None
    BY IoContextAssumption, Zenon
    DEF TaskInv, TimerInv, RegInv, TypeInv, TypeOK, CurrentKnown
  <2>2. frame[r] = "live"
    BY <2>1, Zenon DEF TaskInv, FramesOwned, Completed
  <2>3. ~Has(ready, r)
    BY DEF TimeoutQueueEmpty, Has
  <2>4. ~IsParked(r)
    BY Zenon DEF IsParked, TaskInv, TimerInv, RegInv, RegistrationAgrees, Armed
  <2> QED
    BY <2>1, <2>2, <2>3, <2>4, Zenon DEF TaskInv, OnePlace
<1>3. TaskInv /\ TimeoutQueueEmpty /\ [Next]_vars => TimeoutQueueEmpty'
  BY TimeoutStep, Zenon
<1> QED
  BY <1>1, <1>2, <1>3, TaskInvariant, PTL DEF Spec

----------------------------------------------------------------------------
(* Waking up.                                                              *)

\* What WakeCause says of one slot.
WakeCauseOf(fd, e) ==
  slot[fd][e] # None /\ slot'[fd][e] # slot[fd][e] =>
    \/ pc' = "destroyed"
    \/ /\ slot'[fd][e] = None
       /\ \E i \in DOMAIN ready' : ready'[i] = slot[fd][e].cont
       /\ \/ /\ pc = "dispatch"
             /\ events[fd] \cap Wakes(e) # {}
             /\ result'[slot[fd][e].cont] = TRUE
          \/ /\ pc \in {"expire_before", "expire_after"}
             /\ 0 <= slot[fd][e].due
             /\ slot[fd][e].due <= clock
             /\ result'[slot[fd][e].cont] = FALSE
          \/ /\ UserCode
             /\ fd \notin registered'
             /\ result'[slot[fd][e].cont] = FALSE

\* complete() changes one slot and queues its waiter.
LEMMA WakesOne ==
  ASSUME TaskInv, NEW fd \in Fds, NEW e \in Event, NEW outcome,
         complete(fd, e, outcome)
  PROVE  \A g \in Fds, d \in Event :
           slot[g][d] # None /\ slot'[g][d] # slot[g][d] =>
             /\ g = fd /\ d = e
             /\ slot'[g][d] = None
             /\ Has(ready', slot[g][d].cont)
             /\ slot[g][d].cont \in Roots
<1> SUFFICES ASSUME NEW g \in Fds, NEW d \in Event,
                    slot[g][d] # None, slot'[g][d] # slot[g][d]
             PROVE  /\ g = fd /\ d = e
                    /\ slot'[g][d] = None
                    /\ Has(ready', slot[g][d].cont)
                    /\ slot[g][d].cont \in Roots
  BY Zenon
<1>1. TypeOK
  BY Zenon DEF TaskInv, TimerInv, RegInv, TypeInv
<1>2. g = fd /\ d = e /\ slot'[g][d] = None
  BY <1>1, Zenon DEF complete, TypeOK
<1>3. slot[g][d].cont \in Roots
  BY ParkedIsLive, Zenon
<1>4. Has(ready', slot[g][d].cont)
  BY <1>2, <1>3, CompleteMoves, Zenon
<1> QED
  BY <1>2, <1>3, <1>4, Zenon

LEMMA WakesByCancel ==
  ASSUME TaskInv, NEW fd \in Fds, UserCode, cancel(fd),
         NEW g \in Fds, NEW d \in Event
  PROVE  WakeCauseOf(g, d)
<1> SUFFICES ASSUME slot[g][d] # None, slot'[g][d] # slot[g][d]
             PROVE  /\ slot'[g][d] = None
                    /\ \E i \in DOMAIN ready' : ready'[i] = slot[g][d].cont
                    /\ g \notin registered'
                    /\ result'[slot[g][d].cont] = FALSE
  BY Zenon DEF WakeCauseOf
<1> DEFINE rd == slot[fd]["READ"]
           wr == slot[fd]["WRITE"]
           q1 == queue_after(ready, rd)
<1>1. /\ slot \in [Fds -> [Event -> WaitSlot \cup {None}]]
      /\ ready \in Seq(Roots) /\ result \in [Roots -> BOOLEAN]
      /\ NoRepeat(ready)
  BY Zenon DEF TaskInv, TimerInv, RegInv, TypeInv, TypeOK
<1>2. fd \in states
  BY Zenon DEF cancel
<1>3. /\ slot' = [slot EXCEPT ![fd] = [e \in Event |-> None]]
      /\ ready' = queue_after(q1, wr)
      /\ result' = result_after(result_after(result, rd, FALSE), wr, FALSE)
      /\ registered' = registered \ {fd}
  BY <1>2, Zenon DEF cancel
<1>4. g = fd /\ slot'[g][d] = None
  BY <1>1, <1>3, Zenon
<1>5. slot[g][d] = rd \/ slot[g][d] = wr
  BY <1>4, Zenon DEF Event
<1>6. /\ rd # None => /\ rd.cont \in Roots /\ frame[rd.cont] = "live"
                      /\ ~Has(ready, rd.cont)
      /\ wr # None => /\ wr.cont \in Roots /\ frame[wr.cont] = "live"
                      /\ ~Has(ready, wr.cont)
  BY ParkedIsLive, Zenon DEF Event
<1>7. rd # None /\ wr # None => rd.cont # wr.cont
  BY Zenon DEF TaskInv, SlotsDistinct, Event
<1> HIDE DEF rd, wr
<1>8. /\ q1 \in Seq(Roots) /\ NoRepeat(q1)
      /\ \A x : Has(q1, x) <=> Has(ready, x) \/ (rd # None /\ x = rd.cont)
  BY <1>1, <1>6, QueueAfter, Zenon
<1> HIDE DEF q1
<1>9. \A x : Has(ready', x) <=> Has(q1, x) \/ (wr # None /\ x = wr.cont)
  BY <1>3, <1>6, <1>7, <1>8, QueueAfter, Zenon
<1>10. Has(ready', slot[g][d].cont)
  BY <1>5, <1>8, <1>9, Zenon
<1>11. result'[slot[g][d].cont] = FALSE
  BY <1>1, <1>3, <1>5, <1>6, Zenon DEF result_after
<1> QED
  BY <1>3, <1>4, <1>10, <1>11, Zenon DEF Has

LEMMA WakesWithCause ==
  ASSUME TaskInv, [Next]_vars, NEW g \in Fds, NEW d \in Event
  PROVE  WakeCauseOf(g, d)
<1>1. TypeInv /\ TypeOK /\ RegistrationAgrees
  BY Zenon DEF TaskInv, TimerInv, RegInv, TypeInv
<1>2. CASE UNCHANGED regVars
  BY <1>2, Zenon DEF regVars, WakeCauseOf
<1>3. CASE Destroy
  BY <1>3, Zenon DEF Destroy, WakeCauseOf
<1>4. CASE \E fd \in Fds : UserCode /\ cancel(fd)
  BY <1>4, WakesByCancel, Zenon
<1>5. CASE \E fd \in Fds, e \in Event : WaitThrows(fd, e)
  BY <1>5, Zenon DEF WaitThrows, WakeCauseOf
<1>6. ASSUME NEW fd \in Fds, NEW e \in Event,
             NEW timeout \in Timeouts \cup {kNoTimeout}, Wait(fd, e, timeout)
      PROVE  WakeCauseOf(g, d)
  BY <1>1, <1>6, Zenon DEF Wait, WakeCauseOf, TypeOK
<1>7. ASSUME NEW t \in Tops, ExpireTimer(t) \/ ExpireThrows(t), t.fd \in states,
             \/ complete_and_refresh(t.fd, t.event, FALSE)
             \/ complete_then_mod_throws(t.fd, t.event, FALSE)
      PROVE  WakeCauseOf(g, d)
  <2> SUFFICES ASSUME slot[g][d] # None, slot'[g][d] # slot[g][d]
               PROVE  WakeCauseOf(g, d)
    BY Zenon DEF WakeCauseOf
  <2>1. /\ t \in timers /\ t.fd \in Fds /\ t.event \in Event /\ t.deadline \in Nat
        /\ now \in Nat /\ clock \in Nat
    BY <1>1, Zenon DEF Tops, TimerEntry, TypeOK
  <2>2. complete(t.fd, t.event, FALSE)
    BY <1>7, Zenon DEF complete_and_refresh, complete_then_mod_throws
  <2>3. /\ g = t.fd /\ d = t.event /\ slot'[g][d] = None
        /\ Has(ready', slot[g][d].cont)
        /\ slot[g][d].cont \in Roots
    <3>1. \A gg \in Fds, dd \in Event :
           slot[gg][dd] # None /\ slot'[gg][dd] # slot[gg][dd] =>
             /\ gg = t.fd /\ dd = t.event
             /\ slot'[gg][dd] = None
             /\ Has(ready', slot[gg][dd].cont)
             /\ slot[gg][dd].cont \in Roots
      BY <2>1, <2>2, WakesOne, Zenon
    <3> QED
      BY <3>1, Zenon
  <2>0. result'[slot[g][d].cont] = FALSE
    BY <1>1, <2>1, <2>2, <2>3, Zenon DEF complete, result_after, TypeOK
  <2>4. pc \in {"expire_before", "expire_after"} /\ t.deadline <= now
    BY <1>7, Zenon DEF ExpireTimer, ExpireThrows
  <2>5. timer_active(t)
    BY <1>7, <2>3, Zenon DEF ExpireTimer, ExpireThrows
  <2>6. slot[g][d].due = t.deadline
    BY <2>1, <2>3, <2>5, Zenon DEF timer_active, TaskInv, TimerInv, EntriesMatch
  <2>7. now <= clock
    BY Zenon DEF TaskInv, TimerInv
  <2>8. 0 <= slot[g][d].due /\ slot[g][d].due <= clock
    BY <2>1, <2>4, <2>6, <2>7, SMTT(30)
  <2>9. \E i \in DOMAIN ready' : ready'[i] = slot[g][d].cont
    BY <2>3, Zenon DEF Has
  <2> QED
    BY <2>0, <2>3, <2>4, <2>8, <2>9, Zenon DEF WakeCauseOf
<1>8. ASSUME NEW fd \in Fds, NEW e \in Event,
             \/ e = "READ" /\ (DispatchRead(fd) \/ DispatchThrows(fd, e))
             \/ e = "WRITE" /\ (DispatchWrite(fd) \/ DispatchThrows(fd, e)),
             \/ complete_and_refresh(fd, e, TRUE)
             \/ complete_then_mod_throws(fd, e, TRUE)
      PROVE  WakeCauseOf(g, d)
  <2> SUFFICES ASSUME slot[g][d] # None, slot'[g][d] # slot[g][d]
               PROVE  WakeCauseOf(g, d)
    BY Zenon DEF WakeCauseOf
  <2>1. complete(fd, e, TRUE)
    BY <1>8, Zenon DEF complete_and_refresh, complete_then_mod_throws
  <2>2. /\ g = fd /\ d = e /\ slot'[g][d] = None
        /\ Has(ready', slot[g][d].cont)
        /\ slot[g][d].cont \in Roots
    <3>1. \A gg \in Fds, dd \in Event :
           slot[gg][dd] # None /\ slot'[gg][dd] # slot[gg][dd] =>
             /\ gg = fd /\ dd = e
             /\ slot'[gg][dd] = None
             /\ Has(ready', slot[gg][dd].cont)
             /\ slot[gg][dd].cont \in Roots
      BY <2>1, WakesOne, Zenon
    <3> QED
      BY <3>1, Zenon
  <2>0. result'[slot[g][d].cont] = TRUE
    BY <1>1, <2>1, <2>2, Zenon DEF complete, result_after, TypeOK
  <2>3. pc = "dispatch" /\ events[fd] \cap Wakes(e) # {}
    BY <1>8, <2>2, Zenon DEF DispatchRead, DispatchWrite, DispatchThrows,
                      calls_on_read, calls_on_write, Wakes
  <2> QED
    BY <2>0, <2>2, <2>3, Zenon DEF WakeCauseOf, Has
<1> QED
  BY <1>1, <1>2, <1>3, <1>4, <1>5, <1>6, <1>7, <1>8, StepKinds, Zenon

\* A parked coroutine is woken only by readiness of its direction, its own
\* deadline, cancel() of its descriptor or tear-down, with the result that
\* belongs to the cause; a timer of an earlier wait never wakes it.
THEOREM WakesRightly == Spec => WakeCause
<1>1. TaskInv /\ [Next]_vars =>
        \A fd \in Fds, e \in Event : WakeCauseOf(fd, e)
  BY WakesWithCause, Zenon
<1>2. (\A fd \in Fds, e \in Event : WakeCauseOf(fd, e)) =>
       (\A fd \in Fds, e \in Event :
         LET w == slot[fd][e] IN
         w # None /\ slot'[fd][e] # w =>
           \/ pc' = "destroyed"
           \/ /\ slot'[fd][e] = None
              /\ \E i \in DOMAIN ready' : ready'[i] = w.cont
              /\ \/ /\ pc = "dispatch"
                    /\ events[fd] \cap Wakes(e) # {}
                    /\ result'[w.cont] = TRUE
                 \/ /\ pc \in {"expire_before", "expire_after"}
                    /\ 0 <= w.due
                    /\ w.due <= clock
                    /\ result'[w.cont] = FALSE
                 \/ /\ UserCode
                    /\ fd \notin registered'
                    /\ result'[w.cont] = FALSE)
  BY Zenon DEF WakeCauseOf
<1> QED
  BY <1>1, <1>2, TaskInvariant, PTL DEF Spec, WakeCause

----------------------------------------------------------------------------
(* The executor implements TaskLifecycle.  Each lemma shows of one kind of  *)
(* step how it moves tasks in the diagram.                                  *)

\* Only the queue, the frames and the running task count.
LEMMA LifeSame ==
  ASSUME UNCHANGED <<ready, frame, current>>
  PROVE  UNCHANGED Lifecycle!lifeVars
<1>1. \A r \in Roots : LifeOf(r)' = LifeOf(r)
  BY Zenon DEF LifeOf, IsQueued
<1>2. Life' = Life
  BY <1>1, Zenon DEF Life
<1> QED
  BY <1>2, Zenon DEF Lifecycle!lifeVars

\* The stages of a task, by the place of its handle.
LEMMA LifeStages ==
  ASSUME TaskInv, NEW r \in Roots
  PROVE  /\ Life[r] = LifeOf(r)
         /\ frame[r] = "unborn" => LifeOf(r) = "unborn"
         /\ frame[r] \in {"returned", "threw"} <=> LifeOf(r) = "completed"
         /\ frame[r] = "destroyed" => LifeOf(r) = "destroyed"
         /\ r = current => LifeOf(r) = "running"
         /\ Has(ready, r) => LifeOf(r) = "ready"
         /\ IsParked(r) => LifeOf(r) = "waiting"
         /\ LifeOf(r) = "running" => r = current
  BY Zenon DEF Life, LifeOf, TaskInv, OnePlace, TimerInv, RegInv, TypeInv, TypeOK, Has,
         IsQueued

\* complete() wakes the waiter of its slot, if there is one.
LEMMA LifeComplete ==
  ASSUME TaskInv, NEW fd \in Fds, NEW e \in Event, NEW outcome,
         complete(fd, e, outcome), UNCHANGED <<frame, current>>
  PROVE  [Lifecycle!LifeNext]_(Lifecycle!lifeVars)
<1>1. CASE slot[fd][e] = None
  <2>1. ready' = ready
    BY <1>1, Zenon DEF complete, queue_after
  <2> QED
    BY <2>1, LifeSame, Zenon
<1>2. CASE slot[fd][e] # None
  <2> DEFINE w == slot[fd][e].cont
  <2>1. w \in Roots /\ frame[w] = "live" /\ IsParked(w) /\ ~Has(ready, w)
    BY <1>2, ParkedIsLive, Zenon
  <2>2. /\ ready' = Append(ready, w)
        /\ \A x \in Roots : Has(ready', x) <=> Has(ready, x) \/ x = w
    BY <1>2, CompleteMoves, Zenon
  <2> HIDE DEF w
  <2>3. w # current
    BY <2>1, Zenon DEF TaskInv, OnePlace
  <2>4. \A r \in Roots : LifeOf(r)' = IF r = w THEN "ready" ELSE LifeOf(r)
    BY <2>1, <2>2, <2>3, Zenon DEF LifeOf, Has, IsQueued
  <2>5. Life' = [Life EXCEPT ![w] = "ready"]
    BY <2>4, Zenon DEF Life
  <2>6. Life[w] = "waiting"
    BY <2>1, LifeStages, Zenon
  <2> QED
    BY <2>1, <2>2, <2>5, <2>6, Zenon DEF Lifecycle!LifeNext, Lifecycle!Woken
<1> QED
  BY <1>1, <1>2, Zenon

\* cancel() wakes the reader, then the writer.
LEMMA LifeCancel ==
  ASSUME TaskInv, NEW fd \in Fds, cancel(fd), UNCHANGED <<frame, current>>
  PROVE  [Lifecycle!LifeNext]_(Lifecycle!lifeVars)
<1>1. CASE fd \notin states
  BY <1>1, LifeSame, Zenon DEF cancel
<1>2. CASE fd \in states
  <2> DEFINE rd == slot[fd]["READ"]
             wr == slot[fd]["WRITE"]
             q1 == queue_after(ready, rd)
  <2>0. ready \in Seq(Roots) /\ NoRepeat(ready)
    BY Zenon DEF TaskInv, TimerInv, RegInv, TypeInv, TypeOK
  <2>1. ready' = queue_after(q1, wr)
    BY <1>2, Zenon DEF cancel
  <2>2. /\ rd # None => /\ rd.cont \in Roots /\ frame[rd.cont] = "live"
                        /\ ~Has(ready, rd.cont) /\ IsParked(rd.cont)
        /\ wr # None => /\ wr.cont \in Roots /\ frame[wr.cont] = "live"
                        /\ ~Has(ready, wr.cont) /\ IsParked(wr.cont)
    BY ParkedIsLive, Zenon DEF Event
  <2>3. rd # None /\ wr # None => rd.cont # wr.cont
    BY Zenon DEF TaskInv, SlotsDistinct, Event
  <2> HIDE DEF rd, wr
  <2>4. /\ rd # None => rd.cont # current /\ Life[rd.cont] = "waiting"
        /\ wr # None => wr.cont # current /\ Life[wr.cont] = "waiting"
    BY <2>2, LifeStages, Zenon DEF TaskInv, OnePlace
  <2>5. /\ q1 \in Seq(Roots) /\ NoRepeat(q1)
        /\ \A x : Has(q1, x) <=> Has(ready, x) \/ (rd # None /\ x = rd.cont)
    BY <2>0, <2>2, QueueAfter, Zenon
  <2>6. q1 = IF rd = None THEN ready ELSE Append(ready, rd.cont)
    BY <2>2, Zenon DEF queue_after, schedule
  <2> HIDE DEF q1
  <2>7. \A x : Has(ready', x) <=> Has(q1, x) \/ (wr # None /\ x = wr.cont)
    <3>1. wr # None => wr.cont \in Roots /\ frame[wr.cont] = "live" /\ ~Has(q1, wr.cont)
      BY <2>2, <2>3, <2>5, Zenon
    <3> QED
      BY <2>1, <2>5, <3>1, QueueAfter, Zenon
  <2>8. ready' = IF wr = None THEN q1 ELSE Append(q1, wr.cont)
    BY <2>1, <2>2, Zenon DEF queue_after, schedule
  <2>9. \A r \in Roots :
          LifeOf(r)' = IF (rd # None /\ r = rd.cont) \/ (wr # None /\ r = wr.cont)
                         THEN "ready" ELSE LifeOf(r)
    BY <2>2, <2>4, <2>5, <2>7, ZenonT(30) DEF LifeOf, Has, IsQueued
  <2>10. CASE rd = None /\ wr = None
    BY <2>6, <2>8, <2>10, LifeSame, Zenon
  <2>11. CASE rd # None /\ wr = None
    <3>1. Life' = [Life EXCEPT ![rd.cont] = "ready"]
      BY <2>9, <2>11, Zenon DEF Life
    <3> QED
      BY <2>2, <2>4, <2>6, <2>8, <2>11, <3>1, Zenon DEF Lifecycle!LifeNext, Lifecycle!Woken
  <2>12. CASE rd = None /\ wr # None
    <3>1. Life' = [Life EXCEPT ![wr.cont] = "ready"]
      BY <2>9, <2>12, Zenon DEF Life
    <3> QED
      BY <2>2, <2>4, <2>6, <2>8, <2>12, <3>1, Zenon DEF Lifecycle!LifeNext, Lifecycle!Woken
  <2>13. CASE rd # None /\ wr # None
    <3>1. Life' = [Life EXCEPT ![rd.cont] = "ready", ![wr.cont] = "ready"]
      BY <2>2, <2>3, <2>9, <2>13, Zenon DEF Life
    <3>2. Lifecycle!BothWoken(rd.cont, wr.cont)
      BY <2>2, <2>3, <2>4, <2>6, <2>8, <2>13, <3>1, Zenon DEF Lifecycle!BothWoken
    <3> QED
      BY <2>2, <2>13, <3>2, Zenon DEF Lifecycle!LifeNext
  <2> QED
    BY <2>10, <2>11, <2>12, <2>13, Zenon
<1> QED
  BY <1>1, <1>2, Zenon

LEMMA LifeSpawn ==
  ASSUME TaskInv, NEW r \in Roots, Spawn(r) \/ SpawnThrows(r)
  PROVE  Lifecycle!LifeNext
<1>0. /\ ready \in Seq(Roots) /\ current' = current
      /\ frame \in [Roots -> {"unborn", "live", "returned", "threw", "destroyed"}]
  BY Zenon DEF TaskInv, TimerInv, RegInv, TypeInv, TypeOK, Spawn, SpawnThrows, control
<1>1. frame[r] = "unborn" /\ r # current /\ ~Has(ready, r) /\ Life[r] = "unborn"
  BY LifeStages, Zenon DEF Spawn, SpawnThrows, TaskInv, OnePlace
<1>2. CASE Spawn(r)
  <2>1. ready' = Append(ready, r) /\ frame' = [frame EXCEPT ![r] = "live"]
    BY <1>2, Zenon DEF Spawn
  <2>2. \A x \in Roots : Has(ready', x) <=> Has(ready, x) \/ x = r
    BY <1>0, <2>1, PushBack, Zenon
  <2>3. \A x \in Roots : LifeOf(x)' = IF x = r THEN "ready" ELSE LifeOf(x)
    <3>1. \A x \in Roots : x = r => frame'[x] = "live" /\ x # current' /\ IsQueued(x)'
      BY <1>0, <1>1, <2>1, <2>2, Zenon DEF IsQueued, Has
    <3>2. \A x \in Roots : x # r =>
            frame'[x] = frame[x] /\ current' = current /\ (IsQueued(x)' <=> IsQueued(x))
      BY <1>0, <2>1, <2>2, Zenon DEF IsQueued, Has
    <3>3. \A x \in Roots : x = r => LifeOf(x)' = "ready"
      BY <3>1, Zenon DEF LifeOf
    <3>4. \A x \in Roots : x # r => LifeOf(x)' = LifeOf(x)
      BY <3>2, Zenon DEF LifeOf
    <3> QED
      BY <3>3, <3>4, Zenon
  <2>4. Life' = [Life EXCEPT ![r] = "ready"]
    BY <2>3, Zenon DEF Life
  <2> QED
    BY <1>1, <2>1, <2>4, Zenon DEF Lifecycle!LifeNext, Lifecycle!Spawned
<1>3. CASE SpawnThrows(r)
  <2>1. ready' = ready /\ frame' = [frame EXCEPT ![r] = "destroyed"]
    BY <1>3, Zenon DEF SpawnThrows
  <2>2. \A x \in Roots : LifeOf(x)' = IF x = r THEN "destroyed" ELSE LifeOf(x)
    BY <1>0, <1>1, <2>1, Zenon DEF LifeOf, Has, IsQueued
  <2>3. Life' = [Life EXCEPT ![r] = "destroyed"]
    BY <2>2, Zenon DEF Life
  <2> QED
    BY <1>1, <2>1, <2>3, Zenon DEF Lifecycle!LifeNext, Lifecycle!Refused
<1> QED
  BY <1>2, <1>3, Zenon

\* The resumed coroutine yields, blocks or completes.
LEMMA LifeSuspends ==
  ASSUME TaskInv, TaskStep
  PROVE  Lifecycle!LifeNext
<1>0. /\ ready \in Seq(Roots) /\ None \notin Roots /\ pc = "task" /\ current' = None
      /\ frame \in [Roots -> {"unborn", "live", "returned", "threw", "destroyed"}]
  BY IoContextAssumption, Zenon
  DEF TaskInv, TimerInv, RegInv, TypeInv, TypeOK, TaskStep, Yield, AwaitForeign,
      Finish, Wait, Suspended
<1>1. /\ current \in Roots /\ frame[current] = "live" /\ ~Has(ready, current)
      /\ Life[current] = "running"
  BY <1>0, LifeStages, Zenon
  DEF TaskInv, TimerInv, RegInv, TypeInv, TypeOK, CurrentKnown, OnePlace
<1>2. CASE Yield
  <2>1. ready' = Append(ready, current) /\ frame' = frame
    BY <1>1, <1>2, Zenon DEF Yield, schedule
  <2>2. \A x \in Roots : Has(ready', x) <=> Has(ready, x) \/ x = current
    BY <1>0, <1>1, <2>1, PushBack, Zenon
  <2>3. \A x \in Roots : LifeOf(x)' = IF x = current THEN "ready" ELSE LifeOf(x)
    <3>1. \A x \in Roots : x = current => frame'[x] = "live" /\ x # current' /\ IsQueued(x)'
      BY <1>0, <1>1, <2>1, <2>2, Zenon DEF IsQueued, Has
    <3>2. \A x \in Roots : x # current =>
            frame'[x] = frame[x] /\ x # current /\ x # current' /\ (IsQueued(x)' <=> IsQueued(x))
      BY <1>0, <2>1, <2>2, Zenon DEF IsQueued, Has
    <3>3. \A x \in Roots : x = current => LifeOf(x)' = "ready"
      BY <3>1, Zenon DEF LifeOf
    <3>4. \A x \in Roots : x # current => LifeOf(x)' = LifeOf(x)
      BY <3>2, Zenon DEF LifeOf
    <3> QED
      BY <3>3, <3>4, Zenon
  <2>4. Life' = [Life EXCEPT ![current] = "ready"]
    BY <2>3, Zenon DEF Life
  <2> QED
    BY <1>1, <2>1, <2>4, Zenon DEF Lifecycle!LifeNext, Lifecycle!Yielded
<1>3. CASE \/ AwaitForeign
           \/ \E fd \in Fds, e \in Event, timeout \in Timeouts \cup {kNoTimeout} :
                Wait(fd, e, timeout)
  <2>1. ready' = ready /\ frame' = frame
    BY <1>3, Zenon DEF AwaitForeign, Wait
  <2>2. \A x \in Roots : LifeOf(x)' = IF x = current THEN "waiting" ELSE LifeOf(x)
    BY <1>0, <1>1, <2>1, Zenon DEF LifeOf, Has, IsQueued
  <2>3. Life' = [Life EXCEPT ![current] = "waiting"]
    BY <2>2, Zenon DEF Life
  <2> QED
    BY <1>1, <2>1, <2>3, Zenon DEF Lifecycle!LifeNext, Lifecycle!Blocked
<1>4. ASSUME NEW how \in {"returned", "threw"}, Finish(how)
      PROVE  Lifecycle!LifeNext
  <2>1. ready' = ready /\ frame' = [frame EXCEPT ![current] = how]
    BY <1>4, Zenon DEF Finish
  <2>2. \A x \in Roots : LifeOf(x)' = IF x = current THEN "completed" ELSE LifeOf(x)
    BY <1>0, <1>1, <2>1, Zenon DEF LifeOf, IsQueued
  <2>3. Life' = [Life EXCEPT ![current] = "completed"]
    BY <2>2, Zenon DEF Life
  <2> QED
    BY <1>1, <2>1, <2>3, Zenon DEF Lifecycle!LifeNext, Lifecycle!Completes
<1> QED
  BY <1>2, <1>3, <1>4, Zenon DEF TaskStep

\* run_ready() resumes the head of the queue, with nothing else running.
LEMMA LifeResumes ==
  ASSUME TaskInv, RunReadyNext
  PROVE  Lifecycle!LifeNext
<1>1. /\ current = None /\ current' = Head(ready) /\ ready # <<>>
      /\ ready' = Tail(ready) /\ frame' = frame
  BY TaskResumes, Zenon
<1>2. /\ ready \in Seq(Roots) /\ NoRepeat(ready) /\ None \notin Roots
  BY IoContextAssumption, Zenon DEF TaskInv, TimerInv, RegInv, TypeInv, TypeOK
<1> DEFINE h == Head(ready)
<1>3. /\ h \in Roots /\ Has(ready, h)
      /\ \A x : Has(ready', x) <=> Has(ready, x) /\ x # h
  BY <1>1, <1>2, PopFront, Zenon
<1>4. frame[h] = "live"
  BY <1>3, Zenon DEF TaskInv, OnePlace
<1>5. \A x \in Roots : LifeOf(x)' = IF x = h THEN "running" ELSE LifeOf(x)
  <2> HIDE DEF h
  <2>1. current' = h
    BY <1>1, Zenon DEF h
  <2> QED
    BY <1>1, <1>2, <1>3, <1>4, <2>1, Zenon DEF LifeOf, Has, IsQueued
<1>6. Life' = [Life EXCEPT ![h] = "running"]
  BY <1>5, Zenon DEF Life
<1>7. Lifecycle!In("running") = {}
  BY <1>1, <1>2, LifeStages, Zenon DEF Lifecycle!In
<1> QED
  BY <1>1, <1>6, <1>7, Zenon DEF Lifecycle!LifeNext, Lifecycle!Resumed

\* drain_completed() destroys the completed frames, ~IoContext() all frames.
LEMMA LifeEnds ==
  ASSUME TaskInv, DrainCompleted \/ Destroy
  PROVE  Lifecycle!LifeNext
<1>0. /\ None \notin Roots /\ roots \in SUBSET Roots
      /\ frame \in [Roots -> {"unborn", "live", "returned", "threw", "destroyed"}]
      /\ roots = {r \in Roots : frame[r] \in {"live", "returned", "threw"}}
  BY IoContextAssumption, Zenon
  DEF TaskInv, TimerInv, RegInv, TypeInv, TypeOK, FramesOwned
<1>1. CASE DrainCompleted
  <2>1. /\ UNCHANGED <<ready, current>>
        /\ frame' = [r \in Roots |-> IF r \in Completed THEN "destroyed" ELSE frame[r]]
    BY <1>1, Zenon DEF DrainCompleted
  <2>2. \A x \in Roots :
          LifeOf(x)' = IF LifeOf(x) = "completed" THEN "destroyed" ELSE LifeOf(x)
    BY <1>0, <2>1, Zenon DEF LifeOf, IsQueued, Completed
  <2>3. Life' = [x \in Roots |->
                   IF Life[x] = "completed" THEN "destroyed" ELSE Life[x]]
    BY <2>2, Zenon DEF Life
  <2> QED
    BY <2>1, <2>3, Zenon DEF Lifecycle!LifeNext, Lifecycle!Drained
<1>2. CASE Destroy
  <2>1. /\ ready' = <<>> /\ current' = current /\ current = None
        /\ frame' = [r \in Roots |-> IF r \in roots THEN "destroyed" ELSE frame[r]]
    BY <1>2, Zenon DEF Destroy, TaskInv, TimerInv, RegInv, TypeInv, CurrentKnown
  <2>2. \A x \in Roots :
          LifeOf(x)' = IF LifeOf(x) = "unborn" THEN "unborn" ELSE "destroyed"
    BY <1>0, <2>1, Zenon DEF LifeOf, IsQueued
  <2>3. Life' = [x \in Roots |->
                   IF Life[x] = "unborn" THEN "unborn" ELSE "destroyed"]
    BY <2>2, Zenon DEF Life
  <2>4. Lifecycle!In("running") = {}
    BY <1>0, <2>1, LifeStages, Zenon DEF Lifecycle!In
  <2> QED
    BY <2>1, <2>3, <2>4, Zenon DEF Lifecycle!LifeNext, Lifecycle!TornDown
<1> QED
  BY <1>1, <1>2, Zenon

LEMMA LifeStep ==
  ASSUME TaskInv, [Next]_vars
  PROVE  [Lifecycle!LifeNext]_(Lifecycle!lifeVars)
<1> USE DEF taskVars, waitVars, control
<1>0. TypeOK
  BY Zenon DEF TaskInv, TimerInv, RegInv, TypeInv
<1>1. CASE UNCHANGED vars
  BY <1>1, LifeSame, Zenon DEF vars
<1>2. CASE UserStep
  <2>1. ASSUME NEW fd \in Fds, Cancel(fd) \/ Close(fd)
        PROVE  [Lifecycle!LifeNext]_(Lifecycle!lifeVars)
    BY <2>1, LifeCancel, Zenon DEF Cancel, Close
  <2>2. CASE \/ Stop \/ RunCall
             \/ \E fd \in Fds, e \in Event : WaitThrows(fd, e)
             \/ \E fd \in Fds, c \in {"in", "out"} : UseFd(fd, c)
    BY <2>2, LifeSame, Zenon DEF Stop, RunCall, WaitThrows, UseFd
  <2> QED
    BY <1>2, <2>1, <2>2, LifeSpawn, LifeEnds, Zenon DEF UserStep
<1>3. CASE LoopHead \/ RunReadyDone \/ ExpireDone \/ Check \/ PollForever
           \/ NoWakeSource \/ DispatchDone
           \/ \E t \in Tops : PruneTimer(t) \/ PollUntilTimer(t)
  BY <1>3, LifeSame, Zenon
  DEF LoopHead, RunReadyDone, ExpireDone, Check, PollForever, NoWakeSource,
      DispatchDone, PruneTimer, PollUntilTimer, LeaveRun, EnterExpire
<1>4. CASE PollStep \/ WorldStep
  BY <1>4, LifeSame, Zenon
  DEF PollStep, PollEvents, PollNothing, PollThrows, LeaveRun, EnterExpire,
      WorldStep, Tick, PeerActs
<1>5. ASSUME NEW t \in Tops, ExpireTimer(t) \/ ExpireThrows(t)
      PROVE  [Lifecycle!LifeNext]_(Lifecycle!lifeVars)
  <2>1. t.fd \in Fds /\ t.event \in Event
    BY <1>0, Zenon DEF Tops, TimerEntry, TypeOK
  <2>2. /\ UNCHANGED <<frame, current>>
        /\ complete(t.fd, t.event, FALSE) \/ ready' = ready
    BY <1>5, Zenon DEF ExpireTimer, ExpireThrows, complete_and_refresh,
                complete_then_mod_throws
  <2> QED
    BY <2>1, <2>2, LifeComplete, LifeSame, Zenon
<1>6. ASSUME NEW fd \in Fds, NEW e \in Event,
             DispatchRead(fd) \/ DispatchWrite(fd) \/ DispatchThrows(fd, e)
      PROVE  [Lifecycle!LifeNext]_(Lifecycle!lifeVars)
  <2>1. /\ UNCHANGED <<frame, current>>
        /\ (\E d \in Event : complete(fd, d, TRUE)) \/ ready' = ready
    BY <1>6, Zenon DEF DispatchRead, DispatchWrite, DispatchThrows, on_ready,
                complete_and_refresh, complete_then_mod_throws, Event
  <2> QED
    BY <2>1, LifeComplete, LifeSame, Zenon
<1>7. CASE TaskStep \/ RunReadyNext \/ DrainCompleted
  BY <1>7, LifeSuspends, LifeResumes, LifeEnds, Zenon
<1> QED
  BY <1>1, <1>2, <1>3, <1>4, <1>5, <1>6, <1>7, Zenon DEF Next, ExecutorStep, Event

LEMMA LifeStarts == Init => Lifecycle!LifeInit
<1> SUFFICES ASSUME Init PROVE Lifecycle!LifeInit
  BY Zenon
<1>1. \A r \in Roots : LifeOf(r) = "unborn"
  BY Zenon DEF Init, LifeOf
<1>2. Life = [r \in Roots |-> "unborn"]
  BY <1>1, Zenon DEF Life
<1> QED
  BY <1>2, Zenon DEF Init, Lifecycle!LifeInit

\* The executor implements the documented life cycle of a task: every step is
\* one of its transitions or moves no task, and ready_ is its FIFO queue.
THEOREM ImplementsLifecycle == Spec => RefinesLifecycle
<1>1. TaskInv /\ [Next]_vars => [Lifecycle!LifeNext]_(Lifecycle!lifeVars)
  BY LifeStep, Zenon
<1> QED
  BY <1>1, LifeStarts, TaskInvariant, PTL
  DEF Spec, RefinesLifecycle, Lifecycle!LifeSpec

----------------------------------------------------------------------------
(* The executor implements FdWaits, on which the transport is built.       *)

LEMMA WaitsSame ==
  ASSUME UNCHANGED <<slot, ready, result, clock>>
  PROVE  UNCHANGED Waits!waitVars
  BY Zenon DEF PlainSlot, Waits!waitVars

\* A slot without its token is empty exactly when the slot is.
LEMMA PlainSlots ==
  ASSUME TaskInv, NEW fd \in Fds, NEW e \in Event
  PROVE  /\ slot[fd][e] = None => PlainSlot[fd][e] = None
         /\ slot[fd][e] # None =>
              /\ PlainSlot[fd][e] # None
              /\ PlainSlot[fd][e].cont = slot[fd][e].cont
              /\ PlainSlot[fd][e].due = slot[fd][e].due
<1>1. CASE slot[fd][e] = None
  BY <1>1, Zenon DEF PlainSlot
<1>2. CASE slot[fd][e] # None
  <2> DEFINE p == [cont |-> slot[fd][e].cont, due |-> slot[fd][e].due]
  <2>1. PlainSlot[fd][e] = p
    BY <1>2, Zenon DEF PlainSlot
  <2>2. slot[fd][e].cont \in Roots /\ slot[fd][e].due \in Nat \cup {-1}
    BY <1>2, SMTT(90) DEF TaskInv, TimerInv, RegInv, TypeInv, TypeOK, WaitSlot
  <2>3. p \in [cont : Roots, due : Nat \cup {-1}]
    BY <2>2, Zenon
  <2>4. p # None
    BY <2>3, IoContextAssumption, Zenon
  <2>5. p.cont = slot[fd][e].cont /\ p.due = slot[fd][e].due
    BY Zenon
  <2> HIDE DEF p
  <2> QED
    BY <1>2, <2>1, <2>4, <2>5, Zenon
<1> QED
  BY <1>1, <1>2, Zenon

\* Only one slot changes.
LEMMA PlainUpdate ==
  ASSUME NEW fd \in Fds, NEW e \in Event, NEW STATE p, PlainSlot'[fd][e] = p,
         \A g \in Fds, d \in Event : ~(g = fd /\ d = e) => slot'[g][d] = slot[g][d]
  PROVE  PlainSlot' = [PlainSlot EXCEPT ![fd][e] = p]
<1> DEFINE P(s, g, d) == IF s[g][d] = None THEN None
                         ELSE [cont |-> s[g][d].cont, due |-> s[g][d].due]
<1>1. /\ PlainSlot = [g \in Fds |-> [d \in Event |-> P(slot, g, d)]]
      /\ PlainSlot' = [g \in Fds |-> [d \in Event |-> P(slot', g, d)]]
  BY Zenon DEF PlainSlot
<1>2. /\ \A g \in Fds, d \in Event : ~(g = fd /\ d = e) => P(slot', g, d) = P(slot, g, d)
      /\ P(slot', fd, e) = p
  BY <1>1, Zenon
<1> HIDE DEF P
<1>3. [PlainSlot EXCEPT ![fd][e] = p] =
        [g \in Fds |-> [d \in Event |-> IF g = fd /\ d = e THEN p ELSE P(slot, g, d)]]
  BY <1>1, Zenon
<1>4. \A g \in Fds, d \in Event :
        P(slot', g, d) = IF g = fd /\ d = e THEN p ELSE P(slot, g, d)
  BY <1>2, Zenon
<1>5. \A g \in Fds : [d \in Event |-> P(slot', g, d)] =
        [d \in Event |-> IF g = fd /\ d = e THEN p ELSE P(slot, g, d)]
  BY <1>4, Zenon
<1> QED
  BY <1>1, <1>3, <1>5, SMTT(30)

\* complete() ends the wait of its slot.
LEMMA WaitsComplete ==
  ASSUME TaskInv, NEW fd \in Fds, NEW e \in Event, NEW outcome,
         complete(fd, e, outcome), slot[fd][e] # None
  PROVE  Waits!Wake(fd, e, outcome)
<1>1. slot \in [Fds -> [Event -> WaitSlot \cup {None}]]
  BY Zenon DEF TaskInv, TimerInv, RegInv, TypeInv, TypeOK
<1>2. /\ PlainSlot[fd][e] # None
      /\ PlainSlot[fd][e].cont = slot[fd][e].cont
  BY PlainSlots, Zenon
<1>3. ready' = Append(ready, slot[fd][e].cont)
  BY CompleteMoves, Zenon
<1>4. result' = [result EXCEPT ![slot[fd][e].cont] = outcome]
  BY Zenon DEF complete, result_after
<1>5. \A g \in Fds, d \in Event :
        slot'[g][d] = IF g = fd /\ d = e THEN None ELSE slot[g][d]
  BY <1>1, Zenon DEF complete
<1>6. PlainSlot' = [PlainSlot EXCEPT ![fd][e] = None]
  <2>1. PlainSlot'[fd][e] = None
    BY <1>5, Zenon DEF PlainSlot
  <2> QED
    BY <1>5, <2>1, PlainUpdate, SMTT(30)
<1> QED
  BY <1>2, <1>3, <1>4, <1>6, Zenon DEF Waits!Wake

LEMMA WaitsCancel ==
  ASSUME TaskInv, NEW fd \in Fds, cancel(fd), UNCHANGED clock
  PROVE  [Waits!WaitsNext]_(Waits!waitVars)
<1>1. CASE fd \notin states
  BY <1>1, WaitsSame, Zenon DEF cancel
<1>2. CASE fd \in states
  <2> DEFINE rd == slot[fd]["READ"]
             wr == slot[fd]["WRITE"]
             prd == PlainSlot[fd]["READ"]
             pwr == PlainSlot[fd]["WRITE"]
  <2>1. /\ rd # None => frame[rd.cont] = "live"
        /\ wr # None => frame[wr.cont] = "live"
    BY ParkedIsLive, Zenon DEF Event
  <2>2. /\ rd = None => prd = None
        /\ rd # None => prd # None /\ prd.cont = rd.cont
        /\ wr = None => pwr = None
        /\ wr # None => pwr # None /\ pwr.cont = wr.cont
    BY PlainSlots, Zenon DEF Event
  <2>3. slot \in [Fds -> [Event -> WaitSlot \cup {None}]]
    BY Zenon DEF TaskInv, TimerInv, RegInv, TypeInv, TypeOK
  <2>4. \A g \in Fds, d \in Event : slot'[g][d] = IF g = fd THEN None ELSE slot[g][d]
    BY <1>2, <2>3, SMTT(30) DEF cancel
  <2>5. PlainSlot' = [PlainSlot EXCEPT ![fd] = [d \in Event |-> None]]
    BY <2>4, Zenon DEF PlainSlot
  <2>6. /\ ready' = queue_after(queue_after(ready, rd), wr)
        /\ result' = result_after(result_after(result, rd, FALSE), wr, FALSE)
    BY <1>2, Zenon DEF cancel
  <2> HIDE DEF rd, wr, prd, pwr
  <2>7. \A q : /\ queue_after(q, rd) = Waits!queue_after(q, prd)
               /\ queue_after(q, wr) = Waits!queue_after(q, pwr)
    BY <2>1, <2>2, Zenon DEF queue_after, schedule, Waits!queue_after
  <2>8. \A res : /\ result_after(res, rd, FALSE) = Waits!result_after(res, prd)
                 /\ result_after(res, wr, FALSE) = Waits!result_after(res, pwr)
    BY <2>2, Zenon DEF result_after, Waits!result_after
  <2>9. Waits!CancelWaits(fd)
    BY <2>5, <2>6, <2>7, <2>8, Zenon DEF Waits!CancelWaits, prd, pwr, Event, Waits!Event
  <2> QED
    BY <2>9, Zenon DEF Waits!WaitsNext
<1> QED
  BY <1>1, <1>2, Zenon

\* arm_wait() takes an empty slot; its deadline is still to come.
LEMMA WaitsPark ==
  ASSUME TaskInv, NEW fd \in Fds, NEW e \in Event,
         NEW timeout \in Timeouts \cup {kNoTimeout}, Wait(fd, e, timeout)
  PROVE  Waits!WaitsNext
<1> DEFINE due == DueOf(timeout)
           p == [cont |-> current, due |-> due]
<1>1. /\ slot \in [Fds -> [Event -> WaitSlot \cup {None}]] /\ next_token \in Nat
      /\ current \in Roots /\ clock \in Nat /\ UNCHANGED clock
  BY IoContextAssumption, Zenon
  DEF TaskInv, TimerInv, RegInv, TypeInv, TypeOK, CurrentKnown, Wait
<1>2. due = -1 \/ (due \in Nat /\ due >= clock)
  <2>1. TicksPerMs \in Nat /\ (timeout \in Nat \/ timeout = -1)
    BY IoContextAssumption, Zenon DEF kNoTimeout
  <2>2. CASE timeout \in Nat
    <3>1. timeout * TicksPerMs \in Nat
      BY <2>1, <2>2
    <3>2. due = clock + timeout * TicksPerMs
      BY <2>2 DEF DueOf
    <3> QED
      BY <1>1, <3>1, <3>2, SMTT(30)
  <2>3. CASE timeout = -1
    BY <2>3 DEF DueOf
  <2> QED
    BY <2>1, <2>2, <2>3, Zenon
<1> HIDE DEF due
<1>3. p \in [cont : Roots, due : Nat \cup {-1}]
  BY <1>1, <1>2, Zenon
<1>4. p # None
  BY <1>3, IoContextAssumption, Zenon
<1>5. NewWaiter(timeout) # None
      /\ NewWaiter(timeout).cont = current /\ NewWaiter(timeout).due = due
  <2>1. NewWaiter(timeout) \in WaitSlot
    BY <1>1, <1>2, Zenon DEF NewWaiter, WaitSlot, due
  <2> QED
    BY <2>1, IoContextAssumption, Zenon DEF NewWaiter, due
<1>6. \A g \in Fds, d \in Event :
        slot'[g][d] = IF g = fd /\ d = e THEN NewWaiter(timeout) ELSE slot[g][d]
  BY <1>1, Zenon DEF Wait
<1>7. PlainSlot[fd][e] = None
  BY PlainSlots, Zenon DEF Wait
<1>8. PlainSlot'[fd][e] = p
  BY <1>5, <1>6, Zenon DEF PlainSlot
<1>9. PlainSlot' = [PlainSlot EXCEPT ![fd][e] = p]
  <2> HIDE DEF p
  <2> QED
    BY <1>6, <1>8, PlainUpdate, SMTT(30)
<1>10. Waits!Park(fd, e, current, due)
  BY <1>7, <1>9, Zenon DEF Waits!Park, Wait
<1>11. Waits!Parks(fd, e)
  <2>1. p.due = due
    BY Zenon
  <2> HIDE DEF p
  <2>2. PlainSlot'[fd][e] # None /\ PlainSlot'[fd][e].due = due
    BY <1>4, <1>8, <2>1, Zenon
  <2> QED
    BY <1>1, <1>2, <1>10, <2>2, Zenon DEF Waits!Parks
<1> QED
  BY <1>1, <1>11, Zenon DEF Waits!WaitsNext, Event, Waits!Event

\* expire_timers() ends only waits that are due.
LEMMA WaitsExpire ==
  ASSUME TaskInv, NEW t \in timers, ExpireTimer(t) \/ ExpireThrows(t)
  PROVE  [Waits!WaitsNext]_(Waits!waitVars)
<1>1. /\ t.fd \in Fds /\ t.event \in Event /\ t.deadline \in Nat
      /\ clock \in Nat /\ now \in Nat
  BY Zenon DEF TimerEntry, TypeOK, TaskInv, TimerInv, RegInv, TypeInv
<1>2. UNCHANGED clock
  BY Zenon DEF ExpireTimer, ExpireThrows
<1>3. CASE timer_active(t) /\ complete(t.fd, t.event, FALSE)
  <2>1. slot[t.fd][t.event] # None /\ slot[t.fd][t.event].due = t.deadline
    BY <1>3, Zenon DEF timer_active, TaskInv, TimerInv, EntriesMatch
  <2>2. t.deadline <= now /\ now <= clock
    BY Zenon DEF ExpireTimer, ExpireThrows, TaskInv, TimerInv
  <2>3. PlainSlot[t.fd][t.event] # None /\ PlainSlot[t.fd][t.event].due = t.deadline
    BY <1>1, <2>1, PlainSlots, Zenon
  <2>4. 0 <= t.deadline /\ t.deadline <= clock
    BY <1>1, <2>2, SMTT(30)
  <2>5. Waits!WakeDue(t.fd, t.event)
    BY <1>1, <1>3, <2>1, <2>3, <2>4, WaitsComplete, Zenon DEF Waits!WakeDue
  <2> QED
    BY <1>1, <1>2, <2>5, Zenon DEF Waits!WaitsNext, Event, Waits!Event
<1>4. CASE UNCHANGED <<slot, ready, result>>
  BY <1>2, <1>4, WaitsSame, Zenon
<1> QED
  BY <1>3, <1>4, Zenon
  DEF ExpireTimer, ExpireThrows, complete_and_refresh, complete_then_mod_throws

\* A reported readiness wakes with true.
LEMMA WaitsDispatch ==
  ASSUME TaskInv, NEW fd \in Fds, NEW e \in Event,
         DispatchRead(fd) \/ DispatchWrite(fd) \/ DispatchThrows(fd, e)
  PROVE  [Waits!WaitsNext]_(Waits!waitVars)
<1>1. UNCHANGED clock
  BY Zenon DEF DispatchRead, DispatchWrite, DispatchThrows
<1>2. ASSUME NEW d \in Event, complete(fd, d, TRUE)
      PROVE  [Waits!WaitsNext]_(Waits!waitVars)
  <2>1. CASE slot[fd][d] = None
    BY <1>1, <1>2, <2>1, CompleteNothing, WaitsSame, Zenon
    DEF TaskInv, TimerInv, RegInv, TypeInv
  <2>2. CASE slot[fd][d] # None
    BY <1>1, <1>2, <2>2, WaitsComplete, Zenon DEF Waits!WaitsNext, Event, Waits!Event
  <2> QED
    BY <2>1, <2>2, Zenon
<1>3. CASE UNCHANGED <<slot, ready, result>>
  BY <1>1, <1>3, WaitsSame, Zenon
<1> QED
  BY <1>2, <1>3, Zenon
  DEF DispatchRead, DispatchWrite, DispatchThrows, on_ready,
      complete_and_refresh, complete_then_mod_throws, Event

\* The queue moves, or the executor is torn down.
LEMMA WaitsQueue ==
  ASSUME TaskInv,
         \/ \E r \in Roots : Spawn(r)
         \/ Yield \/ RunReadyNext \/ Destroy
         \/ \E fd \in Fds, e \in Event : WaitThrows(fd, e)
  PROVE  Waits!WaitsNext
<1> USE DEF taskVars, waitVars, control
<1>1. CASE \E r \in Roots : Spawn(r)
  <2>1. UNCHANGED PlainSlot
    BY <1>1, Zenon DEF Spawn, PlainSlot
  <2> QED
    BY <1>1, <2>1, Zenon DEF Spawn, Waits!WaitsNext, Waits!QueueMoves
<1>2. CASE Yield
  <2>1. UNCHANGED PlainSlot
    BY <1>2, Zenon DEF Yield, PlainSlot
  <2>2. current \in Roots /\ frame[current] = "live"
    BY <1>2, IoContextAssumption, Zenon
    DEF Yield, TaskInv, TimerInv, RegInv, TypeInv, TypeOK, CurrentKnown, OnePlace
  <2>3. ready' = Append(ready, current) /\ UNCHANGED <<result, clock>>
    BY <1>2, <2>2, Zenon DEF Yield, schedule
  <2> QED
    BY <2>1, <2>2, <2>3, Zenon DEF Waits!WaitsNext, Waits!QueueMoves
<1>3. CASE RunReadyNext
  <2>1. UNCHANGED PlainSlot
    BY <1>3, Zenon DEF RunReadyNext, PlainSlot
  <2> QED
    BY <1>3, <2>1, Zenon DEF RunReadyNext, Waits!WaitsNext, Waits!QueueMoves
<1>4. CASE Destroy
  <2>1. slot' = NoWaiters /\ ready' = <<>> /\ UNCHANGED <<result, clock>>
    BY <1>4, Zenon DEF Destroy
  <2>2. PlainSlot' = Waits!NoWaiters
    BY <2>1, Zenon DEF PlainSlot, NoWaiters, Waits!NoWaiters, Event, Waits!Event
  <2> QED
    BY <2>1, <2>2, Zenon DEF Waits!WaitsNext, Waits!TearDown
<1>5. CASE \E fd \in Fds, e \in Event : WaitThrows(fd, e)
  <2>1. UNCHANGED PlainSlot
    BY <1>5, Zenon DEF WaitThrows, PlainSlot
  <2>2. current \in Roots
    BY <1>5, IoContextAssumption, Zenon
    DEF WaitThrows, TaskInv, TimerInv, RegInv, TypeInv, TypeOK, CurrentKnown
  <2>3. result' = [result EXCEPT ![current] = FALSE] /\ UNCHANGED <<ready, clock>>
    BY <1>5, Zenon DEF WaitThrows
  <2> QED
    BY <2>1, <2>2, <2>3, Zenon DEF Waits!WaitsNext, Waits!ParkFails
<1> QED
  BY <1>1, <1>2, <1>3, <1>4, <1>5, Zenon

LEMMA WaitsStep ==
  ASSUME TaskInv, [Next]_vars
  PROVE  [Waits!WaitsNext]_(Waits!waitVars)
<1> USE DEF taskVars, waitVars, control
<1>1. CASE UNCHANGED vars
  BY <1>1, WaitsSame, Zenon DEF vars
<1>2. CASE UserStep
  <2>1. ASSUME NEW fd \in Fds, Cancel(fd) \/ Close(fd)
        PROVE  [Waits!WaitsNext]_(Waits!waitVars)
    BY <2>1, WaitsCancel, Zenon DEF Cancel, Close
  <2>2. CASE \/ Stop \/ RunCall \/ \E r \in Roots : SpawnThrows(r)
             \/ \E fd \in Fds, c \in {"in", "out"} : UseFd(fd, c)
    BY <2>2, WaitsSame, Zenon DEF Stop, RunCall, SpawnThrows, UseFd
  <2> QED
    BY <1>2, <2>1, <2>2, WaitsQueue, Zenon DEF UserStep
<1>3. CASE TaskStep
  <2>1. CASE AwaitForeign \/ \E how \in {"returned", "threw"} : Finish(how)
    BY <2>1, WaitsSame, Zenon DEF AwaitForeign, Finish
  <2> QED
    BY <1>3, <2>1, WaitsQueue, WaitsPark, Zenon DEF TaskStep
<1>4. CASE LoopHead \/ RunReadyDone \/ DrainCompleted \/ ExpireDone \/ Check
           \/ PollForever \/ NoWakeSource \/ DispatchDone
           \/ \E t \in Tops : PruneTimer(t) \/ PollUntilTimer(t)
  BY <1>4, WaitsSame, Zenon
  DEF LoopHead, RunReadyDone, DrainCompleted, ExpireDone, Check, PollForever,
      NoWakeSource, DispatchDone, PruneTimer, PollUntilTimer, LeaveRun, EnterExpire
<1>5. CASE PollStep \/ \E fd \in Fds, c \in Condition : PeerActs(fd, c)
  BY <1>5, WaitsSame, Zenon
  DEF PollStep, PollEvents, PollNothing, PollThrows, LeaveRun, EnterExpire, PeerActs
<1>6. CASE Tick
  <2>1. UNCHANGED PlainSlot
    BY <1>6, Zenon DEF Tick, PlainSlot
  <2> QED
    BY <1>6, <2>1, Zenon DEF Tick, Waits!WaitsNext
<1>7. CASE \E t \in Tops : ExpireTimer(t) \/ ExpireThrows(t)
  BY <1>7, WaitsExpire, Zenon DEF Tops
<1>8. CASE \/ \E fd \in Fds : DispatchRead(fd) \/ DispatchWrite(fd)
           \/ \E fd \in Fds, e \in Event : DispatchThrows(fd, e)
  BY <1>8, WaitsDispatch, Zenon DEF Event
<1> QED
  BY <1>1, <1>2, <1>3, <1>4, <1>5, <1>6, <1>7, <1>8, WaitsQueue, Zenon
  DEF Next, ExecutorStep, WorldStep

LEMMA WaitsStart == Init => Waits!WaitsInit
  BY SMTT(30) DEF Init, PlainSlot, NoWaiters, Waits!WaitsInit, Waits!NoWaiters, Event,
         Waits!Event

\* The executor gives the transport what it is built on: a wait ends once, by
\* readiness with true, or at its own deadline or by cancel() with false, and
\* the task goes to the end of the queue.
THEOREM ImplementsWaits == Spec => RefinesWaits
<1>1. TaskInv /\ [Next]_vars => [Waits!WaitsNext]_(Waits!waitVars)
  BY WaitsStep, Zenon
<1> QED
  BY <1>1, WaitsStart, TaskInvariant, PTL DEF Spec, RefinesWaits, Waits!WaitsSpec

=============================================================================
