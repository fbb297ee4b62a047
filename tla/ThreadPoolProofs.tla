-------------------------- MODULE ThreadPoolProofs --------------------------
(***************************************************************************)
(* ThreadPool for any number of workers, clients and tasks: on top of the   *)
(* queue and the semaphore (PoolQueueProofs), where a task is once it was   *)
(* taken out of the queue, and how often it ran.  No task runs twice, and   *)
(* shutdown() drains the queue.                                             *)
(***************************************************************************)
EXTENDS PoolQueueProofs, FiniteSetTheorems

----------------------------------------------------------------------------
(* The claimed tasks and the runs.                                         *)

\* A step of one thread that neither claims a position nor hands a task on.
LEMMA ClaimsQuiet ==
  ASSUME Claims, Counts, NEW t \in Threads, Only(t), UNCHANGED <<log, dequeue_pos, runs>>,
         Claimed(t)' <=> Claimed(t),
         Claimed(t) => pos'[t] = pos[t],
         at'[t] \in {"pop_free", "pop_ok"} => out'[t] = log[pos'[t] + 1],
         Workers \subseteq Threads
  PROVE  Claims' /\ Counts'
<1>1. \A w \in Workers : /\ Claimed(w)' <=> Claimed(w)
                         /\ Claimed(w) => pos'[w] = pos[w]
  BY Zenon DEF Only, Claimed
<1>2. \A i : Popped(i)' <=> Popped(i)
  BY <1>1, Zenon DEF Popped
<1>3. \A w \in Workers : at'[w] \in {"pop_free", "pop_ok"} => out'[w] = log[pos'[w] + 1]
  BY Zenon DEF Claims, Only
<1>4. Claims'
  BY <1>1, <1>3, Zenon DEF Claims
<1>5. Counts'
  BY <1>2, Zenon DEF Counts, Positions
<1> QED
  BY <1>4, <1>5, Zenon

LEMMA ClaimsPush ==
  ASSUME QueueInv, PoolTypeOK, Claims, Counts, NEW t \in Threads, InQueue(t), PushClaim(t)
  PROVE  Claims' /\ Counts'
<1>0. /\ log \in Seq(Tasks) /\ Len(log) \in Nat /\ Len(log) = enqueue_pos
      /\ dequeue_pos \in Nat /\ dequeue_pos <= enqueue_pos /\ arg[t] \in Tasks
      /\ \A w \in Threads : pos[w] \in Nat
      /\ Workers \subseteq Threads
  BY LogTyped, Typed, ThreadPoolAssumption, Zenon DEF QueueInv, Bounds, Carries, PushClaim, Tasks
<1>1. /\ Only(t) /\ UNCHANGED <<runs, dequeue_pos, pos, out>>
      /\ at[t] \in Trying /\ at'[t] = "push_data"
  BY InQueueMoves, QueueMoves, Zenon DEF poolVars, PushClaim
<1>2. \A w \in Workers : at'[w] = at[w] \/ (~Claimed(w) /\ ~Claimed(w)')
  BY <1>0, <1>1, Zenon DEF Claimed, Only, Trying
<1>3. log' = Append(log, arg[t])
  BY Zenon DEF PushClaim
<1>4. Len(log') = Len(log) + 1 /\ \A i \in 1..Len(log) : log'[i] = log[i]
  BY <1>0, <1>3, AppendFacts
<1>5. \A w \in Workers : Claimed(w)' <=> Claimed(w)
  BY <1>2, Zenon DEF Claimed
<1>6. \A i : Popped(i)' <=> Popped(i)
  BY <1>1, <1>5, Zenon DEF Popped
<1>7. ASSUME NEW w \in Workers, at'[w] \in {"pop_free", "pop_ok"}
      PROVE  out'[w] = log'[pos'[w] + 1]
  <2>1. Claimed(w) /\ at[w] \in {"pop_free", "pop_ok"}
    BY <1>2, <1>7, Zenon DEF Claimed
  <2>2. pos[w] + 1 \in 1..Len(log)
    BY <1>0, <2>1 DEF Claims
  <2> QED
    BY <1>1, <1>4, <2>1, <2>2, Zenon DEF Claims
<1>8. Claims'
  BY <1>1, <1>5, <1>7, Zenon DEF Claims
<1>9. ASSUME NEW i \in Nat, Popped(i), i > 0
      PROVE  i \in Positions
  BY <1>0, <1>9 DEF Popped, Positions
<1>10. \A x : (\E i \in Positions' : log'[i] = x /\ Popped(i)') <=>
              (\E i \in Positions : log[i] = x /\ Popped(i))
  BY <1>0, <1>4, <1>6, <1>9 DEF Positions
<1>11. Counts'
  BY <1>1, <1>10, Zenon DEF Counts
<1> QED
  BY <1>8, <1>11, Zenon

LEMMA ClaimsPop ==
  ASSUME QueueInv, PoolTypeOK, Control, Phases, Claims, Counts,
         NEW t \in Threads, InQueue(t), PopClaim(t)
  PROVE  Claims' /\ Counts'
<1>0. /\ dequeue_pos \in Nat /\ \A w \in Threads : pos[w] \in Nat
      /\ Workers \subseteq Threads
  BY Typed, ThreadPoolAssumption, Zenon
<1>1. /\ Only(t) /\ UNCHANGED <<runs, log, pos, out>> /\ dequeue_pos' = dequeue_pos + 1
      /\ at[t] \in Seeking /\ at'[t] = "pop_data" /\ pos[t] = dequeue_pos
  BY InQueueMoves, QueueMoves, Zenon DEF poolVars, PopClaim
<1>2. \A w \in Workers : w # t => at'[w] = at[w]
  BY <1>0, <1>1, Zenon DEF Only
<1>3. \A w \in Workers : Claimed(w)' <=> Claimed(w) \/ w = t
  BY <1>1, <1>2, Zenon DEF Claimed
<1>4. Claims'
  BY <1>0, <1>1, <1>2, <1>3 DEF Claims
<1>5. t \in Workers
  BY <1>1, Inside, Zenon DEF Seeking, InPop
<1>6. \A i \in Positions : Popped(i)' <=> Popped(i)
  BY <1>0, <1>1, <1>3, <1>5 DEF Popped, Positions
<1>7. Positions' = Positions
  BY <1>1, Zenon DEF Positions
<1>8. Counts'
  BY <1>1, <1>6, <1>7, Zenon DEF Counts
<1> QED
  BY <1>4, <1>8, Zenon

\* Calling the task that was popped.
LEMMA ClaimsBegin ==
  ASSUME QueueInv, PoolTypeOK, Control, Submitted, Claims, Counts,
         NEW w \in Workers, Begin(w)
  PROVE  /\ Claims' /\ Counts'
         /\ out[w] \in Tasks /\ Logged(out[w])
         /\ runs[out[w]] = 0 /\ runs'[out[w]] = 1
         /\ \A x \in Tasks : x # out[w] => runs'[x] = runs[x]
<1> DEFINE x == out[w]
<1>0. /\ log \in Seq(Tasks) /\ Len(log) \in Nat /\ Len(log) = enqueue_pos
      /\ dequeue_pos \in Nat /\ dequeue_pos <= enqueue_pos
      /\ \A v \in Threads : pos[v] \in Nat
      /\ Workers \subseteq Threads
      /\ \A i \in Positions : i \in Nat /\ log[i] \in Tasks
  BY LogTyped, Typed, ThreadPoolAssumption, Zenon DEF QueueInv, Bounds
<1>1. /\ at[w] = "pop_ok" /\ runs' = [runs EXCEPT ![x] = @ + 1]
      /\ UNCHANGED <<log, dequeue_pos>>
  BY Zenon DEF Begin, Return, ring
<1>2. Only(w) /\ at'[w] = "idle"
  BY WorkerMoves, Zenon DEF Moves
<1>3. \A v \in Workers : /\ Claimed(v)' <=> Claimed(v) /\ v # w
                         /\ v # w => pos'[v] = pos[v] /\ at'[v] = at[v] /\ out'[v] = out[v]
  BY <1>0, <1>2, Zenon DEF Only, Claimed
<1>4. Claimed(w)
  BY <1>1, Zenon DEF Claimed
<1>n. PICK n : n = pos[w] + 1
  BY Zenon
<1>5. n \in Positions /\ n <= dequeue_pos /\ log[n] = x
  BY <1>0, <1>1, <1>4, <1>n DEF Claims, Positions
<1>6. ~Popped(n) /\ Popped(n)'
  <2>1. \A v \in Workers : Claimed(v) /\ pos[v] + 1 = n => v = w
    BY <1>0, <1>4, <1>n DEF Claims
  <2>2. ~Popped(n)
    BY <1>4, <1>n, Zenon DEF Popped
  <2>3. \A v \in Workers : Claimed(v)' => pos'[v] + 1 # n
    BY <1>3, <2>1, Zenon
  <2> QED
    BY <1>1, <1>5, <2>2, <2>3, Zenon DEF Popped
<1>7. \A i \in Positions : i # n => (Popped(i)' <=> Popped(i))
  BY <1>0, <1>1, <1>3, <1>4, <1>n, Zenon DEF Popped
<1>8. Positions' = Positions
  BY <1>1, Zenon DEF Positions
<1>9. Claims'
  BY <1>1, <1>2, <1>3, Zenon DEF Claims
<1>10. x \in Tasks /\ Logged(x)
  BY <1>0, <1>5, Zenon DEF Logged
<1> HIDE DEF x
<1>11. \A i \in Positions : log[i] = x => i = n
  BY <1>5, Zenon DEF Submitted
<1>12. runs[x] = 0
  BY <1>6, <1>10, <1>11, Zenon DEF Counts
<1>13. DOMAIN runs = Tasks
  BY Zenon DEF PoolTypeOK
<1>14. runs'[x] = 1 /\ \A y \in Tasks : y # x => runs'[y] = runs[y]
  BY <1>1, <1>10, <1>12, <1>13
<1>15. ASSUME NEW y \in Tasks
       PROVE  /\ runs'[y] \in {0, 1}
              /\ runs'[y] = 1 <=> \E i \in Positions' : log'[i] = y /\ Popped(i)'
  <2>1. CASE y = x
    BY <1>1, <1>5, <1>6, <1>8, <1>14, <2>1, Zenon
  <2>2. CASE y # x
    <3>1. \A i \in Positions : log[i] = y => (Popped(i)' <=> Popped(i))
      BY <1>5, <1>7, <2>2, Zenon
    <3> QED
      BY <1>1, <1>8, <1>14, <2>2, <3>1, Zenon DEF Counts
  <2> QED
    BY <2>1, <2>2, Zenon
<1>16. Counts'
  BY <1>15, Zenon DEF Counts
<1> QED
  BY <1>9, <1>10, <1>12, <1>14, <1>16, Zenon DEF x

LEMMA ClaimsStep ==
  ASSUME QueueInv, PoolTypeOK, Control, Phases, Submitted, Claims, Counts, [PoolNext]_vars
  PROVE  Claims' /\ Counts'
<1>0. Workers \subseteq Threads
  BY ThreadPoolAssumption, Zenon
<1>1. ASSUME NEW t \in Threads, Only(t), UNCHANGED <<log, dequeue_pos, runs>>,
             ~Claimed(t), ~Claimed(t)'
      PROVE  Claims' /\ Counts'
  BY <1>0, <1>1, ClaimsQuiet, Zenon DEF Claimed
<1>2. ASSUME NEW t \in Threads, InQueue(t)
      PROVE  Claims' /\ Counts'
  <2>1. /\ Only(t) /\ UNCHANGED runs
        /\ \/ Searches(t) \/ PushClaim(t) \/ PushData(t) \/ PushPublish(t)
           \/ Looks(t) \/ PopClaim(t) \/ PopData(t) \/ PopFree(t)
    BY <1>2, InQueueMoves, Zenon DEF poolVars
  <2>2. CASE Searches(t) \/ PushData(t) \/ PushPublish(t) \/ Looks(t)
    <3>1. UNCHANGED <<log, dequeue_pos>>
      BY <2>2, QueueMoves, Zenon DEF ring, PushData, PushPublish
    <3>2. ~Claimed(t) /\ ~Claimed(t)'
      BY <2>2, QueueMoves, Zenon DEF Claimed, Trying, Seeking
    <3> QED
      BY <1>1, <2>1, <3>1, <3>2, Zenon
  <2>3. CASE PopData(t)
    <3>1. /\ at[t] = "pop_data" /\ at'[t] = "pop_free" /\ UNCHANGED <<log, dequeue_pos, pos>>
          /\ out' = [out EXCEPT ![t] = data[SlotOf(pos[t])]]
      BY <2>3, QueueMoves, Zenon DEF PopData
    <3>2. data[SlotOf(pos[t])] = log[pos[t] + 1]
      BY <3>1, Zenon DEF QueueInv, Consumers, Popping
    <3>3. out'[t] = log[pos'[t] + 1]
      BY <3>1, <3>2, Domains, Zenon
    <3> QED
      BY <1>0, <2>1, <3>1, <3>3, ClaimsQuiet, Zenon DEF Claimed
  <2>4. CASE PopFree(t)
    <3>1. /\ at[t] = "pop_free" /\ at'[t] = "pop_ok" /\ UNCHANGED <<log, dequeue_pos, pos, out>>
      BY <2>4, QueueMoves, Zenon DEF PopFree
    <3>2. t \in Workers
      BY <3>1, Inside, Zenon DEF InPop
    <3>3. out'[t] = log[pos'[t] + 1]
      BY <3>1, <3>2, Zenon DEF Claims
    <3> QED
      BY <1>0, <2>1, <3>1, <3>3, ClaimsQuiet, Zenon DEF Claimed
  <2> QED
    BY <1>2, <2>1, <2>2, <2>3, <2>4, ClaimsPush, ClaimsPop, Zenon
<1>3. ASSUME NEW t \in Threads, NEW x \in Tasks, Submit(t, x)
      PROVE  Claims' /\ Counts'
  <2>1. Only(t) /\ at'[t] = "push_load" /\ at[t] = "idle" /\ UNCHANGED <<log, dequeue_pos, runs>>
    BY <1>3, SubmitMoves, Zenon DEF Submit, Push, ring, Moves
  <2> QED
    BY <1>1, <2>1, Zenon DEF Claimed
<1>4. ASSUME NEW t \in Threads, SubmitRefused(t) \/ SubmitUnlock(t)
      PROVE  Claims' /\ Counts'
  <2>1. /\ Only(t) /\ at'[t] = "idle" /\ at[t] \in {"push_ok", "push_failed"}
        /\ UNCHANGED <<log, dequeue_pos, runs>>
    BY <1>4, SubmitMoves, Zenon DEF SubmitRefused, SubmitUnlock, Return, ring, Moves, Control, Fits
  <2> QED
    BY <1>1, <2>1, Zenon DEF Claimed
<1>5. ASSUME NEW w \in Workers, Acquire(w) \/ PopFails(w)
      PROVE  Claims' /\ Counts'
  <2>1. /\ Only(w) /\ at'[w] \in {"idle", "pop_load"} /\ at[w] \in {"idle", "pop_failed"}
        /\ UNCHANGED <<log, dequeue_pos, runs>>
    BY <1>5, WorkerMoves, Zenon DEF Acquire, PopFails, Pop, Return, ring, Moves
  <2> QED
    BY <1>0, <1>1, <2>1, Zenon DEF Claimed
<1>6. ASSUME NEW w \in Workers, Begin(w)
      PROVE  Claims' /\ Counts'
  BY <1>6, ClaimsBegin, Zenon
<1>7. CASE OffQueue
  <2>1. UNCHANGED <<at, pos, out, log, dequeue_pos>>
    BY <1>7, OffQueueKeeps, Zenon DEF queueVars, calls, ring
  <2>2. runs' = runs
    BY <1>7, Zenon DEF OffQueue, vars, poolVars, ConstructStep, StartWorker, Constructed,
      ConstructFails, Shutdown, ShutdownStep, RequestStop, ReleaseWorkers, ShutdownUnlock, Join,
      take_errors, SubmitTooLate, SubmitRelease, TestStop, TaskReturns, TaskThrows, Catch
  <2> QED
    BY <2>1, <2>2 DEF Claims, Counts, Claimed, Popped, Positions
<1> QED
  BY <1>2, <1>3, <1>4, <1>5, <1>6, <1>7, PoolSteps, Zenon

----------------------------------------------------------------------------
(* The running tasks and their exceptions.                                 *)

LEMMA RunningQuiet ==
  ASSUME Running, Caught, UNCHANGED <<running, runs, fate, errors, taken>>,
         \A w \in Workers : /\ InTask(w)' <=> InTask(w)
                            /\ where'[w] = "catch" <=> where[w] = "catch"
  PROVE  Running' /\ Caught'
BY DEF Running, Caught

\* A task that was not called neither runs nor has ended.
LEMMA Uncalled ==
  ASSUME Running, Caught, NEW x \in Tasks, runs[x] # 1
  PROVE  /\ \A w \in Workers : running[w] # x
         /\ fate[x] \notin {"returned", "threw"}
<1>1. Nothing \notin Tasks
  BY MPMCQueueAssumption, Zenon DEF Tasks
<1> QED
  BY <1>1, Zenon DEF Running

\* A step that changes the fate of one task, which has not been called or
\* stays submitted.
LEMMA RunningFate ==
  ASSUME Running, Caught, NEW x \in Tasks, UNCHANGED <<running, runs, errors, taken>>,
         \A w \in Workers : /\ InTask(w)' <=> InTask(w)
                            /\ where'[w] = "catch" <=> where[w] = "catch",
         \A y \in Tasks : y # x => fate'[y] = fate[y],
         fate'[x] \notin {"returned", "threw"}, fate[x] \notin {"returned", "threw"},
         runs[x] = 1 => fate'[x] \in {"submitted", "accepted"}
  PROVE  Running' /\ Caught'
<1>1. \A w \in Workers :
        IF InTask(w)'
          THEN /\ running'[w] \in Tasks
               /\ runs'[running'[w]] = 1
               /\ IF where'[w] = "catch" THEN fate'[running'[w]] = "threw"
                  ELSE fate'[running'[w]] \in {"submitted", "accepted"}
          ELSE running'[w] = Nothing
  BY DEF Running
<1>2. \A y \in Tasks : fate'[y] \in {"returned", "threw"} <=> fate[y] \in {"returned", "threw"}
  BY Zenon
<1>3. \A y \in Tasks : fate'[y] = "threw" <=> fate[y] = "threw"
  BY Zenon
<1>4. Running'
  BY <1>1, <1>2 DEF Running
<1>5. Caught'
  BY <1>3 DEF Caught
<1> QED
  BY <1>4, <1>5, Zenon

LEMMA RunningSubmit ==
  ASSUME QueueInv, PoolTypeOK, Control, Phases, Submitted, Counts, Running, Caught,
         NEW t \in Threads,
         \/ \E x \in Tasks : Submit(t, x) \/ SubmitTooLate(t, x)
         \/ SubmitStep(t)
  PROVE  Running' /\ Caught'
<1>0. DOMAIN fate = Tasks /\ Workers \subseteq Threads
  BY ThreadPoolAssumption, Zenon DEF PoolTypeOK
<1>1. ASSUME NEW x \in Tasks, ~Logged(x)
      PROVE  runs[x] # 1 /\ fate[x] \notin {"returned", "threw"}
  <2>1. runs[x] # 1
    BY <1>1, Zenon DEF Counts, Logged
  <2> QED
    BY <2>1, Uncalled, Zenon
<1>2. ASSUME Only(t), where[t] \in {"user", "run", "submit", "unlock"},
             where'[t] \in {"user", "run", "submit", "unlock"},
             t \in Workers => where[t] # "user" /\ where'[t] # "user"
      PROVE  \A w \in Workers : /\ InTask(w)' <=> InTask(w)
                                /\ where'[w] = "catch" <=> where[w] = "catch"
  BY <1>0, <1>2, Zenon DEF Only, InTask
<1>3. \A w \in Workers : where[w] # "user"
  BY <1>0, Zenon DEF Control, Fits
<1>4. ASSUME NEW x \in Tasks, Submit(t, x)
      PROVE  Running' /\ Caught'
  <2>1. /\ Moves(t, "submit", "push_load") /\ where[t] \in {"user", "run"}
        /\ fate[x] = "new" /\ fate' = [fate EXCEPT ![x] = "submitted"]
        /\ UNCHANGED <<running, runs, errors, taken>>
    BY <1>4, SubmitMoves, Zenon DEF Submit
  <2>2. \A w \in Workers : /\ InTask(w)' <=> InTask(w)
                           /\ where'[w] = "catch" <=> where[w] = "catch"
    BY <1>2, <1>3, <2>1, Zenon DEF Moves
  <2>3. runs[x] # 1
    BY <1>1, <2>1, Zenon DEF Submitted, Kept
  <2>4. fate'[x] = "submitted" /\ \A y \in Tasks : y # x => fate'[y] = fate[y]
    BY <1>0, <2>1, Zenon
  <2> QED
    BY <2>1, <2>2, <2>3, <2>4, RunningFate, Zenon
<1>5. ASSUME NEW x \in Tasks, SubmitTooLate(t, x)
      PROVE  Running' /\ Caught'
  <2>1. /\ where' = where /\ fate[x] = "new" /\ fate' = [fate EXCEPT ![x] = "refused"]
        /\ UNCHANGED <<running, runs, errors, taken>>
    BY <1>5, Zenon DEF SubmitTooLate
  <2>2. runs[x] # 1
    BY <1>1, <2>1, Zenon DEF Submitted, Kept
  <2>3. fate'[x] = "refused" /\ \A y \in Tasks : y # x => fate'[y] = fate[y]
    BY <1>0, <2>1, Zenon
  <2> QED
    BY <2>1, <2>2, <2>3, RunningFate, Zenon DEF InTask
<1>6. CASE SubmitRefused(t)
  <2>1. /\ Moves(t, IF t \in Workers THEN "run" ELSE "user", "idle") /\ where[t] = "submit"
        /\ at[t] = "push_failed" /\ fate' = [fate EXCEPT ![arg[t]] = "refused"]
        /\ UNCHANGED <<running, runs, errors, taken>>
    BY <1>6, SubmitMoves, Zenon DEF SubmitRefused
  <2>2. arg[t] \in Tasks /\ ~Logged(arg[t])
    BY <2>1, Zenon DEF Submitted, Placed, InSubmit, Committed
  <2>3. \A w \in Workers : /\ InTask(w)' <=> InTask(w)
                           /\ where'[w] = "catch" <=> where[w] = "catch"
    BY <1>2, <2>1, Zenon DEF Moves
  <2>4. fate'[arg[t]] = "refused" /\ \A y \in Tasks : y # arg[t] => fate'[y] = fate[y]
    BY <1>0, <2>1, <2>2, Zenon
  <2> QED
    BY <1>1, <2>1, <2>2, <2>3, <2>4, RunningFate, Zenon
<1>7. CASE SubmitRelease(t)
  <2>1. /\ Moves(t, "unlock", "push_ok") /\ where[t] = "submit"
        /\ UNCHANGED <<running, runs, fate, errors, taken>>
    BY <1>7, SubmitMoves, Zenon DEF SubmitRelease
  <2>2. \A w \in Workers : /\ InTask(w)' <=> InTask(w)
                           /\ where'[w] = "catch" <=> where[w] = "catch"
    BY <1>2, <2>1, Zenon DEF Moves
  <2> QED
    BY <2>1, <2>2, RunningQuiet, Zenon
<1>8. CASE SubmitUnlock(t)
  <2>1. /\ Moves(t, IF t \in Workers THEN "run" ELSE "user", "idle") /\ where[t] = "unlock"
        /\ fate' = [fate EXCEPT ![arg[t]] = IF @ = "submitted" THEN "accepted" ELSE @]
        /\ UNCHANGED <<running, runs, errors, taken>>
    BY <1>8, SubmitMoves, Zenon DEF SubmitUnlock
  <2>2. arg[t] \in Tasks
    BY <2>1, Zenon DEF Submitted, Placed, InSubmit
  <2>3. \A w \in Workers : /\ InTask(w)' <=> InTask(w)
                           /\ where'[w] = "catch" <=> where[w] = "catch"
    BY <1>2, <2>1, Zenon DEF Moves
  <2>4. /\ fate'[arg[t]] = IF fate[arg[t]] = "submitted" THEN "accepted" ELSE fate[arg[t]]
        /\ \A y \in Tasks : y # arg[t] => fate'[y] = fate[y]
    BY <1>0, <2>1, <2>2, Zenon
  <2>5. CASE fate[arg[t]] = "submitted"
    BY <2>1, <2>2, <2>3, <2>4, <2>5, RunningFate
  <2>6. CASE fate[arg[t]] # "submitted"
    <3>1. fate \in [Tasks -> Fates]
      BY Zenon DEF PoolTypeOK
    <3>2. fate' = fate
      BY <2>1, <2>2, <2>6, <3>1, Zenon
    <3> QED
      BY <2>1, <2>3, <3>2, RunningQuiet, Zenon
  <2> QED
    BY <2>5, <2>6, Zenon
<1> QED
  BY <1>4, <1>5, <1>6, <1>7, <1>8, Zenon DEF SubmitStep

LEMMA RunningBegin ==
  ASSUME QueueInv, PoolTypeOK, Control, Submitted, Claims, Counts, Running, Caught,
         NEW w \in Workers, Begin(w)
  PROVE  Running' /\ Caught'
<1> DEFINE x == out[w]
<1>0. DOMAIN running = Workers /\ Workers \subseteq Threads /\ Nothing \notin Tasks
  BY ThreadPoolAssumption, MPMCQueueAssumption, Zenon DEF PoolTypeOK, Tasks
<1>1. /\ x \in Tasks /\ Logged(x) /\ runs[x] = 0 /\ runs'[x] = 1
      /\ \A y \in Tasks : y # x => runs'[y] = runs[y]
  BY ClaimsBegin, Zenon
<1>2. /\ Only(w) /\ where'[w] = "run" /\ where[w] = "pop"
      /\ running' = [running EXCEPT ![w] = x] /\ UNCHANGED <<fate, errors, taken>>
  BY WorkerMoves, Zenon DEF Moves, Begin
<1> HIDE DEF x
<1>3. (\A v \in Workers : running[v] # x) /\ fate[x] \notin {"returned", "threw"}
  BY <1>1, Uncalled
<1>4. fate[x] \in {"submitted", "accepted"}
  BY <1>1, <1>3, Zenon DEF Submitted, Kept
<1>5. running'[w] = x /\ \A v \in Workers : v # w => running'[v] = running[v]
  BY <1>0, <1>2, Zenon
<1>6. \A v \in Workers : v # w => where'[v] = where[v]
  BY <1>0, <1>2, Zenon DEF Only
<1>7. running[w] = Nothing
  BY <1>2, Zenon DEF Running, InTask
<1>8. \A v \in Workers :
        IF InTask(v)'
          THEN /\ running'[v] \in Tasks
               /\ runs'[running'[v]] = 1
               /\ IF where'[v] = "catch" THEN fate'[running'[v]] = "threw"
                  ELSE fate'[running'[v]] \in {"submitted", "accepted"}
          ELSE running'[v] = Nothing
  <2>1. ASSUME NEW v \in Workers, v # w
        PROVE  IF InTask(v)'
          THEN /\ running'[v] \in Tasks
               /\ runs'[running'[v]] = 1
               /\ IF where'[v] = "catch" THEN fate'[running'[v]] = "threw"
                  ELSE fate'[running'[v]] \in {"submitted", "accepted"}
          ELSE running'[v] = Nothing
    BY <1>1, <1>2, <1>3, <1>5, <1>6, <2>1 DEF Running, InTask
  <2> QED
    BY <1>1, <1>2, <1>4, <1>5, <2>1 DEF InTask
<1>9. \A v, u \in Workers : running'[v] = running'[u] /\ running'[v] # Nothing => v = u
  BY <1>3, <1>5 DEF Running
<1>10. \A y \in Tasks :
         /\ runs'[y] = 1 => \/ fate'[y] \in {"returned", "threw"}
                            \/ \E v \in Workers : running'[v] = y
         /\ fate'[y] \in {"returned", "threw"} => runs'[y] = 1
  BY <1>0, <1>1, <1>2, <1>3, <1>5, <1>7 DEF Running
<1>11. Caught'
  BY <1>2, <1>5, <1>6, <1>7 DEF Caught
<1> QED
  BY <1>8, <1>9, <1>10, <1>11, Zenon DEF Running

LEMMA RunningEnd ==
  ASSUME PoolTypeOK, Control, Running, Caught, NEW w \in Workers,
         TaskReturns(w) \/ TaskThrows(w) \/ Catch(w)
  PROVE  Running' /\ Caught'
<1> DEFINE x == running[w]
<1>0. /\ DOMAIN running = Workers /\ Workers \subseteq Threads /\ Nothing \notin Tasks
      /\ DOMAIN fate = Tasks
  BY ThreadPoolAssumption, MPMCQueueAssumption, Zenon DEF PoolTypeOK, Tasks
<1>1. /\ Only(w) /\ where[w] \in {"run", "catch"} /\ runs' = runs
      /\ where'[w] \in {"acquire", "catch"} /\ taken' = taken
  BY WorkerMoves, Zenon DEF Moves, TaskReturns, TaskThrows, Catch
<1>2. x \in Tasks /\ runs[x] = 1 /\ x # Nothing
  BY <1>0, <1>1, Zenon DEF Running, InTask
<1>3. \A v \in Workers : v # w => where'[v] = where[v] /\ running[v] # x
  BY <1>0, <1>1, <1>2, Zenon DEF Only, Running
<1>4. CASE TaskReturns(w)
  <2>1. /\ where'[w] = "acquire" /\ where[w] = "run" /\ errors' = errors
        /\ fate' = [fate EXCEPT ![x] = "returned"]
        /\ running' = [running EXCEPT ![w] = Nothing]
    BY <1>4, WorkerMoves, Zenon DEF Moves, TaskReturns
  <2> HIDE DEF x
  <2>2. fate'[x] = "returned" /\ \A y \in Tasks : y # x => fate'[y] = fate[y]
    BY <1>0, <1>2, <2>1, Zenon
  <2>3. running'[w] = Nothing /\ \A v \in Workers : v # w => running'[v] = running[v]
    BY <1>0, <2>1, Zenon
  <2>4. x = running[w]
    BY Zenon DEF x
  <2>5. fate[x] # "threw"
    BY <2>1, <2>4, Zenon DEF Running, InTask
  <2>6. Running'
    BY <1>1, <1>2, <1>3, <2>1, <2>2, <2>3, <2>4 DEF Running, InTask
  <2>7. Caught'
    BY <1>1, <1>3, <2>1, <2>2, <2>3, <2>5 DEF Caught
  <2> QED
    BY <2>6, <2>7, Zenon
<1>5. CASE TaskThrows(w)
  <2>1. /\ where'[w] = "catch" /\ where[w] = "run" /\ UNCHANGED <<errors, running>>
        /\ fate' = [fate EXCEPT ![x] = "threw"]
    BY <1>5, WorkerMoves, Zenon DEF Moves, TaskThrows
  <2> HIDE DEF x
  <2>2. fate'[x] = "threw" /\ \A y \in Tasks : y # x => fate'[y] = fate[y]
    BY <1>0, <1>2, <2>1, Zenon
  <2>3. x = running[w]
    BY Zenon DEF x
  <2>4. Running'
    BY <1>1, <1>2, <1>3, <2>1, <2>2, <2>3 DEF Running, InTask
  <2>5. Caught'
    BY <1>1, <1>3, <2>1, <2>2, <2>3 DEF Caught
  <2> QED
    BY <2>4, <2>5, Zenon
<1>6. CASE Catch(w)
  <2>1. /\ where'[w] = "acquire" /\ where[w] = "catch" /\ fate' = fate
        /\ errors' = errors \cup {x}
        /\ running' = [running EXCEPT ![w] = Nothing]
    BY <1>6, WorkerMoves, Zenon DEF Moves, Catch
  <2> HIDE DEF x
  <2>2. running'[w] = Nothing /\ \A v \in Workers : v # w => running'[v] = running[v]
    BY <1>0, <2>1, Zenon
  <2>3. x = running[w]
    BY Zenon DEF x
  <2>4. fate[x] = "threw"
    BY <2>1, <2>3, Zenon DEF Running, InTask
  <2>5. Running'
    BY <1>1, <1>2, <1>3, <2>1, <2>2, <2>3, <2>4 DEF Running, InTask
  <2>6. Caught'
    BY <1>1, <1>2, <1>3, <2>1, <2>2, <2>3, <2>4 DEF Caught
  <2> QED
    BY <2>5, <2>6, Zenon
<1> QED
  BY <1>4, <1>5, <1>6, Zenon

LEMMA RunningStep ==
  ASSUME QueueInv, PoolTypeOK, Control, Phases, Submitted, Claims, Counts, Running, Caught,
         [PoolNext]_vars
  PROVE  Running' /\ Caught'
<1>0. Owner \in Threads /\ Workers \subseteq Threads /\ Workers \cap Clients = {} /\ Owner \notin Workers
  BY ThreadPoolAssumption, Zenon
<1>1. ASSUME NEW t \in Threads, Only(t), UNCHANGED <<running, runs, fate, errors, taken>>,
             t \in Workers => /\ where[t] \notin {"run", "submit", "unlock", "catch"}
                              /\ where'[t] \notin {"run", "submit", "unlock", "catch"}
      PROVE  Running' /\ Caught'
  <2>1. \A w \in Workers : /\ InTask(w)' <=> InTask(w)
                           /\ where'[w] = "catch" <=> where[w] = "catch"
    BY <1>0, <1>1, Zenon DEF Only, InTask
  <2> QED
    BY <1>1, <2>1, RunningQuiet, Zenon
<1>2. ASSUME UNCHANGED poolVars
      PROVE  Running' /\ Caught'
  BY <1>2, RunningQuiet, Zenon DEF poolVars, InTask
<1>3. CASE Constructed
  <2>1. /\ UNCHANGED <<running, runs, fate, errors, taken>>
        /\ \A t \in Threads : where'[t] = IF t \in Clients THEN "user" ELSE where[t]
    BY <1>3, Zenon DEF Constructed
  <2>2. \A w \in Workers : where'[w] = where[w]
    BY <1>0, <2>1, Zenon
  <2> QED
    BY <2>1, <2>2, RunningQuiet, Zenon DEF InTask
<1>4. ASSUME NEW w \in Workers, StartWorker(w)
      PROVE  Running' /\ Caught'
  <2>1. /\ Moves(w, "acquire", "idle") /\ where[w] = "unborn"
        /\ UNCHANGED <<running, runs, fate, errors, taken>>
    BY <1>4, ClientMoves, Zenon DEF StartWorker
  <2> QED
    BY <1>0, <1>1, <2>1, Zenon DEF Moves
<1>5. ASSUME NEW w \in Workers, Acquire(w) \/ PopFails(w) \/ TestStop(w)
      PROVE  Running' /\ Caught'
  <2>1. Only(w) /\ where'[w] \in {"pop", "test", "exited", "acquire"}
    BY <1>5, WorkerMoves, Zenon DEF Moves
  <2>2. /\ where[w] \in {"acquire", "pop", "test"}
        /\ UNCHANGED <<running, runs, fate, errors, taken>>
    BY <1>5, Zenon DEF Acquire, PopFails, TestStop
  <2> QED
    BY <1>0, <1>1, <2>1, <2>2, Zenon
<1>6. CASE Shutdown \/ ConstructFails \/ ReleaseWorkers \/ ShutdownUnlock \/ Join
  <2>1. Only(Owner)
    BY <1>6, ClientMoves, Zenon DEF Moves
  <2>2. UNCHANGED <<running, runs, fate, errors, taken>>
    BY <1>6, Zenon DEF Shutdown, ConstructFails, ReleaseWorkers, ShutdownUnlock, Join
  <2> QED
    BY <1>0, <1>1, <2>1, <2>2, Zenon
<1>7. CASE take_errors
  <2>1. /\ UNCHANGED <<where, running, runs, fate>>
        /\ taken' = taken \cup errors /\ errors' = {}
    BY <1>7, Zenon DEF take_errors
  <2>2. Running'
    BY <2>1, Zenon DEF Running, InTask
  <2>3. Caught'
    BY <2>1 DEF Caught
  <2> QED
    BY <2>2, <2>3, Zenon
<1>8. ASSUME NEW w \in Workers, RequestStop(w)
      PROVE  Running' /\ Caught'
  BY <1>8, RunningQuiet, Zenon DEF RequestStop, InTask
<1>9. ASSUME NEW t \in Threads, InQueue(t)
      PROVE  Running' /\ Caught'
  BY <1>2, <1>9, Zenon DEF InQueue
<1>10. ASSUME NEW w \in Workers, TaskReturns(w) \/ TaskThrows(w) \/ Catch(w)
       PROVE  Running' /\ Caught'
  BY <1>10, RunningEnd, Zenon
<1>11. ASSUME NEW w \in Workers, Begin(w)
       PROVE  Running' /\ Caught'
  BY <1>11, RunningBegin, Zenon
<1>12. ASSUME NEW t \in Threads,
              \/ \E x \in Tasks : Submit(t, x) \/ SubmitTooLate(t, x)
              \/ SubmitStep(t)
       PROVE  Running' /\ Caught'
  BY <1>12, RunningSubmit, Zenon
<1>13. CASE UNCHANGED vars
  BY <1>2, <1>13, Zenon DEF vars
<1> QED
  BY <1>3, <1>4, <1>5, <1>6, <1>7, <1>8, <1>9, <1>10, <1>11, <1>12, <1>13, Zenon
  DEF PoolNext, ConstructStep, WorkerStep, ShutdownStep

----------------------------------------------------------------------------
(* The types.                                                              *)

LEMMA PoolTypeStep ==
  ASSUME Counted, QueueInv, QueueInv', PoolTypeOK, Control, Submitted, Claims, Counts, Running,
         [PoolNext]_vars
  PROVE  PoolTypeOK'
<1>0. /\ QueueTypeOK' /\ Owner \in Threads /\ Workers \subseteq Threads
      /\ NoThread \notin Threads
  BY ThreadPoolAssumption, Zenon DEF QueueInv
<1>s. Cardinality(Started) \in Nat
  <2>1. Started \in SUBSET Workers
    BY Zenon DEF Started
  <2> QED
    BY <2>1, Zenon DEF Counted
<1> USE DEF PoolTypeOK, Enter, Spots
<1>1. CASE UNCHANGED vars
  BY <1>0, <1>1, Zenon DEF vars, poolVars
<1>2. CASE Constructed
  BY <1>0, <1>2, Zenon DEF Constructed
<1>3. ASSUME NEW w \in Workers, StartWorker(w)
      PROVE  PoolTypeOK'
  BY <1>0, <1>3, Zenon DEF StartWorker
<1>4. ASSUME NEW t \in Threads, NEW x \in Tasks, Submit(t, x) \/ SubmitTooLate(t, x)
      PROVE  PoolTypeOK'
  BY <1>0, <1>4, Zenon DEF Submit, SubmitTooLate, Fates
<1>5. ASSUME NEW t \in Threads, InQueue(t)
      PROVE  PoolTypeOK'
  BY <1>0, <1>5, Zenon DEF InQueue, poolVars
<1>6. ASSUME NEW t \in Threads, SubmitRelease(t)
      PROVE  PoolTypeOK'
  BY <1>0, <1>6 DEF SubmitRelease
<1>7. ASSUME NEW t \in Threads, SubmitRefused(t) \/ SubmitUnlock(t)
      PROVE  PoolTypeOK'
  BY <1>0, <1>7 DEF SubmitRefused, SubmitUnlock, LeaveSubmit, Fates
<1>8. ASSUME NEW w \in Workers, Acquire(w) \/ PopFails(w) \/ TestStop(w)
      PROVE  PoolTypeOK'
  BY <1>0, <1>8 DEF Acquire, PopFails, TestStop
<1>9. ASSUME NEW w \in Workers, Begin(w)
      PROVE  PoolTypeOK'
  <2>1. out[w] \in Tasks
    BY <1>9, ClaimsBegin, Zenon
  <2> QED
    BY <1>0, <1>9, <2>1 DEF Begin
<1>10. ASSUME NEW w \in Workers, TaskReturns(w) \/ TaskThrows(w) \/ Catch(w)
       PROVE  PoolTypeOK'
  <2>1. running[w] \in Tasks
    BY <1>10, Zenon DEF TaskReturns, TaskThrows, Catch, Running, InTask
  <2>2. CASE TaskReturns(w)
    BY <1>0, <2>1, <2>2, Zenon DEF TaskReturns, Fates
  <2>3. CASE TaskThrows(w)
    BY <1>0, <2>1, <2>3, Zenon DEF TaskThrows, Fates
  <2>4. CASE Catch(w)
    BY <1>0, <2>1, <2>4, Zenon DEF Catch
  <2> QED
    BY <1>10, <2>2, <2>3, <2>4, Zenon
<1>11. CASE Shutdown
  BY <1>0, <1>11, Zenon DEF Shutdown
<1>12. CASE ConstructFails \/ ShutdownUnlock \/ Join
  BY <1>0, <1>12, Zenon DEF ConstructFails, ShutdownUnlock, Join
<1>13. CASE ReleaseWorkers
  BY <1>0, <1>s, <1>13 DEF ReleaseWorkers
<1>14. ASSUME NEW w \in Workers, RequestStop(w)
       PROVE  PoolTypeOK'
  BY <1>0, <1>14, Zenon DEF RequestStop
<1>15. CASE take_errors
  BY <1>0, <1>15, Zenon DEF take_errors
<1> HIDE DEF PoolTypeOK
<1> QED
  BY <1>1, <1>2, <1>3, <1>4, <1>5, <1>6, <1>7, <1>8, <1>9, <1>10, <1>11, <1>12, <1>13, <1>14,
     <1>15, Zenon
  DEF PoolNext, ConstructStep, SubmitStep, WorkerStep, ShutdownStep

----------------------------------------------------------------------------
(* The invariant holds.                                                    *)

LEMMA PoolInvInit ==
  ASSUME Counted, PoolInit
  PROVE  PoolInv
<1>0. /\ Owner \in Threads /\ Owner \in Clients /\ Owner \notin Workers /\ Workers # {}
      /\ Workers \subseteq Threads /\ \A t \in Threads : t \in Workers <=> t \notin Clients
  BY ThreadPoolAssumption, Zenon
<1>1. /\ \A t \in Threads : /\ where[t] = IF t \in Workers THEN "unborn"
                                          ELSE IF t = Owner THEN "construct" ELSE "waiting"
                            /\ at[t] = "idle"
      /\ enqueue_pos = 0 /\ dequeue_pos = 0 /\ log = <<>> /\ accepting = TRUE
      /\ available = 0
  BY Zenon DEF PoolInit, QueueInit
<1>2. QueueTypeOK
  BY QueueInvInit, Zenon DEF PoolInit, QueueInv
<1>3. PoolTypeOK
  BY <1>2, Zenon DEF PoolInit, PoolTypeOK, Spots, Fates
<1>4. Control
  BY <1>0, <1>1, Zenon DEF Control, Fits
<1>5. Phases
  BY <1>0, <1>1, Zenon DEF Phases, InSubmit
<1>6. Unused
  BY <1>1, Zenon DEF Unused
<1>7. Tokens
  <2>1. Poppers = {}
    BY <1>0, <1>1, Zenon DEF Poppers, Seeking
  <2>2. Uncommitted = 0
    BY <1>1, Zenon DEF Uncommitted, Committing, Committed
  <2> QED
    BY <1>1, <2>1, <2>2 DEF Counted, Tokens
<1>8. Latest /\ FailsEmpty
  BY <1>0, <1>1, Zenon DEF Latest, Pushing, FailsEmpty, Failed
<1>9. Positions = {} /\ \A x : ~Logged(x)
  BY <1>1, EmptySeq DEF Positions, Logged
<1>10. Submitted
  BY <1>0, <1>1, <1>9, Zenon DEF Submitted, InSubmit, PoolInit, Kept
<1>11. Claims /\ Counts
  BY <1>0, <1>1, <1>9 DEF Claims, Claimed, Counts, PoolInit
<1>12. Running
  <2>1. /\ \A w \in Workers : ~InTask(w) /\ running[w] = Nothing
        /\ \A x \in Tasks : fate[x] = "new" /\ runs[x] = 0
    BY <1>0, <1>1, Zenon DEF InTask, PoolInit
  <2> QED
    BY <2>1 DEF Running
<1>13. Caught
  BY <1>0, <1>1, Zenon DEF Caught, PoolInit
<1> QED
  BY <1>3, <1>4, <1>5, <1>6, <1>7, <1>8, <1>10, <1>11, <1>12, <1>13, Zenon DEF PoolInv

LEMMA PoolInvStep ==
  ASSUME Counted, QueueInv, PoolInv, [PoolNext]_vars
  PROVE  PoolInv'
<1> USE DEF PoolInv
<1>0. QueueInv'
  BY PoolStepOfQueue, QueueInvStep, Zenon
<1>1. PoolTypeOK'
  BY <1>0, PoolTypeStep, Zenon
<1>2. Control' /\ Phases' /\ Unused'
  BY ControlStep, PhasesStep, UnusedStep, Zenon
<1>3. Tokens' /\ Latest' /\ FailsEmpty'
  BY TokensStep, LatestStep, FailsEmptyStep, Zenon
<1>4. Submitted' /\ Claims' /\ Counts'
  BY SubmittedStep, ClaimsStep, Zenon
<1>5. Running' /\ Caught'
  BY RunningStep, Zenon
<1> QED
  BY <1>1, <1>2, <1>3, <1>4, <1>5, Zenon

----------------------------------------------------------------------------
(* What follows.                                                           *)

LEMMA InvRunsOnce ==
  ASSUME PoolInv
  PROVE  RunsOnce
<1>1. PoolTypeOK /\ Submitted /\ Counts /\ Running
  BY Zenon DEF PoolInv
<1>2. \A x \in Tasks : runs[x] <= 1
  BY <1>1 DEF Counts
<1>3. \A x \in Tasks : runs[x] = 1 => fate[x] \notin {"new", "refused"}
  BY <1>1, Zenon DEF Counts, Submitted, Logged, Kept
<1>4. \A w \in Workers : where[w] = "run" => running[w] \in Tasks
  BY <1>1, Zenon DEF Running, InTask
<1> QED
  BY <1>1, <1>2, <1>3, <1>4, Zenon DEF RunsOnce

\* When every worker has left, the tasks that submit() queued have ended.
LEMMA AllEnded ==
  ASSUME QueueInv, PoolInv, where[Owner] = "join", \A w \in Workers : where[w] = "exited"
  PROVE  /\ \A x \in Tasks : fate[x] \notin {"submitted", "accepted"}
         /\ {x \in Tasks : fate[x] = "threw"} = errors \cup taken
<1>0. /\ Workers # {} /\ Workers \subseteq Threads /\ Nothing \notin Tasks
      /\ PoolTypeOK /\ Control /\ Phases /\ FailsEmpty /\ Submitted /\ Counts /\ Running /\ Caught
  BY ThreadPoolAssumption, MPMCQueueAssumption, Zenon DEF PoolInv, Tasks
<1>1. enqueue_pos = dequeue_pos
  BY <1>0, Zenon DEF FailsEmpty, Failed
<1>2. \A t \in Threads : ~InSubmit(t)
  BY <1>0, Zenon DEF Phases
<1>3. \A w \in Workers : ~Claimed(w) /\ running[w] = Nothing
  BY <1>0, Zenon DEF Control, Fits, Claimed, Running, InTask
<1>4. \A i \in Positions : Popped(i)
  BY <1>1, <1>3, LogTyped DEF Popped, Positions
<1>5. ASSUME NEW x \in Tasks, fate[x] \in {"submitted", "accepted"}
      PROVE  FALSE
  <2>1. Logged(x)
    BY <1>0, <1>2, <1>5, Zenon DEF Submitted, Kept
  <2>2. runs[x] = 1
    BY <1>0, <1>4, <2>1, Zenon DEF Counts, Logged
  <2> QED
    BY <1>0, <1>3, <1>5, <2>2, Zenon DEF Running
<1>6. errors \subseteq Tasks /\ taken \subseteq Tasks
  BY <1>0, Zenon DEF PoolTypeOK
<1>7. \A x \in Tasks : fate[x] = "threw" <=> x \in errors \cup taken
  BY <1>0, Zenon DEF Caught
<1> QED
  BY <1>5, <1>6, <1>7, Zenon

\* The step with which shutdown() returns.
LEMMA DrainStep ==
  ASSUME QueueInv, PoolInv, [PoolNext]_vars, where[Owner] = "join", where'[Owner] = "user"
  PROVE  /\ \A x \in Tasks : fate[x] \notin {"submitted", "accepted"}
         /\ {x \in Tasks : fate[x] = "threw"} = errors \cup taken
<1>0. /\ Owner \in Threads /\ Owner \notin Workers /\ PoolTypeOK /\ Control
      /\ Workers \subseteq Threads
  BY ThreadPoolAssumption, Zenon DEF PoolInv
<1>1. Join
  <2>1. ASSUME NEW t \in Threads, Only(t), t # Owner
        PROVE  FALSE
    BY <1>0, <2>1, Zenon DEF Only
  <2>2. ~UNCHANGED where
    BY Zenon
  <2>3. ~(UNCHANGED vars \/ take_errors \/ \E w \in Workers : RequestStop(w))
    BY <2>2, Zenon DEF vars, poolVars, take_errors, RequestStop
  <2>4. ~\E t \in Threads : InQueue(t) \/ \E x \in Tasks : SubmitTooLate(t, x)
    BY <2>2, Zenon DEF InQueue, poolVars, SubmitTooLate
  <2>5. ~\E t \in Threads : SubmitStep(t) \/ \E x \in Tasks : Submit(t, x)
    <3>1. ASSUME NEW t \in Threads, SubmitStep(t) \/ \E x \in Tasks : Submit(t, x)
          PROVE  FALSE
      <4>1. Only(t) /\ where[t] \in {"submit", "unlock", "user", "run"}
        BY <1>0, <3>1, SubmitMoves, Zenon
        DEF Moves, SubmitStep, SubmitRefused, SubmitRelease, SubmitUnlock, Submit
      <4> QED
        BY <2>1, <4>1, Zenon
    <3> QED
      BY <3>1, Zenon
  <2>6. ~\E w \in Workers : WorkerStep(w) \/ StartWorker(w)
    BY <1>0, <2>1, WorkerMoves, ClientMoves, Zenon DEF WorkerStep, Moves
  <2>7. ~(Constructed \/ ConstructFails \/ Shutdown \/ ReleaseWorkers \/ ShutdownUnlock)
    BY Zenon DEF Constructed, ConstructFails, Shutdown, ReleaseWorkers, ShutdownUnlock
  <2> QED
    BY <2>3, <2>4, <2>5, <2>6, <2>7, Zenon DEF PoolNext, ConstructStep, ShutdownStep
<1>2. where'[Owner] = IF Started = Workers THEN "user" ELSE "gone"
  BY <1>0, <1>1, ClientMoves, Zenon DEF Moves
<1>3. Started = Workers
  BY <1>2, Zenon
<1>4. \A w \in Workers : where[w] = "exited"
  BY <1>1, <1>3, Zenon DEF Join
<1> QED
  BY <1>4, AllEnded, Zenon

LEMMA WorkersCounted == Counted
<1>1. Cardinality({}) = 0
  BY FS_EmptySet, Zenon
<1>2. ASSUME NEW S \in SUBSET Workers
      PROVE  IsFiniteSet(S) /\ Cardinality(S) \in Nat /\ (Cardinality(S) = 0 <=> S = {})
  BY ThreadPoolAssumption, FS_Subset, FS_CardinalityType, FS_EmptySet, Zenon
<1>3. ASSUME NEW S \in SUBSET Workers, NEW w \in S
      PROVE  Cardinality(S) >= 1 /\ Cardinality(S \ {w}) = Cardinality(S) - 1
  <2>1. Cardinality(S \ {w}) = Cardinality(S) - 1
    BY <1>2, FS_RemoveElement, Zenon
  <2> QED
    BY <1>2, <2>1
<1>4. ASSUME NEW S \in SUBSET Workers, NEW w \in Workers \ S
      PROVE  Cardinality(S \cup {w}) = Cardinality(S) + 1
  BY <1>2, FS_AddElement, Zenon
<1> QED
  BY <1>1, <1>2, <1>3, <1>4, Zenon DEF Counted

LEMMA PoolInvHolds == PoolSpec => [](QueueInv /\ PoolInv)
<1>1. PoolInit => PoolInv
  BY WorkersCounted, PoolInvInit, Zenon
<1>2. QueueInv /\ PoolInv /\ [PoolNext]_vars => PoolInv'
  BY WorkersCounted, PoolInvStep, Zenon
<1> QED
  BY <1>1, <1>2, PoolQueueInv, PTL DEF PoolSpec

\* However many threads submit, push, pop and shut down, no task runs twice,
\* and a worker runs only a task that submit() queued.
THEOREM TaskRunsOnce == PoolSpec => []RunsOnce
<1>1. PoolInv => RunsOnce
  BY InvRunsOnce, Zenon
<1> QED
  BY <1>1, PoolInvHolds, PTL

\* When shutdown() returns, every task whose submit() returned true has run to
\* its end, and the exceptions of those that threw are the ones that
\* take_errors() has handed out or will.
THEOREM ShutdownDrains == PoolSpec => DrainedAtReturn
<1>1. QueueInv /\ PoolInv /\ [PoolNext]_vars =>
        [where[Owner] = "join" /\ where'[Owner] = "user" =>
           /\ \A x \in Tasks : fate[x] \notin {"submitted", "accepted"}
           /\ {x \in Tasks : fate[x] = "threw"} = errors \cup taken]_vars
  BY DrainStep, Zenon
<1> QED
  BY <1>1, PoolInvHolds, PTL DEF PoolSpec, DrainedAtReturn

=============================================================================
