----------------------------- MODULE ThreadPool -----------------------------
(***************************************************************************)
(* ThreadPool: workers that take tasks from an MPMCQueue, composed with the *)
(* step-by-step model of the queue.  submit() and shutdown() exclude each   *)
(* other with lifecycle_mutex_; idle workers block on a semaphore that      *)
(* holds one token per queued task, and one per worker once shutdown() has  *)
(* started.                                                                 *)
(*                                                                          *)
(* One client, the owner, constructs the pool and calls shutdown() (the     *)
(* destructor is one more call of it).                                      *)
(***************************************************************************)
EXTENDS MPMCQueue, FiniteSets

CONSTANTS
  Workers,    \* workers_
  Clients,    \* other threads that call submit()
  Owner,      \* the client that makes the pool and shuts it down
  NoThread    \* the mutex is free

Tasks == Values

ASSUME ThreadPoolAssumption ==
  /\ Threads = Workers \cup Clients
  /\ Workers \cap Clients = {}
  /\ IsFiniteSet(Workers) /\ Workers # {}
  /\ Owner \in Clients
  /\ NoThread \notin Threads

VARIABLES
  where,      \* where each thread is in the code of the pool
  accepting,  \* accepting_
  available,  \* available_: tokens of the semaphore
  stop,       \* workers whose stop token is set
  mutex,      \* lifecycle_mutex_: its holder
  running,    \* the task each worker runs
  fate,       \* what became of each task
  runs,       \* how often each task was run
  errors,     \* errors_
  taken       \* what take_errors() has handed out

poolVars == <<where, accepting, available, stop, mutex, running, fate, runs,
              errors, taken>>
vars == <<queueVars, poolVars>>

Spots == {"waiting", "construct", "gone", "unborn", "user", "submit", "unlock", "stopping", "leave", "join",
          "acquire", "pop", "test", "run", "catch", "exited"}

Fates == {"new", "submitted", "accepted", "refused", "returned", "threw"}

\* Pool state has the types its declarations give it.
PoolTypeOK ==
  /\ QueueTypeOK
  /\ where \in [Threads -> Spots]
  /\ accepting \in BOOLEAN
  /\ available \in Nat
  /\ stop \in SUBSET Workers
  /\ mutex \in Threads \cup {NoThread}
  /\ running \in [Workers -> Tasks \cup {Nothing}]
  /\ fate \in [Tasks -> Fates]
  /\ runs \in [Tasks -> Nat]
  /\ errors \in SUBSET Tasks
  /\ taken \in SUBSET Tasks

PoolInit ==
  /\ QueueInit
  /\ where = [t \in Threads |-> IF t \in Workers THEN "unborn"
                                ELSE IF t = Owner THEN "construct" ELSE "waiting"]
  /\ accepting = TRUE
  /\ available = 0
  /\ stop = {}
  /\ mutex = NoThread
  /\ running = [w \in Workers |-> Nothing]
  /\ fate = [x \in Tasks |-> "new"]
  /\ runs = [x \in Tasks |-> 0]
  /\ errors = {}
  /\ taken = {}

Enter(t, spot) == where' = [where EXCEPT ![t] = spot]

\* submit() returns to the client, or to the task that called it.
LeaveSubmit(t) == Enter(t, IF t \in Workers THEN "run" ELSE "user")

\* The threads in workers_: all of them, unless the constructor failed.
Started == {w \in Workers : where[w] # "unborn"}

----------------------------------------------------------------------------
(* The constructor                                                         *)

StartWorker(w) ==
  /\ where[Owner] = "construct"
  /\ where[w] = "unborn"
  /\ Enter(w, "acquire")
  /\ UNCHANGED <<queueVars, accepting, available, stop, mutex, running, fate, runs,
                 errors, taken>>

\* The other clients get to know the pool.
Constructed ==
  /\ where[Owner] = "construct"
  /\ Started = Workers
  /\ where' = [t \in Threads |-> IF t \in Clients THEN "user" ELSE where[t]]
  /\ UNCHANGED <<queueVars, accepting, available, stop, mutex, running, fate, runs,
                 errors, taken>>

\* A thread cannot be started: the catch block stops the ones before it, in
\* the same steps as shutdown() but without the mutex, and the destructor of
\* workers_ joins them.
ConstructFails ==
  /\ where[Owner] = "construct"
  /\ Started # Workers
  /\ accepting' = FALSE
  /\ Enter(Owner, "stopping")
  /\ UNCHANGED <<queueVars, available, stop, mutex, running, fate, runs, errors, taken>>

----------------------------------------------------------------------------
(* submit(), by a client or by a task that a worker runs.                  *)

\* With the mutex taken, accepting_ decides.
Submit(t, x) ==
  /\ where[t] \in {"user", "run"}
  /\ fate[x] = "new"
  /\ mutex = NoThread
  /\ accepting
  /\ mutex' = t
  /\ fate' = [fate EXCEPT ![x] = "submitted"]
  /\ Enter(t, "submit")
  /\ Push(t, x)
  /\ UNCHANGED <<accepting, available, stop, running, runs, errors, taken>>

SubmitTooLate(t, x) ==
  /\ where[t] \in {"user", "run"}
  /\ fate[x] = "new"
  /\ mutex = NoThread
  /\ ~accepting
  /\ fate' = [fate EXCEPT ![x] = "refused"]
  /\ UNCHANGED <<queueVars, where, accepting, available, stop, mutex, running,
                 runs, errors, taken>>

\* queue_.push() returns false.
SubmitRefused(t) ==
  /\ where[t] = "submit"
  /\ at[t] = "push_failed"
  /\ fate' = [fate EXCEPT ![arg[t]] = "refused"]
  /\ mutex' = NoThread
  /\ LeaveSubmit(t)
  /\ Return(t)
  /\ UNCHANGED <<accepting, available, stop, running, runs, errors, taken>>

\* Mutant: no token is released.
SubmitWithoutRelease(t) ==
  /\ where[t] = "submit"
  /\ at[t] = "push_ok"
  /\ Enter(t, "unlock")
  /\ UNCHANGED <<queueVars, accepting, available, stop, mutex, running, fate,
                 runs, errors, taken>>

\* available_.release(); the task may run before submit() returns.
SubmitRelease(t) ==
  /\ where[t] = "submit"
  /\ at[t] = "push_ok"
  /\ available' = available + 1
  /\ Enter(t, "unlock")
  /\ UNCHANGED <<queueVars, accepting, stop, mutex, running, fate, runs, errors,
                 taken>>

SubmitUnlock(t) ==
  /\ where[t] = "unlock"
  /\ mutex' = NoThread
  /\ fate' = [fate EXCEPT ![arg[t]] = IF @ = "submitted" THEN "accepted" ELSE @]
  /\ LeaveSubmit(t)
  /\ Return(t)
  /\ UNCHANGED <<accepting, available, stop, running, runs, errors, taken>>

----------------------------------------------------------------------------
(* shutdown()                                                              *)

\* accepting_.exchange(false): a later call only joins.
Shutdown ==
  /\ where[Owner] = "user"
  /\ mutex = NoThread
  /\ accepting' = FALSE
  /\ IF accepting
       THEN mutex' = Owner /\ Enter(Owner, "stopping")
       ELSE Enter(Owner, "join") /\ UNCHANGED mutex
  /\ UNCHANGED <<queueVars, available, stop, running, fate, runs, errors, taken>>

RequestStop(w) ==
  /\ where[Owner] = "stopping"
  /\ w \in Started \ stop
  /\ stop' = stop \cup {w}
  /\ UNCHANGED <<queueVars, where, accepting, available, mutex, running, fate,
                 runs, errors, taken>>

\* Mutant: a single token for all workers.
ReleaseOne ==
  /\ where[Owner] = "stopping"
  /\ stop = Started
  /\ available' = available + 1
  /\ Enter(Owner, IF Started = Workers THEN "leave" ELSE "join")
  /\ UNCHANGED <<queueVars, accepting, stop, mutex, running, fate, runs, errors,
                 taken>>

\* available_.release(workers_.size()), after every request_stop().
ReleaseWorkers ==
  /\ where[Owner] = "stopping"
  /\ stop = Started
  /\ available' = available + Cardinality(Started)
  /\ Enter(Owner, IF Started = Workers THEN "leave" ELSE "join")
  /\ UNCHANGED <<queueVars, accepting, stop, mutex, running, fate, runs, errors,
                 taken>>

ShutdownUnlock ==
  /\ where[Owner] = "leave"
  /\ mutex' = NoThread
  /\ Enter(Owner, "join")
  /\ UNCHANGED <<queueVars, accepting, available, stop, running, fate, runs,
                 errors, taken>>

\* Every worker is joined, and shutdown() returns with workers_ cleared or the
\* constructor throws.
Join ==
  /\ where[Owner] = "join"
  /\ \A w \in Started : where[w] = "exited"
  /\ Enter(Owner, IF Started = Workers THEN "user" ELSE "gone")
  /\ UNCHANGED <<queueVars, accepting, available, stop, mutex, running, fate,
                 runs, errors, taken>>

take_errors ==
  /\ where[Owner] = "user"
  /\ taken' = taken \cup errors
  /\ errors' = {}
  /\ UNCHANGED <<queueVars, where, accepting, available, stop, mutex, running,
                 fate, runs>>

----------------------------------------------------------------------------
(* worker_loop()                                                           *)

\* Mutant: the stop token is tested before pop().
AcquireTestsStop(w) ==
  /\ where[w] = "acquire"
  /\ available > 0
  /\ available' = available - 1
  /\ IF w \in stop
       THEN Enter(w, "exited") /\ UNCHANGED queueVars
       ELSE Enter(w, "pop") /\ Pop(w)
  /\ UNCHANGED <<accepting, stop, mutex, running, fate, runs, errors, taken>>

Acquire(w) ==
  /\ where[w] = "acquire"
  /\ available > 0
  /\ available' = available - 1
  /\ Enter(w, "pop")
  /\ Pop(w)
  /\ UNCHANGED <<accepting, stop, mutex, running, fate, runs, errors, taken>>

\* pop() succeeded: task() is called.
Begin(w) ==
  /\ where[w] = "pop"
  /\ at[w] = "pop_ok"
  /\ running' = [running EXCEPT ![w] = out[w]]
  /\ runs' = [runs EXCEPT ![out[w]] = @ + 1]
  /\ Enter(w, "run")
  /\ Return(w)
  /\ UNCHANGED <<accepting, available, stop, mutex, fate, errors, taken>>

PopFails(w) ==
  /\ where[w] = "pop"
  /\ at[w] = "pop_failed"
  /\ Enter(w, "test")
  /\ Return(w)
  /\ UNCHANGED <<accepting, available, stop, mutex, running, fate, runs, errors,
                 taken>>

\* stop_token.stop_requested() after a pop() that found nothing.
TestStop(w) ==
  /\ where[w] = "test"
  /\ Enter(w, IF w \in stop THEN "exited" ELSE "acquire")
  /\ UNCHANGED <<queueVars, accepting, available, stop, mutex, running, fate,
                 runs, errors, taken>>

TaskReturns(w) ==
  /\ where[w] = "run"
  /\ fate' = [fate EXCEPT ![running[w]] = "returned"]
  /\ running' = [running EXCEPT ![w] = Nothing]
  /\ Enter(w, "acquire")
  /\ UNCHANGED <<queueVars, accepting, available, stop, mutex, runs, errors, taken>>

TaskThrows(w) ==
  /\ where[w] = "run"
  /\ fate' = [fate EXCEPT ![running[w]] = "threw"]
  /\ Enter(w, "catch")
  /\ UNCHANGED <<queueVars, accepting, available, stop, mutex, running, runs,
                 errors, taken>>

\* errors_.push_back() under errors_mutex_.
Catch(w) ==
  /\ where[w] = "catch"
  /\ errors' = errors \cup {running[w]}
  /\ running' = [running EXCEPT ![w] = Nothing]
  /\ Enter(w, "acquire")
  /\ UNCHANGED <<queueVars, accepting, available, stop, mutex, fate, runs, taken>>

----------------------------------------------------------------------------

InQueue(t) == (PushStep(t) \/ PopStep(t)) /\ UNCHANGED poolVars

SubmitStep(t) == SubmitRefused(t) \/ SubmitRelease(t) \/ SubmitUnlock(t)

WorkerStep(w) ==
  Acquire(w) \/ Begin(w) \/ PopFails(w) \/ TestStop(w) \/ TaskReturns(w)
    \/ TaskThrows(w) \/ Catch(w)

ShutdownStep ==
  (\E w \in Workers : RequestStop(w)) \/ ReleaseWorkers \/ ShutdownUnlock \/ Join

ConstructStep == (\E w \in Workers : StartWorker(w)) \/ Constructed \/ ConstructFails

PoolNext ==
  \/ ConstructStep
  \/ \E t \in Threads, x \in Tasks : Submit(t, x) \/ SubmitTooLate(t, x)
  \/ \E t \in Threads : InQueue(t) \/ SubmitStep(t)
  \/ \E w \in Workers : WorkerStep(w)
  \/ Shutdown
  \/ ShutdownStep
  \/ take_errors

PoolSpec == PoolInit /\ [][PoolNext]_vars

\* Every thread that can run is scheduled, a task ends, a semaphore with
\* tokens lets one of its waiters through, and compare_exchange_weak does not
\* fail for ever on a position that is current.
PoolFairness ==
  /\ \A t \in Threads : WF_vars(InQueue(t)) /\ WF_vars(SubmitStep(t))
  /\ \A t \in Threads : SF_vars((PushClaim(t) \/ PopClaim(t)) /\ UNCHANGED poolVars)
  /\ WF_vars(\E w \in Workers : Acquire(w))
  /\ \A w \in Workers :
       /\ WF_vars(Begin(w) \/ PopFails(w) \/ TestStop(w) \/ Catch(w))
       /\ WF_vars(TaskReturns(w) \/ TaskThrows(w))
  /\ WF_vars(ShutdownStep)

FairPool == PoolSpec /\ PoolFairness

----------------------------------------------------------------------------
(* Properties.                                                             *)

\* No task runs twice, however pushes and pops interleave: a worker that
\* takes a task takes one that was submitted and not run yet.
RunsOnce ==
  /\ PoolTypeOK
  /\ \A x \in Tasks : runs[x] <= 1
  /\ \A x \in Tasks : runs[x] = 1 => fate[x] \notin {"new", "refused"}
  /\ \A w \in Workers : where[w] = "run" => running[w] \in Tasks

\* "A successful task is always drained before shutdown returns", with its
\* exception captured if it threw: when shutdown() returns, every task whose
\* submit() returned true has run to its end.
DrainedAtReturn ==
  [][where[Owner] = "join" /\ where'[Owner] = "user" =>
       /\ \A x \in Tasks : fate[x] \notin {"submitted", "accepted"}
       /\ {x \in Tasks : fate[x] = "threw"} = errors \cup taken]_vars

\* One task; the tasks are interchangeable.
Job == CHOOSE x \in Tasks : TRUE

\* A task that was queued is run, also when no further submit() or shutdown()
\* comes to release another token.
AcceptedRuns == fate[Job] = "accepted" ~> runs[Job] = 1

\* shutdown() returns, and so does a constructor that cannot start all its
\* workers: none of them sleeps through it.
ShutdownReturns == where[Owner] = "join" ~> where[Owner] \in {"user", "gone"}

=============================================================================
