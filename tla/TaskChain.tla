----------------------------- MODULE TaskChain -----------------------------
(***************************************************************************)
(* Task and its promise: frames that are created suspended, awaited once,   *)
(* resumed by symmetric transfer and destroyed by whoever holds their       *)
(* handle.  A handle is held by a Task object (a local or a parameter of a  *)
(* frame, or a variable of the code outside), by the Awaiter of a frame     *)
(* that awaits it, or by the executor, which holds the roots.               *)
(*                                                                          *)
(* The executor is reduced to what it does with handles: a FIFO ready queue *)
(* of innermost frames, completion and tear-down.  IoContext models it in   *)
(* full, with one root for a chain; this module shows that a chain behaves  *)
(* as such a root.  stop() lets run() return after any resume, so the code  *)
(* outside may act whenever no frame runs.                                  *)
(***************************************************************************)
EXTENDS Naturals, FiniteSets, Sequences

CONSTANTS
  Frames,       \* coroutine frames
  Main,         \* the code outside every coroutine
  None

ASSUME TaskChainAssumption ==
  Main \notin Frames /\ None \notin Frames /\ Main # None

VARIABLES
  stage,        \* where each frame is
  tasks,        \* the frames held by Task objects, by the owner of the object
  awaiter,      \* the frame held by the Awaiter of each frame
  continuation, \* TaskPromiseBase::continuation
  exception,    \* TaskPromiseBase::exception, as the frame that threw it
  raised,       \* the exception that is propagating inside each frame
  running,      \* the frame that executes
  roots,        \* roots_
  completed,    \* the list at completed_head_
  ready,        \* ready_
  alive,        \* whether the executor exists
  spawned,      \* the frames that were ever roots, for the refinement
  reported      \* the exceptions that run() has thrown, for the properties

executor == <<roots, completed, ready, alive, spawned, reported>>
vars == <<stage, tasks, awaiter, continuation, exception, raised, running, executor>>

Holders == Frames \cup {Main}

\* The state has the types of its declarations, and the running frame is the
\* one that executes its body or comes back from a co_await.
ChainTypeOK ==
  /\ stage \in [Frames -> {"unborn", "initial", "running", "awaiting", "resumed",
                           "parked", "done", "destroyed"}]
  /\ tasks \in [Holders -> SUBSET Frames]
  /\ awaiter \in [Frames -> Frames \cup {None}]
  /\ continuation \in [Frames -> Frames \cup {None}]
  /\ exception \in [Frames -> Frames \cup {None}]
  /\ raised \in [Frames -> Frames \cup {None}]
  /\ running \in Frames \cup {None}
  /\ \A f \in Frames : stage[f] \in {"running", "resumed"} <=> f = running
  /\ roots \in SUBSET Frames
  /\ completed \in SUBSET Frames
  /\ ready \in Seq(Frames)
  /\ alive \in BOOLEAN
  /\ spawned \in SUBSET Frames
  /\ reported \in SUBSET Frames

Init ==
  /\ stage = [f \in Frames |-> "unborn"]
  /\ tasks = [p \in Holders |-> {}]
  /\ awaiter = [f \in Frames |-> None]
  /\ continuation = [f \in Frames |-> None]
  /\ exception = [f \in Frames |-> None]
  /\ raised = [f \in Frames |-> None]
  /\ running = None
  /\ roots = {}
  /\ completed = {}
  /\ ready = <<>>
  /\ alive = TRUE
  /\ spawned = {}
  /\ reported = {}

----------------------------------------------------------------------------
(* Destruction of frames: destroy() runs the destructors of the Tasks and   *)
(* of the Awaiter in the frame, which destroy the frames they hold.         *)

Holding(p) == tasks[p] \cup {f \in Frames : p \in Frames /\ awaiter[p] = f}

\* What goes with the frames in S: the smallest set that has them and all that
\* its members hold.
Dead(S) ==
  {f \in Frames : \A D \in SUBSET Frames :
                    S \subseteq D /\ (\A p \in D : Holding(p) \subseteq D) => f \in D}

\* The frames in S are destroyed, with all they hold; st, ts and aw are what
\* the step makes of the other ones.
destroy(S, st, ts, aw) ==
  \E D \in {Dead(S)} :
    /\ stage' = [f \in Frames |-> IF f \in D THEN "destroyed" ELSE st[f]]
    /\ tasks' = [p \in Holders |-> IF p \in D THEN {} ELSE ts[p]]
    /\ awaiter' = [f \in Frames |-> IF f \in D THEN None ELSE aw[f]]

----------------------------------------------------------------------------
(* Code that runs: the current coroutine, or the code outside.             *)

Acts(p) ==
  \/ p = running /\ p # None /\ stage[p] = "running" /\ raised[p] = None
  \/ p = Main /\ running = None /\ completed = {}

\* A coroutine is called: get_return_object() gives its Task to the caller,
\* initial_suspend() suspends it.  Tasks given as arguments move into it.
Create(p, f, given) ==
  /\ Acts(p)
  /\ stage[f] = "unborn"
  /\ given \subseteq tasks[p]
  /\ stage' = [stage EXCEPT ![f] = "initial"]
  /\ tasks' = [tasks EXCEPT ![p] = (@ \ given) \cup {f}, ![f] = given]
  /\ UNCHANGED <<awaiter, continuation, exception, raised, running, executor>>

\* ~Task() or an assignment to it: reset().  The same happens to the argument
\* of a spawn() that throws.
Reset(p, f) ==
  /\ Acts(p)
  /\ f \in tasks[p]
  /\ destroy({f}, stage, [tasks EXCEPT ![p] = @ \ {f}], awaiter)
  /\ UNCHANGED <<continuation, exception, raised, running, executor>>

\* spawn(): release() gives the handle to the executor.
Spawn(p, f) ==
  /\ Acts(p)
  /\ alive
  /\ f \in tasks[p]
  /\ tasks' = [tasks EXCEPT ![p] = @ \ {f}]
  /\ roots' = roots \cup {f}
  /\ spawned' = spawned \cup {f}
  /\ ready' = Append(ready, f)
  /\ UNCHANGED <<stage, awaiter, continuation, exception, raised, running,
                 completed, alive, reported>>

----------------------------------------------------------------------------
(* The running coroutine.                                                  *)

\* Mutant: await_suspend() does not store the continuation.
AwaitNoContinuation(p, f) ==
  /\ p # Main
  /\ Acts(p)
  /\ f \in tasks[p]
  /\ tasks' = [tasks EXCEPT ![p] = @ \ {f}]
  /\ awaiter' = [awaiter EXCEPT ![p] = f]
  /\ stage' = [stage EXCEPT ![p] = "awaiting", ![f] = "running"]
  /\ running' = f
  /\ UNCHANGED <<continuation, exception, raised, executor>>

\* co_await std::move(task): the handle moves into the Awaiter.  A frame that
\* is not done is started by symmetric transfer, a done one is not waited for.
Await(p, f) ==
  /\ p # Main
  /\ Acts(p)
  /\ f \in tasks[p]
  /\ tasks' = [tasks EXCEPT ![p] = @ \ {f}]
  /\ awaiter' = [awaiter EXCEPT ![p] = f]
  /\ IF stage[f] = "done"
       THEN /\ stage' = [stage EXCEPT ![p] = "resumed"]
            /\ UNCHANGED <<continuation, running>>
       ELSE /\ continuation' = [continuation EXCEPT ![f] = p]
            /\ stage' = [stage EXCEPT ![p] = "awaiting", ![f] = "running"]
            /\ running' = f
  /\ UNCHANGED <<exception, raised, executor>>

\* The body throws, or awaits an empty Task and gets the logic_error of
\* ensure_valid().
Raise(p) ==
  /\ p # Main
  /\ Acts(p)
  /\ raised' = [raised EXCEPT ![p] = p]
  /\ UNCHANGED <<stage, tasks, awaiter, continuation, exception, running, executor>>

Catch(p) ==
  /\ p = running
  /\ raised[p] # None
  /\ raised' = [raised EXCEPT ![p] = None]
  /\ UNCHANGED <<stage, tasks, awaiter, continuation, exception, running, executor>>

\* Mutant: the awaiting frame is queued instead of the innermost one.
YieldParent(p) ==
  /\ p # Main
  /\ Acts(p)
  /\ stage' = [stage EXCEPT ![p] = "parked"]
  /\ running' = None
  /\ ready' = Append(ready, IF continuation[p] = None THEN p ELSE continuation[p])
  /\ UNCHANGED <<tasks, awaiter, continuation, exception, raised, roots, completed,
                 alive, spawned, reported>>

\* co_await yield(): the handle of this frame goes to the queue.
Yield(p) ==
  /\ p # Main
  /\ Acts(p)
  /\ stage' = [stage EXCEPT ![p] = "parked"]
  /\ running' = None
  /\ ready' = Append(ready, p)
  /\ UNCHANGED <<tasks, awaiter, continuation, exception, raised, roots, completed,
                 alive, spawned, reported>>

\* A wait for a descriptor: a wait slot keeps the handle of this frame.
Wait(p) ==
  /\ p # Main
  /\ Acts(p)
  /\ stage' = [stage EXCEPT ![p] = "parked"]
  /\ running' = None
  /\ UNCHANGED <<tasks, awaiter, continuation, exception, raised, executor>>

\* The body ends, by a return or by an exception it does not catch.  Its
\* locals are destroyed and final_suspend() gives control to the executor
\* (a root), to the continuation, or to nobody.
Finish(p) ==
  /\ p = running
  /\ stage[p] = "running"
  /\ LET next == IF p \in roots THEN None ELSE continuation[p] IN
     /\ destroy(tasks[p],
                [f \in Frames |-> CASE f = p -> "done"
                                    [] f = next -> "resumed"
                                    [] OTHER -> stage[f]],
                [tasks EXCEPT ![p] = {}],
                awaiter)
     /\ running' = next
  /\ exception' = [exception EXCEPT ![p] = raised[p]]
  /\ raised' = [raised EXCEPT ![p] = None]
  /\ completed' = IF p \in roots THEN completed \cup {p} ELSE completed
  /\ UNCHANGED <<continuation, roots, ready, alive, spawned, reported>>

\* Mutant: the exception of the child is not rethrown.
AwaitResumeNoRethrow(p) ==
  /\ p = running
  /\ stage[p] = "resumed"
  /\ destroy({awaiter[p]}, [stage EXCEPT ![p] = "running"], tasks,
             [awaiter EXCEPT ![p] = None])
  /\ UNCHANGED <<continuation, exception, raised, running, executor>>

\* Mutant: ~Awaiter() does not destroy the frame.
AwaitResumeLeaks(p) ==
  /\ p = running
  /\ stage[p] = "resumed"
  /\ raised' = [raised EXCEPT ![p] = exception[awaiter[p]]]
  /\ stage' = [stage EXCEPT ![p] = "running"]
  /\ awaiter' = [awaiter EXCEPT ![p] = None]
  /\ UNCHANGED <<tasks, continuation, exception, running, executor>>

\* await_resume() and the end of the co_await expression: the child's
\* exception is rethrown here, and ~Awaiter() destroys the child.
AwaitResume(p) ==
  /\ p = running
  /\ stage[p] = "resumed"
  /\ raised' = [raised EXCEPT ![p] = exception[awaiter[p]]]
  /\ destroy({awaiter[p]}, [stage EXCEPT ![p] = "running"], tasks,
             [awaiter EXCEPT ![p] = None])
  /\ UNCHANGED <<continuation, exception, running, executor>>

----------------------------------------------------------------------------
(* The executor.                                                           *)

\* A wait slot is completed, by the loop or by whoever calls cancel(): its
\* handle goes to the queue.
Wake(f) ==
  /\ \E p \in Holders : Acts(p)
  /\ stage[f] = "parked"
  /\ \A i \in DOMAIN ready : ready[i] # f
  /\ ready' = Append(ready, f)
  /\ UNCHANGED <<stage, tasks, awaiter, continuation, exception, raised, running,
                 roots, completed, alive, spawned, reported>>

\* run_ready() resumes the handle at the head of the queue.
Resume ==
  /\ running = None
  /\ completed = {}
  /\ ready # <<>>
  /\ ready' = Tail(ready)
  /\ running' = Head(ready)
  /\ stage' = [stage EXCEPT ![Head(ready)] = "running"]
  /\ UNCHANGED <<tasks, awaiter, continuation, exception, raised, roots, completed,
                 alive, spawned, reported>>

\* drain_completed(), which rethrows the first exception it finds.
Drain ==
  LET errors == {exception[f] : f \in completed} \ {None} IN
  /\ running = None
  /\ completed # {}
  /\ destroy(completed, stage, tasks, awaiter)
  /\ roots' = roots \ completed
  /\ completed' = {}
  /\ reported' = IF errors = {} THEN reported
                  ELSE reported \cup {CHOOSE e \in errors : TRUE}
  /\ UNCHANGED <<continuation, exception, raised, running, ready, alive, spawned>>

\* ~IoContext(): the roots are destroyed, whatever their chains wait for.
TearDown ==
  /\ Acts(Main)
  /\ alive
  /\ destroy(roots, stage, tasks, awaiter)
  /\ roots' = {}
  /\ ready' = <<>>
  /\ alive' = FALSE
  /\ UNCHANGED <<continuation, exception, raised, running, completed, spawned, reported>>

Step(p) ==
  \E f \in Frames :
    \/ \E given \in SUBSET tasks[p] : Create(p, f, given)
    \/ Reset(p, f)
    \/ Spawn(p, f)

FrameStep(f) ==
  \/ \E g \in Frames : Await(f, g)
  \/ Raise(f) \/ Catch(f) \/ Yield(f) \/ Wait(f) \/ Finish(f)
  \/ AwaitResume(f)
  \/ Wake(f)

Next ==
  \/ \E p \in Holders : Step(p)
  \/ \E f \in Frames : FrameStep(f)
  \/ Resume
  \/ Drain
  \/ TearDown

Spec == Init /\ [][Next]_vars

\* The thread goes on: a resumed coroutine leaves its co_await, and run()
\* drains what a resume completed.
FairSpec ==
  /\ Spec
  /\ \A f \in Frames : WF_vars(AwaitResume(f))
  /\ WF_vars(Drain)

----------------------------------------------------------------------------
(* Properties.                                                             *)

Live(f) == stage[f] \notin {"unborn", "destroyed"}

\* Every handle is held exactly once, by a Task, an Awaiter or the executor,
\* and no frame that was destroyed is held: release(), the move of Task and
\* operator co_await leave nothing behind, so no frame leaks and none is
\* destroyed twice.
OneHolder ==
  \A f \in Frames :
    Cardinality({p \in Holders : f \in tasks[p]})
      + Cardinality({p \in Frames : awaiter[p] = f})
      + Cardinality({r \in roots : r = f})
    = IF Live(f) THEN 1 ELSE 0

\* Frames form chains that can always be resumed.  Each handle has one holder;
\* a Task holds only a frame that has not started, so that ~Task() cannot
\* destroy one that runs or that the executor will resume; the frame that
\* final_suspend() resumes is alive, is suspended, and awaits just this child;
\* and the handles in the executor are of live suspended frames, each there
\* once.
ChainIntact ==
  /\ ChainTypeOK
  /\ OneHolder
  /\ \A p \in Holders : \A f \in tasks[p] : stage[f] = "initial"
  /\ \A f \in Frames \ roots :
       stage[f] \in {"running", "awaiting", "resumed", "parked", "done"} =>
         \E p \in Frames : /\ continuation[f] = p
                           /\ awaiter[p] = f
                           /\ stage[p] = IF stage[f] = "done" THEN "resumed" ELSE "awaiting"
  /\ \A i \in DOMAIN ready :
       /\ \/ stage[ready[i]] = "parked"
          \/ stage[ready[i]] = "initial" /\ ready[i] \in roots
       /\ \A j \in DOMAIN ready : ready[i] = ready[j] => i = j

InFlight ==
  ({raised[f] : f \in Frames} \cup {exception[f] : f \in {g \in Frames : stage[g] = "done"}})
    \ {None}

\* An exception goes from frame to frame until a frame catches it, run()
\* throws it, or the executor is destroyed.
NoExceptionLost ==
  [][\A e \in InFlight \ InFlight' :
       \/ e \in reported'
       \/ \E f \in Frames : raised[f] = e /\ f = running /\ running' = running
       \/ ~alive']_vars

\* A frame that ran to its end is destroyed.
DoneReclaimed ==
  \A f \in Frames : stage[f] = "done" ~> stage[f] = "destroyed"

----------------------------------------------------------------------------
(* A chain of frames as one task.                                          *)

\* The frames from f to the innermost one.
Line(f) ==
  LET reach == {f} \cup {g \in Frames : \E h \in Frames : awaiter[h] = g}
  IN  {g \in reach : \A L \in SUBSET reach :
                       f \in L /\ (\A h \in L : awaiter[h] \in L \cup {None}) => g \in L}

RootOf(f) == CHOOSE r \in roots : f \in Line(r)

Queued(r) == \E i \in DOMAIN ready : ready[i] \in Line(r) /\ awaiter[ready[i]] = None

Life ==
  [f \in Frames |->
     CASE f \notin spawned -> "unborn"
       [] f \in spawned /\ stage[f] = "destroyed" -> "destroyed"
       [] f \in completed -> "completed"
       [] f \in roots \ completed /\ running \in Line(f) -> "running"
       [] f \in roots \ completed /\ running \notin Line(f) /\ Queued(f) -> "ready"
       [] OTHER -> "waiting"]

Lifecycle == INSTANCE TaskLifecycle
               WITH Tasks <- Frames, life <- Life,
                    queue <- [i \in DOMAIN ready |-> RootOf(ready[i])]

\* A root with the tasks it awaits behaves as one task of TaskLifecycle: calls
\* and returns between frames are invisible, one handle of the chain is queued
\* or waits, and the chain completes when the root does.
RefinesLifecycle == Lifecycle!LifeSpec

=============================================================================
