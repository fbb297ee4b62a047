-------------------------- MODULE TaskChainProofs --------------------------
(***************************************************************************)
(* Proofs about TaskChain, for any set of frames: every handle has one      *)
(* holder, a chain can always be resumed, no exception is lost between      *)
(* frames, and a chain behaves as one task of TaskLifecycle.                *)
(***************************************************************************)
EXTENDS TaskChain, TLAPS

----------------------------------------------------------------------------
(* The inductive invariant.                                                *)

Started == {"running", "awaiting", "resumed", "parked", "done"}

\* No two hold the same handle.
Single ==
  \A f \in Frames :
    /\ \A p, q \in Holders : f \in Holding(p) /\ f \in Holding(q) => p = q
    /\ f \in roots => \A p \in Holders : f \notin Holding(p)

\* What is held is alive, and what is alive is held.
Kept ==
  \A f \in Frames : Live(f) <=> f \in roots \/ \E p \in Holders : f \in Holding(p)

Fresh == \A p \in Holders : \A f \in tasks[p] : stage[f] = "initial"

Chained ==
  \A f \in Frames \ roots :
    stage[f] \in Started =>
      \E p \in Frames : /\ continuation[f] = p
                        /\ awaiter[p] = f
                        /\ stage[p] = IF stage[f] = "done" THEN "resumed" ELSE "awaiting"

\* A frame has an Awaiter while it awaits, of a frame that was started; one
\* that does not exist or has ended holds nothing.
Waiting ==
  \A p \in Frames :
    /\ stage[p] \in {"awaiting", "resumed"} <=> awaiter[p] # None
    /\ awaiter[p] # None => stage[awaiter[p]] \in Started
    /\ stage[p] \in {"unborn", "done", "destroyed"} => tasks[p] = {}

\* The completed list has the root that ended last, until it is drained.
Ended ==
  /\ completed = {f \in roots : stage[f] = "done"}
  /\ completed # {} => running = None
  /\ \A f, g \in completed : f = g

Suspended(f) == stage[f] = "parked" \/ (stage[f] = "initial" /\ f \in roots)

InQueue ==
  \A i \in DOMAIN ready :
    /\ Suspended(ready[i])
    /\ \A j \in DOMAIN ready : ready[i] = ready[j] => i = j

Propagating == \A f \in Frames : raised[f] # None => stage[f] = "running"

ChainInv ==
  /\ ChainTypeOK
  /\ Single
  /\ Kept
  /\ Fresh
  /\ Chained
  /\ Waiting
  /\ Ended
  /\ InQueue
  /\ Propagating

----------------------------------------------------------------------------
(* The frames that a destruction takes along.                              *)

LEMMA HoldingFacts ==
  ASSUME ChainTypeOK
  PROVE  /\ \A p \in Holders : Holding(p) \in SUBSET Frames
         /\ \A p \in Holders : \A f \in Frames :
              f \in Holding(p) <=> f \in tasks[p] \/ (p \in Frames /\ awaiter[p] = f)
<1>1. \A p \in Holders : tasks[p] \in SUBSET Frames
  BY Zenon DEF ChainTypeOK
<1> QED
  BY <1>1, Zenon DEF Holding

LEMMA DeadFacts ==
  ASSUME ChainTypeOK, NEW S \in SUBSET Frames
  PROVE  /\ Dead(S) \in SUBSET Frames
         /\ S \subseteq Dead(S)
         /\ \A p \in Dead(S) : Holding(p) \subseteq Dead(S)
         /\ \A f \in Dead(S) \ S : \E p \in Dead(S) : f \in Holding(p)
         /\ \A T \in SUBSET Frames :
              S \subseteq T /\ (\A p \in T : Holding(p) \subseteq T) => Dead(S) \subseteq T
<1>0. \A p \in Frames : Holding(p) \subseteq Frames
  BY HoldingFacts, Zenon DEF Holders
<1>1. Dead(S) \in SUBSET Frames /\ S \subseteq Dead(S)
  BY Zenon DEF Dead
<1>2. ASSUME NEW T \in SUBSET Frames, S \subseteq T, \A p \in T : Holding(p) \subseteq T
      PROVE  Dead(S) \subseteq T
  BY <1>2, Zenon DEF Dead
<1>3. ASSUME NEW p \in Dead(S), NEW f \in Holding(p)
      PROVE  f \in Dead(S)
  <2>1. f \in Frames
    BY <1>0, <1>1, <1>3, Zenon
  <2>2. ASSUME NEW D \in SUBSET Frames, S \subseteq D, \A q \in D : Holding(q) \subseteq D
        PROVE  f \in D
    <3>1. p \in D
      BY <1>2, <1>3, <2>2, Zenon
    <3> QED
      BY <1>3, <2>2, <3>1, Zenon
  <2> QED
    BY <2>1, <2>2, Zenon DEF Dead
<1>4. ASSUME NEW f \in Dead(S) \ S, \A p \in Dead(S) : f \notin Holding(p)
      PROVE  FALSE
  <2>1. PICK T \in SUBSET Frames : T = Dead(S) \ {f}
    BY <1>1, Zenon
  <2>2. S \subseteq T
    BY <1>1, <1>4, <2>1, Zenon
  <2>3. \A p \in T : Holding(p) \subseteq T
    BY <1>3, <1>4, <2>1, Zenon
  <2>4. Dead(S) \subseteq T
    BY <1>2, <2>2, <2>3, Zenon
  <2> QED
    BY <1>4, <2>1, <2>4, Zenon
<1> QED
  BY <1>1, <1>2, <1>3, <1>4, Zenon

----------------------------------------------------------------------------
(* Handles keep one holder.                                                *)

\* A destruction of the frames in S: they are let go and what they hold goes
\* with them.
Destroys(S) ==
  /\ \A q \in Holders : Holding(q)' = IF q \in Dead(S) THEN {} ELSE Holding(q) \ S
  /\ roots' = roots \ S
  /\ \A f \in Frames : IF f \in Dead(S) THEN stage'[f] = "destroyed"
                       ELSE Live(f)' <=> Live(f)

LEMMA DestroysKeeps ==
  ASSUME ChainTypeOK, Single, Kept, NEW S \in SUBSET Frames, Destroys(S)
  PROVE  Single' /\ Kept'
<1>0. PICK D \in SUBSET Frames :
        /\ D = Dead(S) /\ S \subseteq D
        /\ \A p \in D : Holding(p) \subseteq D
        /\ \A f \in D \ S : \E p \in D : f \in Holding(p)
  BY DeadFacts, Zenon
<1>1. /\ \A q \in Holders : Holding(q)' = IF q \in D THEN {} ELSE Holding(q) \ S
      /\ roots' = roots \ S
      /\ \A f \in D : ~Live(f)'
      /\ \A f \in Frames \ D : Live(f)' <=> Live(f)
  BY <1>0, Zenon DEF Destroys, Live
<1>2. D \subseteq Holders
  BY Zenon DEF Holders
<1>3. Single'
  <2>1. \A q \in Holders : Holding(q)' \subseteq Holding(q)
    BY <1>1, Zenon
  <2> QED
    BY <1>1, <2>1, Zenon DEF Single
<1>4. ASSUME NEW f \in D
      PROVE  f \notin roots' /\ \A p \in Holders : f \notin Holding(p)'
  <2>1. ASSUME f \notin S
        PROVE  f \notin roots /\ \A p \in Holders \ D : f \notin Holding(p)
    <3>1. PICK q \in D : f \in Holding(q)
      BY <1>0, <1>4, <2>1, Zenon
    <3> QED
      BY <1>2, <3>1, Zenon DEF Single
  <2> QED
    BY <1>1, <2>1, Zenon
<1>5. ASSUME NEW f \in Frames \ D
      PROVE  /\ f \in roots' <=> f \in roots
             /\ \A p \in Holders : f \in Holding(p)' <=> f \in Holding(p)
  BY <1>0, <1>1, <1>5
<1> QED
  BY <1>1, <1>3, <1>4, <1>5, Zenon DEF Kept

\* What is dead is held by no other, and is no root.
LEMMA DeadApart ==
  ASSUME ChainTypeOK, Single, NEW S \in SUBSET Frames,
         S \cap roots = {}
  PROVE  Dead(S) \cap roots = {}
<1>1. ASSUME NEW f \in Dead(S), f \in roots
      PROVE  FALSE
  <2>1. PICK p \in Dead(S) : f \in Holding(p)
    BY <1>1, DeadFacts
  <2> QED
    BY <1>1, <2>1, DeadFacts, Zenon DEF Single, Holders
<1> QED
  BY <1>1, Zenon

\* A Task holds frames that were not started, and so do these.
LEMMA DeadInitial ==
  ASSUME ChainInv, NEW S \in SUBSET Frames, \A f \in S : stage[f] = "initial"
  PROVE  \A f \in Dead(S) : stage[f] = "initial"
<1>1. PICK T \in SUBSET Frames : T = {f \in Frames : stage[f] = "initial"}
  BY Zenon
<1>2. ASSUME NEW p \in T
      PROVE  Holding(p) \subseteq T
  <2>1. p \in Frames /\ p \in Holders /\ stage[p] = "initial" /\ awaiter[p] = None
    BY <1>1, <1>2, Zenon DEF ChainInv, Waiting, Holders
  <2>2. \A f \in Holding(p) : f \in tasks[p] /\ f \in Frames
    BY <2>1, HoldingFacts, TaskChainAssumption DEF ChainInv
  <2> QED
    BY <1>1, <2>1, <2>2, Zenon DEF ChainInv, Fresh
<1>3. Dead(S) \subseteq T
  BY <1>1, <1>2, DeadFacts DEF ChainInv
<1> QED
  BY <1>1, <1>3, Zenon

\* A frame that has ended goes alone.
LEMMA DeadDone ==
  ASSUME ChainInv, NEW S \in SUBSET Frames, \A f \in S : stage[f] = "done"
  PROVE  Dead(S) = S
<1>1. ASSUME NEW p \in S
      PROVE  Holding(p) = {}
  <2>1. p \in Frames /\ p \in Holders /\ awaiter[p] = None /\ tasks[p] = {}
    BY <1>1, Zenon DEF ChainInv, Waiting, Holders
  <2> QED
    BY <2>1, HoldingFacts, TaskChainAssumption DEF ChainInv
<1>2. Dead(S) \subseteq S
  BY <1>1, DeadFacts, Zenon DEF ChainInv
<1> QED
  BY <1>2, DeadFacts, Zenon DEF ChainInv

\* The steps that destroy frames and leave the others as they are.
LEMMA DestroyedKeeps ==
  ASSUME ChainInv, NEW S \in SUBSET Frames, Destroys(S), ChainTypeOK',
         \A f \in Frames \ Dead(S) : stage'[f] = stage[f] /\ awaiter'[f] = awaiter[f],
         \A p \in Holders \ Dead(S) : tasks'[p] \subseteq tasks[p],
         \A f \in Dead(S) : awaiter'[f] = None /\ tasks'[f] = {},
         continuation' = continuation
  PROVE  Single' /\ Kept' /\ Fresh' /\ Chained' /\ Waiting'
<1>0. PICK D \in SUBSET Frames :
        /\ D = Dead(S) /\ S \subseteq D
        /\ \A p \in D : Holding(p) \subseteq D
  BY DeadFacts, Zenon DEF ChainInv
<1>1. Single' /\ Kept'
  BY DestroysKeeps, Zenon DEF ChainInv
<1>2. /\ D \subseteq Holders /\ Frames \subseteq Holders
      /\ \A f \in D : stage'[f] = "destroyed" /\ awaiter'[f] = None /\ tasks'[f] = {}
      /\ \A f \in Frames \ D : stage'[f] = stage[f] /\ awaiter'[f] = awaiter[f]
      /\ \A p \in Holders \ D : tasks'[p] \subseteq tasks[p]
      /\ roots' = roots \ S
  BY <1>0, Zenon DEF Destroys, Holders
<1>3. /\ \A p \in Holders : \A f \in tasks'[p] : f \in Frames \ D
      /\ \A p \in Frames : awaiter'[p] # None => awaiter'[p] \in Frames \ D
  <2>1. \A p \in Holders : \A f \in Holding(p)' : f \in Frames => Live(f)'
    BY <1>1, Zenon DEF Kept
  <2>2. \A f \in D : ~Live(f)'
    BY <1>2, Zenon DEF Live
  <2>3. /\ \A p \in Holders : tasks'[p] \subseteq Frames
        /\ \A p \in Frames : awaiter'[p] \in Frames \cup {None}
    BY Zenon DEF ChainTypeOK
  <2>4. /\ \A p \in Holders : \A f \in Frames : f \in tasks'[p] => f \in Holding(p)'
        /\ \A p \in Frames : \A f \in Frames : awaiter'[p] = f => f \in Holding(p)'
    BY Zenon DEF Holding
  <2> QED
    BY <1>2, <2>1, <2>2, <2>3, <2>4, Zenon
<1>4. Fresh'
  <2> SUFFICES ASSUME NEW p \in Holders, NEW f \in tasks'[p]
               PROVE  stage'[f] = "initial"
    BY Zenon DEF Fresh
  <2>1. p \notin D /\ f \in tasks[p] /\ f \in Frames \ D
    BY <1>2, <1>3, Zenon
  <2> QED
    BY <1>2, <2>1, Zenon DEF ChainInv, Fresh
<1>5. Chained'
  <2> SUFFICES ASSUME NEW f \in Frames \ roots', stage'[f] \in Started
               PROVE  \E p \in Frames :
                        /\ continuation'[f] = p /\ awaiter'[p] = f
                        /\ stage'[p] = IF stage'[f] = "done" THEN "resumed" ELSE "awaiting"
    BY Zenon DEF Chained, Started
  <2>1. f \notin D /\ stage'[f] = stage[f] /\ f \notin roots
    BY <1>0, <1>2, Zenon DEF Started
  <2>2. PICK p \in Frames : /\ continuation[f] = p /\ awaiter[p] = f
                            /\ stage[p] = IF stage[f] = "done" THEN "resumed" ELSE "awaiting"
    BY <2>1, Zenon DEF ChainInv, Chained
  <2>3. f \in Holding(p)
    BY <2>2, Zenon DEF Holding
  <2>4. p \notin D
    BY <1>0, <2>1, <2>3, Zenon
  <2> QED
    BY <1>2, <2>1, <2>2, <2>4
<1>6. Waiting'
  <2> SUFFICES ASSUME NEW p \in Frames
               PROVE  /\ stage'[p] \in {"awaiting", "resumed"} <=> awaiter'[p] # None
                      /\ awaiter'[p] # None => stage'[awaiter'[p]] \in Started
                      /\ stage'[p] \in {"unborn", "done", "destroyed"} => tasks'[p] = {}
    BY Zenon DEF Waiting, Started
  <2>1. CASE p \in D
    BY <1>2, <2>1, Zenon
  <2>2. CASE p \notin D
    <3>1. /\ stage'[p] = stage[p] /\ awaiter'[p] = awaiter[p] /\ tasks'[p] \subseteq tasks[p]
      BY <1>2, <2>2, Zenon
    <3>2. awaiter'[p] # None => stage'[awaiter'[p]] = stage[awaiter[p]]
      BY <1>2, <1>3, <3>1, Zenon
    <3> QED
      BY <3>1, <3>2, Zenon DEF ChainInv, Waiting
  <2> QED
    BY <2>1, <2>2, Zenon
<1> QED
  BY <1>1, <1>4, <1>5, <1>6, Zenon

----------------------------------------------------------------------------
(* One lemma per operation.                                                *)

LEMMA DestroyFacts ==
  ASSUME NEW S \in SUBSET Frames, NEW st, NEW ts, NEW aw, destroy(S, st, ts, aw)
  PROVE  /\ stage' = [f \in Frames |-> IF f \in Dead(S) THEN "destroyed" ELSE st[f]]
         /\ tasks' = [p \in Holders |-> IF p \in Dead(S) THEN {} ELSE ts[p]]
         /\ awaiter' = [f \in Frames |-> IF f \in Dead(S) THEN None ELSE aw[f]]
BY DEF destroy

LEMMA DestroyStep ==
  ASSUME ChainInv, ChainTypeOK', NEW S \in SUBSET Frames, NEW ts,
         destroy(S, stage, ts, awaiter), roots' = roots \ S, continuation' = continuation,
         \A q \in Holders : ts[q] = tasks[q] \ S,
         \A q \in Frames : awaiter[q] \notin S
  PROVE  Single' /\ Kept' /\ Fresh' /\ Chained' /\ Waiting'
<1>1. /\ stage' = [f \in Frames |-> IF f \in Dead(S) THEN "destroyed" ELSE stage[f]]
      /\ tasks' = [p \in Holders |-> IF p \in Dead(S) THEN {} ELSE ts[p]]
      /\ awaiter' = [f \in Frames |-> IF f \in Dead(S) THEN None ELSE awaiter[f]]
  BY Zenon DEF destroy
<1>2. PICK D \in SUBSET Frames : D = Dead(S)
  BY DeadFacts, Zenon DEF ChainInv
<1>3. /\ \A f \in Frames \ D : stage'[f] = stage[f] /\ awaiter'[f] = awaiter[f]
      /\ \A f \in D : stage'[f] = "destroyed" /\ awaiter'[f] = None /\ tasks'[f] = {}
      /\ \A p \in Holders \ D : tasks'[p] = tasks[p] \ S
      /\ Frames \subseteq Holders
  BY <1>1, <1>2, Zenon DEF Holders
<1>4. ASSUME NEW q \in Holders
      PROVE  Holding(q)' = IF q \in D THEN {} ELSE Holding(q) \ S
  <2>1. CASE q \in D
    BY <1>3, <2>1, TaskChainAssumption DEF Holding
  <2>2. CASE q \notin D
    BY <1>3, <2>2 DEF Holding
  <2> QED
    BY <2>1, <2>2, Zenon
<1>5. Destroys(S)
  BY <1>2, <1>3, <1>4, Zenon DEF Destroys, Live
<1> QED
  BY <1>2, <1>3, <1>5, DestroyedKeeps

\* The frame that runs, or the code outside, is none of those that it can
\* destroy.
LEMMA ActsFacts ==
  ASSUME ChainInv, NEW p \in Holders, Acts(p)
  PROVE  /\ p \in Frames => stage[p] = "running" /\ awaiter[p] = None /\ raised[p] = None
         /\ p \in Frames <=> p # Main
         /\ p = Main => running = None /\ completed = {}
         /\ p # Main => p = running
         /\ completed = {}
<1>1. p \in Frames <=> p # Main
  BY TaskChainAssumption, Zenon DEF Holders
<1>2. CASE p = Main
  BY <1>1, <1>2, TaskChainAssumption, Zenon DEF Acts, ChainInv, ChainTypeOK
<1>3. CASE p # Main
  <2>1. p = running /\ p \in Frames /\ stage[p] = "running" /\ raised[p] = None
    BY <1>1, <1>3, Zenon DEF Acts
  <2>2. awaiter[p] = None
    BY <2>1, Zenon DEF ChainInv, Waiting
  <2>3. completed = {}
    BY <2>1, TaskChainAssumption, Zenon DEF ChainInv, Ended
  <2> QED
    BY <1>1, <1>3, <2>1, <2>2, <2>3, Zenon
<1> QED
  BY <1>2, <1>3, Zenon

LEMMA ResetKeeps ==
  ASSUME ChainInv, NEW p \in Holders, NEW f \in Frames, Reset(p, f)
  PROVE  ChainInv'
<1>1. /\ Acts(p) /\ f \in tasks[p]
      /\ destroy({f}, stage, [tasks EXCEPT ![p] = @ \ {f}], awaiter)
      /\ UNCHANGED <<continuation, exception, raised, running, roots, completed, ready,
                     alive, spawned, reported>>
  BY Zenon DEF Reset, executor
<1>2. PICK ts : ts = [tasks EXCEPT ![p] = @ \ {f}]
  BY Zenon
<1>3. destroy({f}, stage, ts, awaiter)
  BY <1>1, <1>2, Zenon
<1>4. /\ stage[f] = "initial" /\ f \in Holding(p) /\ f \notin roots
      /\ \A q \in Holders : q # p => f \notin tasks[q]
      /\ \A q \in Frames : awaiter[q] # f
  <2>1. stage[f] = "initial" /\ f \in Holding(p)
    BY <1>1, HoldingFacts, Zenon DEF ChainInv, Fresh
  <2>2. \A q \in Frames : awaiter[q] # f
    BY <2>1, TaskChainAssumption, Zenon DEF ChainInv, Waiting, Started
  <2>3. \A q \in Holders : q # p => f \notin tasks[q]
    BY <2>1, HoldingFacts, Zenon DEF ChainInv, Single
  <2> QED
    BY <2>1, <2>2, <2>3, Zenon DEF ChainInv, Single
<1>5. PICK D \in SUBSET Frames :
        /\ D = Dead({f})
        /\ \A g \in D : stage[g] = "initial" /\ g \notin roots
  BY <1>4, DeadFacts, DeadInitial, DeadApart DEF ChainInv
<1>6. /\ stage' = [g \in Frames |-> IF g \in D THEN "destroyed" ELSE stage[g]]
      /\ tasks' = [q \in Holders |-> IF q \in D THEN {} ELSE ts[q]]
      /\ awaiter' = [g \in Frames |-> IF g \in D THEN None ELSE awaiter[g]]
  BY <1>3, <1>5 DEF destroy
<1>7. ChainTypeOK'
  <2>1. ts \in [Holders -> SUBSET Frames]
    BY <1>2, Zenon DEF ChainInv, ChainTypeOK
  <2>2. \A g \in Frames : stage'[g] \in {"running", "resumed"} <=> g = running'
    BY <1>1, <1>5, <1>6, Zenon DEF ChainInv, ChainTypeOK
  <2> QED
    BY <1>1, <1>6, <2>1, <2>2, Zenon DEF ChainInv, ChainTypeOK
<1>8. Single' /\ Kept' /\ Fresh' /\ Chained' /\ Waiting'
  <2>1. \A q \in Holders : ts[q] = tasks[q] \ {f}
    BY <1>2, <1>4 DEF ChainInv, ChainTypeOK
  <2>2. roots' = roots \ {f} /\ continuation' = continuation
    BY <1>1, <1>4, Zenon
  <2> QED
    BY <1>3, <1>4, <1>7, <2>1, <2>2, DestroyStep, Zenon
<1>9. Ended'
  BY <1>1, <1>5, <1>6, Zenon DEF ChainInv, ChainTypeOK, Ended
<1>10. InQueue'
  <2>1. \A i \in DOMAIN ready : ready[i] \in Frames /\ Suspended(ready[i])
    BY DEF ChainInv, ChainTypeOK, InQueue
  <2>2. \A i \in DOMAIN ready : stage'[ready[i]] = stage[ready[i]]
    BY <1>5, <1>6, <2>1, Zenon DEF Suspended
  <2> QED
    BY <1>1, <2>1, <2>2, Zenon DEF ChainInv, InQueue, Suspended
<1>11. Propagating'
  BY <1>1, <1>5, <1>6, Zenon DEF ChainInv, Propagating
<1> QED
  BY <1>7, <1>8, <1>9, <1>10, <1>11, Zenon DEF ChainInv

LEMMA DrainKeeps ==
  ASSUME ChainInv, Drain
  PROVE  ChainInv'
<1>1. /\ running = None /\ completed # {} /\ destroy(completed, stage, tasks, awaiter)
      /\ roots' = roots \ completed /\ completed' = {}
      /\ UNCHANGED <<continuation, exception, raised, running, ready, alive, spawned>>
  BY Zenon DEF Drain
<1>2. completed \subseteq roots /\ completed \in SUBSET Frames /\ Dead(completed) = completed
  <2>1. completed \subseteq roots /\ completed \in SUBSET Frames
    BY Zenon DEF ChainInv, ChainTypeOK, Ended
  <2> QED
    BY <2>1, DeadDone, Zenon DEF ChainInv, Ended
<1>3. /\ stage' = [g \in Frames |-> IF g \in completed THEN "destroyed" ELSE stage[g]]
      /\ tasks' = [q \in Holders |-> IF q \in completed THEN {} ELSE tasks[q]]
      /\ awaiter' = [g \in Frames |-> IF g \in completed THEN None ELSE awaiter[g]]
  BY <1>1, <1>2, DestroyFacts
<1>4. ChainTypeOK'
  <2>1. \A g \in Frames : stage'[g] \in {"running", "resumed"} <=> g = running'
    BY <1>1, <1>3, TaskChainAssumption, Zenon DEF ChainInv, ChainTypeOK
  <2>2. reported' \in SUBSET Frames
    <3>1. \A e \in {exception[f] : f \in completed} \ {None} : e \in Frames
      BY <1>2 DEF ChainInv, ChainTypeOK
    <3>2. \/ reported' = reported
          \/ \E e \in {exception[f] : f \in completed} \ {None} : reported' = reported \cup {e}
      BY Zenon DEF Drain
    <3> QED
      BY <3>1, <3>2 DEF ChainInv, ChainTypeOK
  <2> QED
    BY <1>1, <1>2, <1>3, <2>1, <2>2, Zenon DEF ChainInv, ChainTypeOK
<1>5. Single' /\ Kept' /\ Fresh' /\ Chained' /\ Waiting'
  <2>1. \A q \in Holders : tasks[q] = tasks[q] \ completed
    BY <1>2, HoldingFacts, Zenon DEF ChainInv, Single
  <2>2. \A q \in Frames : awaiter[q] \notin completed
    BY <1>2, HoldingFacts, Zenon DEF ChainInv, Single, Holders
  <2> QED
    BY <1>1, <1>2, <1>4, <2>1, <2>2, DestroyStep, Zenon
<1>6. \A g \in completed : stage[g] = "done"
  BY Zenon DEF ChainInv, Ended
<1>7. Ended'
  BY <1>1, <1>2, <1>3, Zenon DEF ChainInv, ChainTypeOK, Ended
<1>8. InQueue'
  BY <1>1, <1>3, <1>6 DEF ChainInv, ChainTypeOK, InQueue, Suspended
<1>9. Propagating'
  BY <1>1, <1>3, <1>6, Zenon DEF ChainInv, Propagating
<1> QED
  BY <1>4, <1>5, <1>7, <1>8, <1>9, Zenon DEF ChainInv

LEMMA TearDownKeeps ==
  ASSUME ChainInv, TearDown
  PROVE  ChainInv'
<1>1. /\ running = None /\ completed = {} /\ destroy(roots, stage, tasks, awaiter)
      /\ roots' = {} /\ ready' = <<>> /\ alive' = FALSE
      /\ UNCHANGED <<continuation, exception, raised, running, completed, spawned, reported>>
  BY ActsFacts, Zenon DEF TearDown, Holders
<1>2. roots \in SUBSET Frames
  BY Zenon DEF ChainInv, ChainTypeOK
<1>3. PICK D \in SUBSET Frames : D = Dead(roots)
  BY <1>2, DeadFacts, Zenon DEF ChainInv
<1>4. /\ stage' = [g \in Frames |-> IF g \in D THEN "destroyed" ELSE stage[g]]
      /\ tasks' = [q \in Holders |-> IF q \in D THEN {} ELSE tasks[q]]
      /\ awaiter' = [g \in Frames |-> IF g \in D THEN None ELSE awaiter[g]]
  BY <1>1, <1>2, <1>3, DestroyFacts
<1>5. ChainTypeOK'
  <2>1. \A g \in Frames : stage'[g] \in {"running", "resumed"} <=> g = running'
    BY <1>1, <1>4, TaskChainAssumption, Zenon DEF ChainInv, ChainTypeOK
  <2>2. /\ stage' \in [Frames -> {"unborn", "initial", "running", "awaiting", "resumed",
                                  "parked", "done", "destroyed"}]
        /\ tasks' \in [Holders -> SUBSET Frames]
        /\ awaiter' \in [Frames -> Frames \cup {None}]
    BY <1>4, Zenon DEF ChainInv, ChainTypeOK
  <2>3. /\ continuation' \in [Frames -> Frames \cup {None}]
        /\ exception' \in [Frames -> Frames \cup {None}]
        /\ raised' \in [Frames -> Frames \cup {None}]
        /\ running' \in Frames \cup {None} /\ completed' \in SUBSET Frames
        /\ spawned' \in SUBSET Frames /\ reported' \in SUBSET Frames
    BY <1>1, Zenon DEF ChainInv, ChainTypeOK
  <2>4. ready' \in Seq(Frames) /\ roots' \in SUBSET Frames
    BY <1>1
  <2>5. alive' \in BOOLEAN
    BY <1>1, Zenon
  <2> QED
    BY <2>1, <2>2, <2>3, <2>4, <2>5, Zenon DEF ChainTypeOK
<1>6. Single' /\ Kept' /\ Fresh' /\ Chained' /\ Waiting'
  <2>1. \A q \in Holders : tasks[q] = tasks[q] \ roots
    BY <1>2, HoldingFacts, Zenon DEF ChainInv, Single
  <2>2. \A q \in Frames : awaiter[q] \notin roots
    BY <1>2, HoldingFacts, Zenon DEF ChainInv, Single, Holders
  <2> QED
    BY <1>1, <1>2, <1>5, <2>1, <2>2, DestroyStep, Zenon
<1>7. Ended' /\ InQueue'
  BY <1>1 DEF Ended, InQueue
<1>8. Propagating'
  <2>1. \A g \in Frames : raised[g] = None
    BY <1>1, TaskChainAssumption DEF ChainInv, ChainTypeOK, Propagating
  <2> QED
    BY <1>1, <2>1, Zenon DEF Propagating
<1> QED
  BY <1>5, <1>6, <1>7, <1>8, Zenon DEF ChainInv

\* A suspended frame is resumed, or the running one is suspended.
LEMMA StageStep ==
  ASSUME ChainInv, NEW p \in Frames, NEW to \in {"running", "parked"},
         Suspended(p) \/ stage[p] = "running", stage' = [stage EXCEPT ![p] = to],
         UNCHANGED <<tasks, awaiter, continuation, roots>>
  PROVE  Single' /\ Kept' /\ Fresh' /\ Chained' /\ Waiting'
<1>1. /\ stage'[p] = to /\ \A f \in Frames : f # p => stage'[f] = stage[f]
      /\ stage[p] \in {"initial", "parked", "running"} /\ awaiter[p] = None
      /\ stage[p] = "initial" => p \in roots
  BY Zenon DEF ChainInv, ChainTypeOK, Waiting, Suspended
<1>2. \A q : Holding(q)' = Holding(q)
  BY Zenon DEF Holding
<1>3. \A f \in Frames : Live(f)' <=> Live(f)
  BY <1>1, Zenon DEF Live
<1>4. Single' /\ Kept'
  BY <1>2, <1>3, Zenon DEF ChainInv, Single, Kept
<1>5. Fresh'
  <2>1. \A q \in Holders : p \notin tasks[q]
    BY <1>1, HoldingFacts, Zenon DEF ChainInv, Fresh, Single
  <2> QED
    BY <1>1, <2>1 DEF ChainInv, ChainTypeOK, Fresh
<1>6. Chained'
  <2> SUFFICES ASSUME NEW f \in Frames \ roots, stage'[f] \in Started
               PROVE  \E q \in Frames :
                        /\ continuation[f] = q /\ awaiter[q] = f
                        /\ stage'[q] = IF stage'[f] = "done" THEN "resumed" ELSE "awaiting"
    BY DEF Chained, Started
  <2>1. /\ stage[f] \in Started /\ (stage'[f] = "done" <=> stage[f] = "done")
    BY <1>1, Zenon DEF Started
  <2>2. PICK q \in Frames : /\ continuation[f] = q /\ awaiter[q] = f
                            /\ stage[q] = IF stage[f] = "done" THEN "resumed" ELSE "awaiting"
    BY <2>1, Zenon DEF ChainInv, Chained
  <2> QED
    BY <1>1, <2>1, <2>2, Zenon
<1>7. Waiting'
  BY <1>1 DEF ChainInv, ChainTypeOK, Waiting, Started
<1> QED
  BY <1>4, <1>5, <1>6, <1>7, Zenon

\* The queue gets another handle.
LEMMA QueueGrows ==
  ASSUME ChainInv, NEW f \in Frames, ready' = Append(ready, f), Suspended(f)',
         \A i \in DOMAIN ready : ready[i] # f,
         \A g \in Frames : g # f /\ Suspended(g) => Suspended(g)'
  PROVE  InQueue' /\ ready' \in Seq(Frames)
<1>1. /\ ready' \in Seq(Frames) /\ DOMAIN ready = 1..Len(ready) /\ Len(ready) \in Nat
      /\ DOMAIN ready' = 1..(Len(ready) + 1)
      /\ \A i \in DOMAIN ready : ready'[i] = ready[i] /\ ready[i] \in Frames
      /\ ready'[Len(ready) + 1] = f
  BY DEF ChainInv, ChainTypeOK
<1>2. \A i \in DOMAIN ready : Suspended(ready[i])
  BY Zenon DEF ChainInv, InQueue
<1>3. \A i \in DOMAIN ready' : i \in DOMAIN ready \/ i = Len(ready) + 1
  BY <1>1
<1>4. ASSUME NEW i \in DOMAIN ready'
      PROVE  Suspended(ready[i])' /\ \A j \in DOMAIN ready' : ready'[i] = ready'[j] => i = j
  <2>1. CASE i \in DOMAIN ready
    <3>1. /\ ready'[i] = ready[i] /\ ready[i] # f /\ ready[i] \in Frames
          /\ \A j \in DOMAIN ready : ready[i] = ready[j] => i = j
      BY <1>1, <2>1, Zenon DEF ChainInv, InQueue
    <3>2. PICK g \in Frames : g = ready[i] /\ g = ready'[i] /\ Suspended(g) /\ g # f
      BY <1>2, <2>1, <3>1, Zenon
    <3>3. Suspended(g)'
      BY <3>2, Zenon
    <3>4. Suspended(ready[i])'
      BY <3>2, <3>3, Zenon DEF Suspended
    <3> QED
      BY <1>1, <1>3, <3>1, <3>4, Zenon
  <2>2. CASE i = Len(ready) + 1
    <3>1. Suspended(ready[i])'
      BY <1>1, <2>2, Zenon DEF Suspended
    <3> QED
      BY <1>1, <1>3, <2>2, <3>1, Zenon
  <2> QED
    BY <1>3, <2>1, <2>2, Zenon
<1> QED
  BY <1>1, <1>4, Zenon DEF InQueue

LEMMA YieldKeeps ==
  ASSUME ChainInv, NEW p \in Frames, Yield(p) \/ Wait(p)
  PROVE  ChainInv'
<1>1. /\ Acts(p) /\ p # Main /\ stage' = [stage EXCEPT ![p] = "parked"] /\ running' = None
      /\ UNCHANGED <<tasks, awaiter, continuation, exception, raised, roots, completed,
                     alive, spawned, reported>>
      /\ ready' = ready \/ ready' = Append(ready, p)
  BY Zenon DEF Yield, Wait, executor
<1>2. stage[p] = "running" /\ p = running /\ raised[p] = None /\ completed = {}
  BY <1>1, ActsFacts, Zenon DEF Holders
<1>3. Single' /\ Kept' /\ Fresh' /\ Chained' /\ Waiting'
  BY <1>1, <1>2, StageStep, Zenon
<1>4. /\ \A i \in DOMAIN ready : ready[i] # p
      /\ \A g \in Frames : Suspended(g) => Suspended(g)'
      /\ Suspended(p)'
  BY <1>1, <1>2, Zenon DEF ChainInv, ChainTypeOK, InQueue, Suspended
<1>5. InQueue' /\ ready' \in Seq(Frames)
  <2>1. CASE ready' = ready
    BY <1>4, <2>1 DEF ChainInv, ChainTypeOK, InQueue, Suspended
  <2>2. CASE ready' = Append(ready, p)
    BY <1>4, <2>2, QueueGrows, Zenon
  <2> QED
    BY <1>1, <2>1, <2>2, Zenon
<1>6. ChainTypeOK'
  <2>1. \A g \in Frames : stage'[g] \in {"running", "resumed"} <=> g = running'
    BY <1>1, <1>2, TaskChainAssumption, Zenon DEF ChainInv, ChainTypeOK
  <2> QED
    BY <1>1, <1>5, <2>1, Zenon DEF ChainInv, ChainTypeOK
<1>7. Ended' /\ Propagating'
  BY <1>1, <1>2, Zenon DEF ChainInv, ChainTypeOK, Ended, Propagating
<1> QED
  BY <1>3, <1>5, <1>6, <1>7, Zenon DEF ChainInv

LEMMA WakeKeeps ==
  ASSUME ChainInv, NEW f \in Frames, Wake(f)
  PROVE  ChainInv'
<1>1. /\ stage[f] = "parked" /\ (\A i \in DOMAIN ready : ready[i] # f)
      /\ ready' = Append(ready, f)
      /\ UNCHANGED <<stage, tasks, awaiter, continuation, exception, raised, running,
                     roots, completed, alive, spawned, reported>>
  BY Zenon DEF Wake
<1>2. InQueue' /\ ready' \in Seq(Frames)
  BY <1>1, QueueGrows, Zenon DEF Suspended
<1>3. ChainTypeOK'
  BY <1>1, <1>2, Zenon DEF ChainInv, ChainTypeOK
<1>4. Single' /\ Kept' /\ Fresh' /\ Chained' /\ Waiting' /\ Ended' /\ Propagating'
  BY <1>1 DEF ChainInv, Single, Kept, Fresh, Chained, Waiting, Ended, Propagating, Holding, Live
<1> QED
  BY <1>2, <1>3, <1>4, Zenon DEF ChainInv

LEMMA ResumeKeeps ==
  ASSUME ChainInv, Resume
  PROVE  ChainInv'
<1>1. /\ running = None /\ completed = {} /\ ready # <<>> /\ ready' = Tail(ready)
      /\ running' = Head(ready) /\ stage' = [stage EXCEPT ![Head(ready)] = "running"]
      /\ UNCHANGED <<tasks, awaiter, continuation, exception, raised, roots, completed,
                     alive, spawned, reported>>
  BY Zenon DEF Resume
<1>2. /\ ready' \in Seq(Frames) /\ 1 \in DOMAIN ready /\ Head(ready) = ready[1]
      /\ \A i \in DOMAIN ready : ready[i] \in Frames
      /\ \A i \in DOMAIN ready' : /\ i + 1 \in DOMAIN ready /\ i \in Nat /\ i + 1 # 1
                                  /\ ready'[i] = ready[i + 1]
  BY <1>1 DEF ChainInv, ChainTypeOK
<1>3. PICK p \in Frames : p = ready[1]
  BY <1>2, Zenon
<1>4. Suspended(p) /\ running' = p /\ stage' = [stage EXCEPT ![p] = "running"]
  BY <1>1, <1>2, <1>3, Zenon DEF ChainInv, InQueue
<1>5. Single' /\ Kept' /\ Fresh' /\ Chained' /\ Waiting'
  BY <1>1, <1>4, StageStep, Zenon
<1>6. InQueue'
  <2>1. \A i \in DOMAIN ready' : ready'[i] \in Frames /\ ready'[i] # p /\ Suspended(ready'[i])
    BY <1>2, <1>3, Zenon DEF ChainInv, InQueue
  <2>2. \A i \in DOMAIN ready' : Suspended(ready[i])'
    BY <1>1, <1>4, <2>1, Zenon DEF ChainInv, ChainTypeOK, Suspended
  <2>3. \A i, j \in DOMAIN ready' : ready'[i] = ready'[j] => i = j
    BY <1>2 DEF ChainInv, InQueue
  <2> QED
    BY <2>2, <2>3, Zenon DEF InQueue
<1>7. ChainTypeOK'
  <2>1. \A g \in Frames : stage'[g] \in {"running", "resumed"} <=> g = running'
    BY <1>1, <1>4, TaskChainAssumption, Zenon DEF ChainInv, ChainTypeOK
  <2> QED
    BY <1>1, <1>2, <1>4, <2>1 DEF ChainInv, ChainTypeOK
<1>8. Ended' /\ Propagating'
  BY <1>1, <1>4, Zenon DEF ChainInv, ChainTypeOK, Ended, Propagating, Suspended
<1> QED
  BY <1>5, <1>6, <1>7, <1>8, Zenon DEF ChainInv

LEMMA RaiseKeeps ==
  ASSUME ChainInv, NEW p \in Frames, Raise(p) \/ Catch(p)
  PROVE  ChainInv'
<1>1. /\ UNCHANGED <<stage, tasks, awaiter, continuation, exception, running, roots,
                     completed, ready, alive, spawned, reported>>
      /\ \/ raised' = [raised EXCEPT ![p] = None]
         \/ raised' = [raised EXCEPT ![p] = p] /\ Acts(p)
  BY Zenon DEF Raise, Catch, executor
<1>2. Acts(p) => stage[p] = "running"
  BY ActsFacts, Zenon DEF Holders
<1>3. ChainTypeOK'
  BY <1>1 DEF ChainInv, ChainTypeOK
<1>4. Single' /\ Kept' /\ Fresh' /\ Chained' /\ Waiting' /\ Ended' /\ InQueue'
  BY <1>1 DEF ChainInv, Single, Kept, Fresh, Chained, Waiting, Ended, InQueue, Suspended,
              Holding, Live
<1>5. Propagating'
  BY <1>1, <1>2 DEF ChainInv, ChainTypeOK, Propagating
<1> QED
  BY <1>3, <1>4, <1>5, Zenon DEF ChainInv

LEMMA CreateKeeps ==
  ASSUME ChainInv, NEW p \in Holders, NEW f \in Frames, NEW given \in SUBSET tasks[p],
         Create(p, f, given)
  PROVE  ChainInv'
<1>1. /\ Acts(p) /\ stage[f] = "unborn"
      /\ stage' = [stage EXCEPT ![f] = "initial"]
      /\ tasks' = [tasks EXCEPT ![p] = (@ \ given) \cup {f}, ![f] = given]
      /\ UNCHANGED <<awaiter, continuation, exception, raised, running, roots, completed,
                     ready, alive, spawned, reported>>
  BY Zenon DEF Create, executor
<1>2. /\ p # f /\ f \in Holders /\ awaiter[f] = None /\ tasks[f] = {}
      /\ p \in Frames => awaiter[p] = None /\ stage[p] = "running"
      /\ given \in SUBSET Frames
  BY <1>1, ActsFacts, TaskChainAssumption DEF ChainInv, ChainTypeOK, Waiting, Holders
<1>3. /\ stage'[f] = "initial" /\ \A g \in Frames : g # f => stage'[g] = stage[g]
      /\ tasks'[p] = (tasks[p] \ given) \cup {f} /\ tasks'[f] = given
      /\ \A q \in Holders : q # p /\ q # f => tasks'[q] = tasks[q]
  BY <1>1, <1>2, Zenon DEF ChainInv, ChainTypeOK
<1>4. f \notin roots /\ \A q \in Holders : f \notin Holding(q)
  BY <1>1, Zenon DEF ChainInv, Kept, Live
<1>5. /\ Holding(p)' = (Holding(p) \ given) \cup {f}
      /\ Holding(f)' = given
      /\ \A q \in Holders : q # p /\ q # f => Holding(q)' = Holding(q)
      /\ Holding(f) = {} /\ given \subseteq Holding(p)
  BY <1>1, <1>2, <1>3, TaskChainAssumption, Zenon DEF Holding
<1>6. Single'
  BY <1>1, <1>2, <1>4, <1>5 DEF ChainInv, Single
<1>7. Kept'
  <2>1. \A g \in Frames : Live(g)' <=> g = f \/ Live(g)
    BY <1>1, <1>3, Zenon DEF Live
  <2>2. \A g \in Frames : (\E q \in Holders : g \in Holding(q)')
                           <=> g = f \/ \E q \in Holders : g \in Holding(q)
    BY <1>2, <1>5, Zenon
  <2> QED
    BY <1>1, <2>1, <2>2, Zenon DEF ChainInv, Kept
<1>8. Fresh'
  <2>1. \A q \in Holders : f \notin tasks[q]
    BY <1>4, HoldingFacts, Zenon DEF ChainInv
  <2>2. \A q \in Holders : \A g \in tasks'[q] : g = f \/ \E r \in Holders : g \in tasks[r] /\ g \in Frames
    BY <1>2, <1>3, Zenon DEF ChainInv, ChainTypeOK
  <2> QED
    BY <1>3, <2>1, <2>2, Zenon DEF ChainInv, Fresh
<1>9. Chained'
  <2> SUFFICES ASSUME NEW g \in Frames \ roots, stage'[g] \in Started
               PROVE  \E q \in Frames :
                        /\ continuation[g] = q /\ awaiter[q] = g
                        /\ stage'[q] = IF stage'[g] = "done" THEN "resumed" ELSE "awaiting"
    BY <1>1 DEF Chained, Started
  <2>1. stage'[g] = stage[g]
    BY <1>3, Zenon DEF Started
  <2>2. PICK q \in Frames : /\ continuation[g] = q /\ awaiter[q] = g
                            /\ stage[q] = IF stage[g] = "done" THEN "resumed" ELSE "awaiting"
    BY <2>1, Zenon DEF ChainInv, Chained
  <2> QED
    BY <1>1, <1>3, <2>1, <2>2, Zenon
<1>10. Waiting'
  <2> SUFFICES ASSUME NEW q \in Frames
               PROVE  /\ stage'[q] \in {"awaiting", "resumed"} <=> awaiter[q] # None
                      /\ awaiter[q] # None => stage'[awaiter[q]] \in Started
                      /\ stage'[q] \in {"unborn", "done", "destroyed"} => tasks'[q] = {}
    BY <1>1, Zenon DEF Waiting, Started
  <2>1. awaiter[q] # None => awaiter[q] \in Frames /\ stage[awaiter[q]] \in Started
    BY DEF ChainInv, ChainTypeOK, Waiting
  <2>2. \A g \in Frames : stage[g] \in Started => stage'[g] \in Started
    BY <1>1, <1>3, Zenon DEF Started
  <2>3. CASE q = f
    BY <1>2, <1>3, <2>3, Zenon
  <2>4. CASE q = p
    BY <1>2, <1>3, <2>4, Zenon
  <2>5. CASE q # p /\ q # f
    <3>1. stage'[q] = stage[q] /\ tasks'[q] = tasks[q]
      BY <1>3, <2>5, Zenon DEF Holders
    <3> QED
      BY <2>1, <2>2, <3>1, Zenon DEF ChainInv, Waiting
  <2> QED
    BY <2>3, <2>4, <2>5, Zenon
<1>11. Ended' /\ Propagating'
  BY <1>1, <1>3, <1>4 DEF ChainInv, ChainTypeOK, Ended, Propagating
<1>12. InQueue'
  BY <1>1, <1>3 DEF ChainInv, ChainTypeOK, InQueue, Suspended
<1>13. ChainTypeOK'
  <2>1. \A g \in Frames : stage'[g] \in {"running", "resumed"} <=> g = running'
    BY <1>1, <1>3, Zenon DEF ChainInv, ChainTypeOK
  <2>2. tasks' \in [Holders -> SUBSET Frames]
    BY <1>1, <1>2 DEF ChainInv, ChainTypeOK
  <2> QED
    BY <1>1, <2>1, <2>2, Zenon DEF ChainInv, ChainTypeOK
<1> QED
  BY <1>6, <1>7, <1>8, <1>9, <1>10, <1>11, <1>12, <1>13, Zenon DEF ChainInv

LEMMA SpawnKeeps ==
  ASSUME ChainInv, NEW p \in Holders, NEW f \in Frames, Spawn(p, f)
  PROVE  ChainInv'
<1>1. /\ Acts(p) /\ f \in tasks[p] /\ tasks' = [tasks EXCEPT ![p] = @ \ {f}]
      /\ roots' = roots \cup {f} /\ spawned' = spawned \cup {f}
      /\ ready' = Append(ready, f)
      /\ UNCHANGED <<stage, awaiter, continuation, exception, raised, running,
                     completed, alive, reported>>
  BY Zenon DEF Spawn
<1>2. /\ tasks'[p] = tasks[p] \ {f}
      /\ \A q \in Holders : q # p => tasks'[q] = tasks[q]
  BY <1>1, Zenon DEF ChainInv, ChainTypeOK
<1>3. stage[f] = "initial" /\ f \in Holding(p) /\ f \notin roots
  BY <1>1, HoldingFacts, Zenon DEF ChainInv, Fresh, Single
<1>4. \A q \in Frames : awaiter[q] # f
  BY <1>3, TaskChainAssumption, Zenon DEF ChainInv, Waiting, Started
<1>5. Holding(p)' = Holding(p) \ {f} /\ \A q \in Holders : q # p => Holding(q)' = Holding(q)
  BY <1>1, <1>2, <1>4, Zenon DEF Holding
<1>6. Single'
  BY <1>1, <1>3, <1>5 DEF ChainInv, Single
<1>7. Kept'
  BY <1>1, <1>3, <1>5, Zenon DEF ChainInv, Kept, Live
<1>8. Fresh' /\ Waiting'
  BY <1>1, <1>2, Zenon DEF ChainInv, Fresh, Waiting, Holders
<1>9. Chained' /\ Propagating'
  BY <1>1 DEF ChainInv, Chained, Propagating
<1>10. Ended'
  BY <1>1, <1>3, Zenon DEF ChainInv, Ended
<1>11. InQueue' /\ ready' \in Seq(Frames)
  <2>1. \A i \in DOMAIN ready : ready[i] # f
    BY <1>3, Zenon DEF ChainInv, InQueue, Suspended
  <2>2. Suspended(f)' /\ \A g \in Frames : Suspended(g) => Suspended(g)'
    BY <1>1, <1>3, Zenon DEF Suspended
  <2> QED
    BY <1>1, <2>1, <2>2, QueueGrows, Zenon
<1>12. ChainTypeOK'
  BY <1>1, <1>11, Zenon DEF ChainInv, ChainTypeOK
<1> QED
  BY <1>6, <1>7, <1>8, <1>9, <1>10, <1>11, <1>12, Zenon DEF ChainInv

LEMMA AwaitKeeps ==
  ASSUME ChainInv, NEW p \in Frames, NEW f \in Frames, Await(p, f)
  PROVE  ChainInv'
<1>1. Acts(p) /\ p # Main /\ f \in tasks[p]
  BY Zenon DEF Await
<1>2. /\ stage[p] = "running" /\ awaiter[p] = None /\ raised[p] = None /\ p = running
      /\ completed = {} /\ p \in Holders
  BY <1>1, ActsFacts, Zenon DEF Holders
<1>3. stage[f] = "initial" /\ f # p /\ awaiter[f] = None /\ f \notin roots
  BY <1>1, <1>2, HoldingFacts, Zenon DEF ChainInv, Fresh, Single, Waiting
<1>4. /\ tasks' = [tasks EXCEPT ![p] = @ \ {f}]
      /\ awaiter' = [awaiter EXCEPT ![p] = f]
      /\ continuation' = [continuation EXCEPT ![f] = p]
      /\ stage' = [stage EXCEPT ![p] = "awaiting", ![f] = "running"]
      /\ running' = f
      /\ UNCHANGED <<exception, raised, roots, completed, ready, alive, spawned, reported>>
  BY <1>3, Zenon DEF Await, executor
<1>5. /\ stage'[p] = "awaiting" /\ stage'[f] = "running"
      /\ \A g \in Frames : g # p /\ g # f => stage'[g] = stage[g]
      /\ awaiter'[p] = f /\ \A g \in Frames : g # p => awaiter'[g] = awaiter[g]
      /\ tasks'[p] = tasks[p] \ {f} /\ \A q \in Holders : q # p => tasks'[q] = tasks[q]
      /\ continuation'[f] = p
      /\ \A g \in Frames : g # f => continuation'[g] = continuation[g]
  BY <1>2, <1>3, <1>4, Zenon DEF ChainInv, ChainTypeOK
<1>6. \A q \in Holders : Holding(q)' = Holding(q)
  BY <1>1, <1>2, <1>5, TaskChainAssumption DEF Holding
<1>7. Single' /\ Kept'
  <2>1. \A g \in Frames : Live(g)' <=> Live(g)
    BY <1>2, <1>3, <1>5, Zenon DEF Live
  <2> QED
    BY <1>4, <1>6, <2>1 DEF ChainInv, Single, Kept
<1>8. Fresh'
  <2>1. \A q \in Holders : \A g \in tasks'[q] : g \in tasks[q] /\ g # f /\ g \in Frames
    BY <1>1, <1>2, <1>5, HoldingFacts DEF ChainInv, Single, ChainTypeOK
  <2> QED
    BY <1>2, <1>5, <2>1 DEF ChainInv, Fresh
<1>9. Chained'
  <2> SUFFICES ASSUME NEW g \in Frames \ roots, stage'[g] \in Started
               PROVE  \E q \in Frames :
                        /\ continuation'[g] = q /\ awaiter'[q] = g
                        /\ stage'[q] = IF stage'[g] = "done" THEN "resumed" ELSE "awaiting"
    BY <1>4, Zenon DEF Chained, Started
  <2>1. CASE g = f
    BY <1>5, <2>1, Zenon
  <2>2. CASE g # f
    <3>1. stage[g] \in Started /\ (stage'[g] = "done" <=> stage[g] = "done")
      BY <1>2, <1>5, <2>2, Zenon DEF Started
    <3>2. PICK q \in Frames : /\ continuation[g] = q /\ awaiter[q] = g
                              /\ stage[q] = IF stage[g] = "done" THEN "resumed" ELSE "awaiting"
      BY <3>1, Zenon DEF ChainInv, Chained
    <3>3. q # p /\ q # f
      BY <1>2, <1>3, <3>2, Zenon
    <3> QED
      BY <1>5, <2>2, <3>1, <3>2, <3>3, Zenon
  <2> QED
    BY <2>1, <2>2, Zenon
<1>10. Waiting'
  <2> SUFFICES ASSUME NEW q \in Frames
               PROVE  /\ stage'[q] \in {"awaiting", "resumed"} <=> awaiter'[q] # None
                      /\ awaiter'[q] # None => stage'[awaiter'[q]] \in Started
                      /\ stage'[q] \in {"unborn", "done", "destroyed"} => tasks'[q] = {}
    BY Zenon DEF Waiting, Started
  <2>1. CASE q = p
    BY <1>5, <2>1, TaskChainAssumption, Zenon DEF Started
  <2>2. CASE q = f
    BY <1>3, <1>5, <2>2, Zenon
  <2>3. CASE q # p /\ q # f
    <3>1. stage'[q] = stage[q] /\ awaiter'[q] = awaiter[q] /\ tasks'[q] = tasks[q]
      BY <1>5, <2>3, Zenon DEF Holders
    <3>2. awaiter[q] # None => awaiter[q] \in Frames /\ stage[awaiter[q]] \in Started
      BY DEF ChainInv, ChainTypeOK, Waiting
    <3>3. \A g \in Frames : stage[g] \in Started => stage'[g] \in Started
      BY <1>5, Zenon DEF Started
    <3> QED
      BY <3>1, <3>2, <3>3, Zenon DEF ChainInv, Waiting
  <2> QED
    BY <2>1, <2>2, <2>3, Zenon
<1>11. Ended' /\ Propagating'
  BY <1>2, <1>3, <1>4, <1>5, Zenon DEF ChainInv, ChainTypeOK, Ended, Propagating
<1>12. InQueue'
  BY <1>2, <1>3, <1>4, <1>5 DEF ChainInv, ChainTypeOK, InQueue, Suspended
<1>13. ChainTypeOK'
  <2>1. \A g \in Frames : stage'[g] \in {"running", "resumed"} <=> g = running'
    BY <1>2, <1>4, <1>5, Zenon DEF ChainInv, ChainTypeOK
  <2>2. tasks' \in [Holders -> SUBSET Frames] /\ awaiter' \in [Frames -> Frames \cup {None}]
    BY <1>4, Zenon DEF ChainInv, ChainTypeOK
  <2> QED
    BY <1>4, <2>1, <2>2, Zenon DEF ChainInv, ChainTypeOK
<1> QED
  BY <1>7, <1>8, <1>9, <1>10, <1>11, <1>12, <1>13, Zenon DEF ChainInv

LEMMA AwaitResumeKeeps ==
  ASSUME ChainInv, NEW p \in Frames, AwaitResume(p)
  PROVE  ChainInv' /\ stage[awaiter[p]] = "done"
<1>1. /\ p = running /\ stage[p] = "resumed"
      /\ raised' = [raised EXCEPT ![p] = exception[awaiter[p]]]
      /\ UNCHANGED <<continuation, exception, running, roots, completed, ready, alive,
                     spawned, reported>>
  BY Zenon DEF AwaitResume, executor
<1>2. PICK c \in Frames : c = awaiter[p]
  BY <1>1 DEF ChainInv, ChainTypeOK, Waiting
<1>3. /\ p \in Holders /\ c \in Holders /\ c \in Holding(p) /\ c \notin roots
      /\ stage[c] \in Started
      /\ \A q \in Holders : c \in Holding(q) => q = p
  BY <1>2, HoldingFacts, TaskChainAssumption, Zenon DEF ChainInv, Single, Waiting, Holders
<1>4. stage[c] = "done"
  <2>1. PICK q \in Frames : /\ awaiter[q] = c
                            /\ stage[q] = IF stage[c] = "done" THEN "resumed" ELSE "awaiting"
    BY <1>3, Zenon DEF ChainInv, Chained
  <2>2. q = p
    BY <1>3, <2>1, HoldingFacts, Zenon DEF ChainInv, Holders
  <2> QED
    BY <1>1, <2>1, <2>2, Zenon
<1>5. c # p /\ awaiter[c] = None /\ tasks[c] = {} /\ Dead({c}) = {c} /\ completed = {}
  <2>1. Dead({c}) = {c}
    BY <1>4, DeadDone, Zenon
  <2> QED
    BY <1>1, <1>4, <2>1, TaskChainAssumption, Zenon DEF ChainInv, Waiting, Ended
<1>6. /\ stage' = [g \in Frames |-> IF g = c THEN "destroyed" ELSE IF g = p THEN "running"
                                    ELSE stage[g]]
      /\ tasks' = tasks
      /\ awaiter' = [g \in Frames |-> IF g = c \/ g = p THEN None ELSE awaiter[g]]
  <2>0. {Dead({awaiter[p]})} = {{c}}
    BY <1>2, <1>5, Zenon
  <2>1. \E D \in {{c}} :
          /\ stage' = [g \in Frames |-> IF g \in D THEN "destroyed"
                                        ELSE [stage EXCEPT ![p] = "running"][g]]
          /\ tasks' = [q \in Holders |-> IF q \in D THEN {} ELSE tasks[q]]
          /\ awaiter' = [g \in Frames |-> IF g \in D THEN None
                                          ELSE [awaiter EXCEPT ![p] = None][g]]
    BY <2>0, Zenon DEF AwaitResume, destroy
  <2> QED
    BY <1>5, <2>1 DEF ChainInv, ChainTypeOK
<1>7. /\ stage'[c] = "destroyed" /\ stage'[p] = "running"
      /\ awaiter'[c] = None /\ awaiter'[p] = None
      /\ \A g \in Frames : g # c /\ g # p => stage'[g] = stage[g] /\ awaiter'[g] = awaiter[g]
  BY <1>5, <1>6, Zenon
<1>8. Single' /\ Kept'
  <2>1. ASSUME NEW q \in Holders
        PROVE  Holding(q)' = IF q \in {c} THEN {} ELSE Holding(q) \ {c}
    <3>1. CASE q = c
      BY <1>5, <1>6, <1>7, <3>1, TaskChainAssumption, Zenon DEF Holding
    <3>2. CASE q = p
      <4>1. c \notin tasks[p]
        BY <1>3, <1>4, Zenon DEF ChainInv, Fresh
      <4> QED
        BY <1>2, <1>5, <1>6, <1>7, <3>2, <4>1, TaskChainAssumption, Zenon DEF Holding
    <3>3. CASE q # c /\ q # p
      <4>1. Holding(q)' = Holding(q)
        BY <1>6, <1>7, <3>3, Zenon DEF Holding
      <4> QED
        BY <1>3, <3>3, <4>1, Zenon
    <3> QED
      BY <3>1, <3>2, <3>3, Zenon
  <2>2. Destroys({c})
    BY <1>1, <1>3, <1>5, <1>7, <2>1, Zenon DEF Destroys, Live
  <2> QED
    BY <2>2, DestroysKeeps, Zenon DEF ChainInv
<1>9. Fresh'
  <2>1. \A q \in Holders : c \notin tasks[q] /\ p \notin tasks[q]
    BY <1>1, <1>4, Zenon DEF ChainInv, Fresh
  <2> QED
    BY <1>6, <1>7, <2>1 DEF ChainInv, ChainTypeOK, Fresh
<1>10. Chained'
  <2> SUFFICES ASSUME NEW g \in Frames \ roots, stage'[g] \in Started
               PROVE  \E q \in Frames :
                        /\ continuation[g] = q /\ awaiter'[q] = g
                        /\ stage'[q] = IF stage'[g] = "done" THEN "resumed" ELSE "awaiting"
    BY <1>1 DEF Chained, Started
  <2>1. g # c /\ stage[g] \in Started /\ (stage'[g] = "done" <=> stage[g] = "done")
    BY <1>1, <1>7, Zenon DEF Started
  <2>2. PICK q \in Frames : /\ continuation[g] = q /\ awaiter[q] = g
                            /\ stage[q] = IF stage[g] = "done" THEN "resumed" ELSE "awaiting"
    BY <2>1, Zenon DEF ChainInv, Chained
  <2>3. q # p /\ q # c
    BY <1>2, <1>4, <2>1, <2>2, Zenon
  <2> QED
    BY <1>7, <2>1, <2>2, <2>3, Zenon
<1>11. Waiting'
  <2> SUFFICES ASSUME NEW q \in Frames
               PROVE  /\ stage'[q] \in {"awaiting", "resumed"} <=> awaiter'[q] # None
                      /\ awaiter'[q] # None => stage'[awaiter'[q]] \in Started
                      /\ stage'[q] \in {"unborn", "done", "destroyed"} => tasks[q] = {}
    BY <1>6, Zenon DEF Waiting, Started
  <2>1. CASE q = p \/ q = c
    BY <1>5, <1>7, <2>1, Zenon
  <2>2. CASE q # p /\ q # c
    <3>1. stage'[q] = stage[q] /\ awaiter'[q] = awaiter[q]
      BY <1>7, <2>2, Zenon
    <3>2. awaiter[q] # None => awaiter[q] \in Frames /\ stage[awaiter[q]] \in Started
      BY DEF ChainInv, ChainTypeOK, Waiting
    <3>3. awaiter[q] # c
      BY <1>3, <2>2, HoldingFacts, Zenon DEF ChainInv, Holders
    <3>4. \A g \in Frames : g # c /\ stage[g] \in Started => stage'[g] \in Started
      BY <1>7, Zenon DEF Started
    <3> QED
      BY <3>1, <3>2, <3>3, <3>4, Zenon DEF ChainInv, Waiting
  <2> QED
    BY <2>1, <2>2, Zenon
<1>12. Ended' /\ Propagating'
  <2>1. \A g \in Frames : raised[g] = None
    BY <1>1, Zenon DEF ChainInv, ChainTypeOK, Propagating
  <2> QED
    BY <1>1, <1>3, <1>5, <1>7, <2>1 DEF ChainInv, ChainTypeOK, Ended, Propagating
<1>13. InQueue'
  BY <1>1, <1>4, <1>7 DEF ChainInv, ChainTypeOK, InQueue, Suspended
<1>14. ChainTypeOK'
  <2>1. \A g \in Frames : stage'[g] \in {"running", "resumed"} <=> g = running'
    BY <1>1, <1>7, Zenon DEF ChainInv, ChainTypeOK
  <2>2. raised' \in [Frames -> Frames \cup {None}]
    BY <1>1, <1>2, Zenon DEF ChainInv, ChainTypeOK
  <2> QED
    BY <1>1, <1>6, <2>1, <2>2, Zenon DEF ChainInv, ChainTypeOK
<1> QED
  BY <1>2, <1>4, <1>8, <1>9, <1>10, <1>11, <1>12, <1>13, <1>14, Zenon DEF ChainInv

LEMMA FinishKeeps ==
  ASSUME ChainInv, NEW p \in Frames, Finish(p)
  PROVE  ChainInv'
<1>1. /\ p = running /\ stage[p] = "running" /\ p \in Holders /\ p # None
      /\ exception' = [exception EXCEPT ![p] = raised[p]]
      /\ raised' = [raised EXCEPT ![p] = None]
      /\ completed' = IF p \in roots THEN completed \cup {p} ELSE completed
      /\ UNCHANGED <<continuation, roots, ready, alive, spawned, reported>>
  BY TaskChainAssumption, Zenon DEF Finish, Holders
<1>2. awaiter[p] = None /\ completed = {} /\ \A g \in Frames : g # p => raised[g] = None
  BY <1>1, Zenon DEF ChainInv, ChainTypeOK, Waiting, Ended, Propagating
<1>3. PICK n : n = IF p \in roots THEN None ELSE continuation[p]
  BY Zenon
<1>4. /\ p \in roots => n = None
      /\ p \notin roots => /\ n \in Frames /\ continuation[p] = n /\ awaiter[n] = p
                           /\ stage[n] = "awaiting" /\ n # p
      /\ n \in Frames \cup {None} /\ (n \in Frames <=> p \notin roots)
  <2>1. CASE p \in roots
    BY <1>3, <2>1, TaskChainAssumption, Zenon
  <2>2. CASE p \notin roots
    <3>1. stage[p] \in Started /\ stage[p] # "done"
      BY <1>1, Zenon DEF Started
    <3>2. PICK q \in Frames : continuation[p] = q /\ awaiter[q] = p /\ stage[q] = "awaiting"
      BY <2>2, <3>1, Zenon DEF ChainInv, Chained
    <3> QED
      BY <1>1, <1>3, <2>2, <3>2, Zenon
  <2> QED
    BY <2>1, <2>2, Zenon
<1>5. PICK S \in SUBSET Frames : S = tasks[p]
  BY <1>1, Zenon DEF ChainInv, ChainTypeOK
<1>6. \A f \in S : stage[f] = "initial" /\ f \notin roots /\ f \in Holding(p)
  BY <1>1, <1>5, HoldingFacts, Zenon DEF ChainInv, Fresh, Single
<1>7. PICK D \in SUBSET Frames :
        /\ D = Dead(S) /\ S \subseteq D /\ \A g \in D : stage[g] = "initial" /\ g \notin roots
  BY <1>6, DeadFacts, DeadInitial, DeadApart DEF ChainInv
<1>8. /\ stage' = [g \in Frames |-> IF g \in D THEN "destroyed" ELSE
                                    IF g = p THEN "done" ELSE
                                    IF g = n THEN "resumed" ELSE stage[g]]
      /\ tasks' = [q \in Holders |-> IF q \in D \/ q = p THEN {} ELSE tasks[q]]
      /\ awaiter' = [g \in Frames |-> IF g \in D THEN None ELSE awaiter[g]]
      /\ running' = n
  <2>1. \E E \in {D} :
          /\ stage' = [g \in Frames |-> IF g \in E THEN "destroyed"
                         ELSE [f \in Frames |-> CASE f = p -> "done"
                                                  [] f = n -> "resumed"
                                                  [] OTHER -> stage[f]][g]]
          /\ tasks' = [q \in Holders |-> IF q \in E THEN {} ELSE [tasks EXCEPT ![p] = {}][q]]
          /\ awaiter' = [g \in Frames |-> IF g \in E THEN None ELSE awaiter[g]]
    BY <1>3, <1>5, <1>7 DEF Finish, destroy
  <2>2. running' = n
    BY <1>3, Zenon DEF Finish
  <2>3. \A g \in Frames : [f \in Frames |-> CASE f = p -> "done" [] f = n -> "resumed"
                                              [] OTHER -> stage[f]][g]
                          = IF g = p THEN "done" ELSE IF g = n THEN "resumed" ELSE stage[g]
    BY <1>1, <1>4, Zenon
  <2> QED
    BY <1>1, <2>1, <2>2, <2>3 DEF ChainInv, ChainTypeOK
<1>9. /\ p \notin D /\ n \notin D /\ stage'[p] = "done" /\ awaiter'[p] = None /\ tasks'[p] = {}
      /\ \A g \in D : stage'[g] = "destroyed" /\ awaiter'[g] = None /\ tasks'[g] = {}
      /\ n \in Frames => stage'[n] = "resumed" /\ awaiter'[n] = p
      /\ \A g \in Frames : g # p /\ g # n /\ g \notin D => stage'[g] = stage[g]
      /\ \A g \in Frames : g \notin D => awaiter'[g] = awaiter[g]
      /\ \A q \in Holders : q \notin D /\ q # p => tasks'[q] = tasks[q]
  BY <1>1, <1>2, <1>4, <1>7, <1>8, TaskChainAssumption, Zenon DEF Holders
<1>10. Single' /\ Kept'
  <2>1. ASSUME NEW q \in Holders
        PROVE  Holding(q)' = IF q \in D THEN {} ELSE Holding(q) \ S
    <3>1. CASE q \in D
      BY <1>9, <3>1, TaskChainAssumption DEF Holding
    <3>2. CASE q = p
      BY <1>2, <1>5, <1>9, <3>2, TaskChainAssumption DEF Holding
    <3>3. CASE q \notin D /\ q # p
      <4>1. Holding(q)' = Holding(q)
        BY <1>9, <3>3, Zenon DEF Holding
      <4>2. \A f \in S : f \notin Holding(q)
        BY <1>1, <1>6, <3>3, Zenon DEF ChainInv, Single
      <4> QED
        BY <3>3, <4>1, <4>2, Zenon
    <3> QED
      BY <3>1, <3>2, <3>3, Zenon
  <2>2. ASSUME NEW g \in Frames, g \notin D
        PROVE  Live(g)' <=> Live(g)
    BY <1>1, <1>4, <1>9, <2>2, Zenon DEF Live
  <2>3. Destroys(S)
    BY <1>1, <1>6, <1>7, <1>9, <2>1, <2>2, Zenon DEF Destroys
  <2> QED
    BY <2>3, DestroysKeeps, Zenon DEF ChainInv
<1>11. Fresh'
  <2> SUFFICES ASSUME NEW q \in Holders, NEW f \in tasks'[q]
               PROVE  stage'[f] = "initial"
    BY Zenon DEF Fresh
  <2>1. q \notin D /\ q # p /\ f \in tasks[q] /\ f \in Frames
    BY <1>9, Zenon DEF ChainInv, ChainTypeOK
  <2>2. stage[f] = "initial"
    BY <2>1, Zenon DEF ChainInv, Fresh
  <2>3. f \notin D
    <3>1. Live(f)'
      BY <1>10, <2>1, Zenon DEF Kept, Holding
    <3> QED
      BY <1>9, <3>1, Zenon DEF Live
  <2> QED
    BY <1>1, <1>4, <1>9, <2>1, <2>2, <2>3, Zenon
<1>12. Chained'
  <2> SUFFICES ASSUME NEW g \in Frames \ roots, stage'[g] \in Started
               PROVE  \E q \in Frames :
                        /\ continuation[g] = q /\ awaiter'[q] = g
                        /\ stage'[q] = IF stage'[g] = "done" THEN "resumed" ELSE "awaiting"
    BY <1>1 DEF Chained, Started
  <2>1. CASE g = p
    BY <1>4, <1>9, <2>1, Zenon
  <2>2. CASE g # p
    <3>1. g \notin D /\ stage[g] \in Started /\ (stage'[g] = "done" <=> stage[g] = "done")
      BY <1>4, <1>9, <2>2, Zenon DEF Started
    <3>2. PICK q \in Frames : /\ continuation[g] = q /\ awaiter[q] = g
                              /\ stage[q] = IF stage[g] = "done" THEN "resumed" ELSE "awaiting"
      BY <3>1, Zenon DEF ChainInv, Chained
    <3>3. q # p /\ q # n /\ q \notin D
      BY <1>2, <1>4, <1>7, <2>2, <3>2, TaskChainAssumption, Zenon
    <3> QED
      BY <1>9, <3>1, <3>2, <3>3, Zenon
  <2> QED
    BY <2>1, <2>2, Zenon
<1>13. Waiting'
  <2> SUFFICES ASSUME NEW q \in Frames
               PROVE  /\ stage'[q] \in {"awaiting", "resumed"} <=> awaiter'[q] # None
                      /\ awaiter'[q] # None => stage'[awaiter'[q]] \in Started
                      /\ stage'[q] \in {"unborn", "done", "destroyed"} => tasks'[q] = {}
    BY Zenon DEF Waiting, Started
  <2>1. CASE q \in D \/ q = p
    BY <1>9, <2>1, Zenon
  <2>2. CASE q = n
    BY <1>1, <1>9, <2>2, Zenon DEF Started
  <2>3. CASE q \notin D /\ q # p /\ q # n
    <3>1. stage'[q] = stage[q] /\ awaiter'[q] = awaiter[q] /\ tasks'[q] = tasks[q]
      BY <1>9, <2>3, Zenon DEF Holders
    <3>2. awaiter[q] # None => awaiter[q] \in Frames /\ stage[awaiter[q]] \in Started
      BY DEF ChainInv, ChainTypeOK, Waiting
    <3>3. \A g \in Frames : stage[g] \in Started => stage'[g] \in Started
      BY <1>7, <1>9, Zenon DEF Started
    <3> QED
      BY <3>1, <3>2, <3>3, Zenon DEF ChainInv, Waiting
  <2> QED
    BY <2>1, <2>2, <2>3, Zenon
<1>14. Ended'
  <2>1. \A g \in roots : stage'[g] = "done" <=> g = p
    <3>1. \A g \in roots : g \in Frames /\ stage[g] # "done"
      BY <1>2, Zenon DEF ChainInv, ChainTypeOK, Ended
    <3> QED
      BY <1>7, <1>9, <3>1, Zenon
  <2> QED
    BY <1>1, <1>2, <1>4, <1>8, <2>1, Zenon DEF Ended
<1>15. Propagating'
  BY <1>1, <1>2, Zenon DEF ChainInv, ChainTypeOK, Propagating
<1>16. InQueue'
  <2>1. \A i \in DOMAIN ready : ready[i] \in Frames /\ Suspended(ready[i])
    BY DEF ChainInv, ChainTypeOK, InQueue
  <2>2. \A i \in DOMAIN ready : stage'[ready[i]] = stage[ready[i]]
    BY <1>1, <1>4, <1>7, <1>9, <2>1 DEF Suspended
  <2> QED
    BY <1>1, <2>1, <2>2, Zenon DEF ChainInv, InQueue, Suspended
<1>17. ChainTypeOK'
  <2>1. \A g \in Frames : stage'[g] \in {"running", "resumed"} <=> g = running'
    BY <1>1, <1>4, <1>7, <1>8, <1>9, TaskChainAssumption DEF ChainInv, ChainTypeOK
  <2>2. /\ stage' \in [Frames -> {"unborn", "initial", "running", "awaiting", "resumed",
                                  "parked", "done", "destroyed"}]
        /\ tasks' \in [Holders -> SUBSET Frames]
        /\ awaiter' \in [Frames -> Frames \cup {None}]
    BY <1>8, Zenon DEF ChainInv, ChainTypeOK
  <2>3. /\ exception' \in [Frames -> Frames \cup {None}]
        /\ raised' \in [Frames -> Frames \cup {None}]
        /\ completed' \in SUBSET Frames /\ running' \in Frames \cup {None}
    BY <1>1, <1>4, <1>8, Zenon DEF ChainInv, ChainTypeOK
  <2> QED
    BY <1>1, <2>1, <2>2, <2>3, Zenon DEF ChainInv, ChainTypeOK
<1> QED
  BY <1>10, <1>11, <1>12, <1>13, <1>14, <1>15, <1>16, <1>17, Zenon DEF ChainInv

----------------------------------------------------------------------------
(* The invariant holds.                                                    *)

LEMMA ChainInvInit ==
  Init => ChainInv
<1> SUFFICES ASSUME Init
             PROVE  ChainInv
  BY Zenon
<1>1. /\ \A f \in Frames : /\ stage[f] = "unborn" /\ awaiter[f] = None /\ raised[f] = None
                           /\ tasks[f] = {}
      /\ \A p \in Holders : tasks[p] = {}
      /\ running = None /\ roots = {} /\ completed = {} /\ ready = <<>>
  BY Zenon DEF Init, Holders
<1>2. \A p \in Holders : Holding(p) = {}
  BY <1>1, TaskChainAssumption, Zenon DEF Holding
<1>3. ChainTypeOK
  <2>1. \A f \in Frames : stage[f] \in {"running", "resumed"} <=> f = running
    BY <1>1, TaskChainAssumption, Zenon
  <2>2. alive \in BOOLEAN
    BY Zenon DEF Init
  <2>3. /\ continuation \in [Frames -> Frames \cup {None}]
        /\ exception \in [Frames -> Frames \cup {None}]
        /\ raised \in [Frames -> Frames \cup {None}]
        /\ awaiter \in [Frames -> Frames \cup {None}]
        /\ tasks \in [Holders -> SUBSET Frames]
    BY Zenon DEF Init
  <2>4. /\ stage \in [Frames -> {"unborn", "initial", "running", "awaiting", "resumed",
                                 "parked", "done", "destroyed"}]
        /\ ready \in Seq(Frames) /\ running \in Frames \cup {None}
        /\ roots \in SUBSET Frames /\ completed \in SUBSET Frames
        /\ spawned \in SUBSET Frames /\ reported \in SUBSET Frames
    BY DEF Init
  <2> QED
    BY <2>1, <2>2, <2>3, <2>4, Zenon DEF ChainTypeOK
<1>4. Single /\ Kept
  BY <1>1, <1>2, Zenon DEF Single, Kept, Live
<1>5. Fresh /\ Chained /\ Waiting /\ Ended /\ Propagating
  BY <1>1, Zenon DEF Fresh, Chained, Started, Waiting, Ended, Propagating
<1>6. InQueue
  BY <1>1 DEF InQueue
<1> QED
  BY <1>3, <1>4, <1>5, <1>6, Zenon DEF ChainInv

LEMMA ChainInvStep ==
  ChainInv /\ [Next]_vars => ChainInv'
<1> SUFFICES ASSUME ChainInv, [Next]_vars
             PROVE  ChainInv'
  BY Zenon
<1>1. ASSUME NEW p \in Holders, Step(p)
      PROVE  ChainInv'
  BY <1>1, CreateKeeps, ResetKeeps, SpawnKeeps, Zenon DEF Step
<1>2. ASSUME NEW f \in Frames, FrameStep(f)
      PROVE  ChainInv'
  BY <1>2, AwaitKeeps, RaiseKeeps, YieldKeeps, FinishKeeps, AwaitResumeKeeps, WakeKeeps, Zenon
     DEF FrameStep
<1>3. CASE UNCHANGED vars
  <2>1. UNCHANGED <<stage, tasks, awaiter, continuation, exception, raised, running, roots,
                    completed, ready, alive, spawned, reported>>
    BY <1>3, Zenon DEF vars, executor
  <2>2. Single' /\ Kept' /\ Fresh' /\ Chained' /\ Waiting'
    BY <2>1 DEF ChainInv, Single, Kept, Fresh, Chained, Waiting, Holding, Live
  <2>3. Ended' /\ InQueue' /\ Propagating'
    BY <2>1, Zenon DEF ChainInv, Ended, InQueue, Suspended, Propagating
  <2>4. ChainTypeOK'
    BY <2>1, Zenon DEF ChainInv, ChainTypeOK
  <2> QED
    BY <2>2, <2>3, <2>4, Zenon DEF ChainInv
<1> QED
  BY <1>1, <1>2, <1>3, ResumeKeeps, DrainKeeps, TearDownKeeps, Zenon DEF Next

LEMMA ChainInvHolds ==
  Spec => []ChainInv
<1> QED
  BY ChainInvInit, ChainInvStep, PTL DEF Spec

----------------------------------------------------------------------------
(* Cardinality of the sets of holders of a handle.                         *)

LEMMA CardEmpty ==
  Cardinality({}) = 0
<1> DEFINE g == [T \in SUBSET {} |-> 0]
           Count(h) == [T \in SUBSET {} |->
                          IF T = {} THEN 0 ELSE 1 + h[T \ {CHOOSE x : x \in T}]]
           CS == CHOOSE h : h = Count(h)
<1>1. \A T \in SUBSET {} : T = {}
  BY Zenon
<1>2. g = Count(g)
  BY <1>1, Zenon
<1>3. CS = Count(CS)
  BY <1>2, Zenon
<1>4. CS[{}] = 0
  BY <1>3, Zenon
<1>5. Cardinality({}) = CS[{}]
  BY Zenon DEF Cardinality
<1> QED
  BY <1>4, <1>5, Zenon

LEMMA CardOne ==
  ASSUME NEW e
  PROVE  Cardinality({e}) = 1
<1> DEFINE g == [T \in SUBSET {e} |-> IF T = {} THEN 0 ELSE 1 + 0]
           Count(h) == [T \in SUBSET {e} |->
                          IF T = {} THEN 0 ELSE 1 + h[T \ {CHOOSE x : x \in T}]]
           CS == CHOOSE h : h = Count(h)
<1>1. \A T \in SUBSET {e} : T # {} => T \ {CHOOSE x : x \in T} = {}
  <2> TAKE T \in SUBSET {e}
  <2>1. T # {} => (CHOOSE x : x \in T) \in T
    BY Zenon
  <2> QED
    BY <2>1, Zenon
<1>2. \A T \in SUBSET {e} : T # {} => g[T \ {CHOOSE x : x \in T}] = 0
  <2>1. g[{}] = 0
    BY Zenon
  <2> HIDE DEF g
  <2> QED
    BY <1>1, <2>1, Zenon
<1>3. g = Count(g)
  BY <1>2, Zenon
<1>4. CS = Count(CS)
  <2> HIDE DEF g, Count
  <2> QED
    BY <1>3, Zenon
<1>5. CS[{}] = 0 /\ CS[{e}] = 1 + CS[{e} \ {CHOOSE x : x \in {e}}]
  <2>1. {} \in SUBSET {e} /\ {e} \in SUBSET {e} /\ {e} # {}
    BY Zenon
  <2> HIDE DEF CS
  <2> QED
    BY <1>4, <2>1, Zenon
<1>6. {e} \ {CHOOSE x : x \in {e}} = {}
  BY <1>1, Zenon
<1>7. CS[{e}] = 1 + 0
  <2> HIDE DEF CS
  <2> QED
    BY <1>5, <1>6, Zenon
<1>8. Cardinality({e}) = CS[{e}]
  BY Zenon DEF Cardinality
<1>9. 1 + 0 = 1
  OBVIOUS
<1> QED
  BY <1>7, <1>8, <1>9, Zenon

LEMMA HeldOnce ==
  ASSUME ChainInv
  PROVE  OneHolder
<1> SUFFICES ASSUME NEW f \in Frames
             PROVE  Cardinality({p \in Holders : f \in tasks[p]})
                      + Cardinality({p \in Frames : awaiter[p] = f})
                      + Cardinality({r \in roots : r = f})
                    = IF Live(f) THEN 1 ELSE 0
  BY Zenon DEF OneHolder
<1>0. /\ Cardinality({}) = 0 /\ Cardinality({f}) = 1
      /\ \A p \in Holders : Cardinality({p}) = 1
  BY CardEmpty, CardOne, Zenon
<1>1. /\ \A p \in Holders : f \in tasks[p] => f \in Holding(p)
      /\ \A p \in Frames : awaiter[p] = f => f \in Holding(p)
      /\ \A p \in Holders : f \in Holding(p) => f \in tasks[p] \/ (p \in Frames /\ awaiter[p] = f)
      /\ Frames \subseteq Holders
  BY HoldingFacts, Zenon DEF ChainInv, Holders
<1>2. \A p \in Holders : \A q \in Frames : f \in tasks[p] => awaiter[q] # f
  BY TaskChainAssumption, Zenon DEF ChainInv, Fresh, Waiting, Started
<1>3. CASE f \in roots
  <2>1. /\ {p \in Holders : f \in tasks[p]} = {} /\ {p \in Frames : awaiter[p] = f} = {}
        /\ {r \in roots : r = f} = {f} /\ Live(f)
    BY <1>1, <1>3 DEF ChainInv, Single, Kept
  <2>2. /\ Cardinality({q \in Holders : f \in tasks[q]}) = 0
        /\ Cardinality({q \in Frames : awaiter[q] = f}) = 0
        /\ Cardinality({r \in roots : r = f}) = 1
        /\ Live(f)
    BY <1>0, <2>1, Zenon
  <2> QED
    BY <2>2
<1>4. ASSUME NEW p \in Holders, f \in tasks[p]
      PROVE  /\ Cardinality({q \in Holders : f \in tasks[q]}) = 1
             /\ Cardinality({q \in Frames : awaiter[q] = f}) = 0
             /\ Cardinality({r \in roots : r = f}) = 0
             /\ Live(f)
  <2>1. /\ {q \in Holders : f \in tasks[q]} = {p} /\ {q \in Frames : awaiter[q] = f} = {}
        /\ {r \in roots : r = f} = {} /\ Live(f)
    BY <1>1, <1>2, <1>4 DEF ChainInv, Single, Kept
  <2> QED
    BY <1>0, <2>1, Zenon
<1>5. ASSUME NEW p \in Frames, awaiter[p] = f
      PROVE  /\ Cardinality({q \in Holders : f \in tasks[q]}) = 0
             /\ Cardinality({q \in Frames : awaiter[q] = f}) = 1
             /\ Cardinality({r \in roots : r = f}) = 0
             /\ Live(f)
  <2>1. /\ {q \in Holders : f \in tasks[q]} = {} /\ {q \in Frames : awaiter[q] = f} = {p}
        /\ {r \in roots : r = f} = {} /\ Live(f)
    BY <1>1, <1>2, <1>5 DEF ChainInv, Single, Kept
  <2> QED
    BY <1>0, <1>1, <2>1, Zenon
<1>6. CASE f \notin roots /\ (\A p \in Holders : f \notin Holding(p))
  <2>1. /\ {q \in Holders : f \in tasks[q]} = {} /\ {q \in Frames : awaiter[q] = f} = {}
        /\ {r \in roots : r = f} = {} /\ ~Live(f)
    BY <1>1, <1>6, Zenon DEF ChainInv, Kept
  <2>2. /\ Cardinality({q \in Holders : f \in tasks[q]}) = 0
        /\ Cardinality({q \in Frames : awaiter[q] = f}) = 0
        /\ Cardinality({r \in roots : r = f}) = 0
        /\ ~Live(f)
    BY <1>0, <2>1, Zenon
  <2> QED
    BY <2>2
<1>7. CASE \E p \in Holders : f \in Holding(p)
  <2>1. PICK p \in Holders : f \in tasks[p] \/ (p \in Frames /\ awaiter[p] = f)
    BY <1>1, <1>7, Zenon
  <2>2. CASE f \in tasks[p]
    BY <1>4, <2>2
  <2>3. CASE p \in Frames /\ awaiter[p] = f
    <3>1. /\ Cardinality({q \in Holders : f \in tasks[q]}) = 0
          /\ Cardinality({q \in Frames : awaiter[q] = f}) = 1
          /\ Cardinality({r \in roots : r = f}) = 0
          /\ Live(f)
      BY <1>5, <2>3, Zenon
    <3> QED
      BY <3>1
  <2> QED
    BY <2>1, <2>2, <2>3, Zenon
<1> QED
  BY <1>3, <1>6, <1>7, Zenon

\* Every handle has one holder, and a chain can always be resumed (Task,
\* its Awaiter and final_suspend(), for any number of frames and any nesting).
THEOREM ChainsIntact ==
  Spec => []ChainIntact
<1>1. ChainInv => ChainIntact
  BY HeldOnce, Zenon DEF ChainInv, ChainIntact, Fresh, Chained, Started, InQueue, Suspended
<1> QED
  BY <1>1, ChainInvHolds, PTL

----------------------------------------------------------------------------
(* Exceptions.                                                             *)

LEMMA FlightKeeps ==
  ASSUME raised' = raised, exception' = exception,
         \A g \in Frames : stage[g] = "done" => stage'[g] = "done"
  PROVE  InFlight \subseteq InFlight'
BY Zenon DEF InFlight

\* The steps that neither rethrow, catch nor report an exception.
LEMMA QuietSteps ==
  ASSUME ChainInv, NEW p \in Holders, NEW f \in Frames,
         \/ \E given \in SUBSET tasks[p] : Create(p, f, given)
         \/ Spawn(p, f)
         \/ p \in Frames /\ (Await(p, f) \/ Yield(p) \/ Wait(p))
         \/ Wake(f)
  PROVE  InFlight \subseteq InFlight'
<1>1. raised' = raised /\ exception' = exception
  BY Zenon DEF Create, Spawn, Await, Yield, Wait, Wake
<1>2. ASSUME NEW g \in Frames, stage[g] = "done"
      PROVE  stage'[g] = "done"
  <2>1. CASE \E given \in SUBSET tasks[p] : Create(p, f, given)
    BY <1>2, <2>1, Zenon DEF Create, ChainInv, ChainTypeOK
  <2>2. CASE Spawn(p, f) \/ Wake(f)
    BY <1>2, <2>2, Zenon DEF Spawn, Wake
  <2>3. CASE p \in Frames /\ Await(p, f)
    <3>1. stage[p] = "running" /\ stage[f] = "initial"
      BY <2>3, ActsFacts, Zenon DEF Await, ChainInv, Fresh
    <3>2. stage' = [stage EXCEPT ![p] = "awaiting", ![f] = "running"]
      BY <2>3, <3>1, Zenon DEF Await
    <3> QED
      BY <1>2, <3>1, <3>2, Zenon DEF ChainInv, ChainTypeOK
  <2>4. CASE p \in Frames /\ (Yield(p) \/ Wait(p))
    <3>1. stage[p] = "running" /\ stage' = [stage EXCEPT ![p] = "parked"]
      BY <2>4, ActsFacts, Zenon DEF Yield, Wait
    <3> QED
      BY <1>2, <3>1, Zenon DEF ChainInv, ChainTypeOK
  <2> QED
    BY <2>1, <2>2, <2>3, <2>4, Zenon
<1> QED
  BY <1>1, <1>2, FlightKeeps, Zenon

LEMMA ResetQuiet ==
  ASSUME ChainInv, NEW p \in Holders, NEW f \in Frames, Reset(p, f)
  PROVE  InFlight \subseteq InFlight'
<1>1. raised' = raised /\ exception' = exception /\ stage[f] = "initial"
  BY Zenon DEF Reset, ChainInv, Fresh
<1>2. \A g \in Dead({f}) : stage[g] = "initial"
  BY <1>1, DeadInitial, Zenon
<1>3. stage' = [g \in Frames |-> IF g \in Dead({f}) THEN "destroyed" ELSE stage[g]]
  BY Zenon DEF Reset, destroy
<1> QED
  BY <1>1, <1>2, <1>3, FlightKeeps, Zenon

LEMMA ResumeQuiet ==
  ASSUME ChainInv, Resume
  PROVE  InFlight \subseteq InFlight'
<1>1. /\ raised' = raised /\ exception' = exception /\ ready # <<>>
      /\ stage' = [stage EXCEPT ![Head(ready)] = "running"]
  BY Zenon DEF Resume
<1>2. Head(ready) = ready[1] /\ 1 \in DOMAIN ready
  BY <1>1 DEF ChainInv, ChainTypeOK
<1>3. stage[Head(ready)] # "done"
  BY <1>2, Zenon DEF ChainInv, InQueue, Suspended
<1> QED
  BY <1>1, <1>3, FlightKeeps, Zenon DEF ChainInv, ChainTypeOK

\* A body that ends with an exception stores it.
LEMMA FinishFlight ==
  ASSUME ChainInv, NEW p \in Frames, Finish(p)
  PROVE  InFlight \subseteq InFlight'
<1>1. /\ p = running /\ stage[p] = "running"
      /\ exception' = [exception EXCEPT ![p] = raised[p]]
      /\ raised' = [raised EXCEPT ![p] = None]
  BY Zenon DEF Finish
<1>2. PICK S \in SUBSET Frames : S = tasks[p] /\ \A f \in S : stage[f] = "initial"
  BY Zenon DEF ChainInv, ChainTypeOK, Fresh, Holders
<1>3. PICK D \in SUBSET Frames : D = Dead(S) /\ \A f \in D : stage[f] = "initial"
  BY <1>2, DeadInitial, DeadFacts DEF ChainInv
<1>4. PICK n : n = IF p \in roots THEN None ELSE continuation[p]
  BY Zenon
<1>5. n # p /\ (n \in Frames => stage[n] # "done")
  <2>1. p \notin roots => \E q \in Frames : continuation[p] = q /\ stage[q] = "awaiting"
    <3>1. stage[p] \in Started /\ stage[p] # "done"
      BY <1>1, Zenon DEF Started
    <3> QED
      BY <3>1, Zenon DEF ChainInv, Chained
  <2> QED
    BY <1>1, <1>4, <2>1, TaskChainAssumption, Zenon
<1>6. stage' = [g \in Frames |-> IF g \in D THEN "destroyed"
                  ELSE [f \in Frames |-> CASE f = p -> "done"
                                           [] f = n -> "resumed"
                                           [] OTHER -> stage[f]][g]]
  <2>1. {Dead(tasks[p])} = {D}
    BY <1>2, <1>3, Zenon
  <2> QED
    BY <1>4, <2>1 DEF Finish, destroy
<1>7. \A g \in Frames : [f \in Frames |-> CASE f = p -> "done" [] f = n -> "resumed"
                                            [] OTHER -> stage[f]][g]
                        = IF g = p THEN "done" ELSE IF g = n THEN "resumed" ELSE stage[g]
  BY <1>5, Zenon
<1>8. stage'[p] = "done" /\ \A g \in Frames : stage[g] = "done" => stage'[g] = "done"
  BY <1>1, <1>3, <1>5, <1>6, <1>7, Zenon
<1>9. ASSUME NEW e \in InFlight
      PROVE  e \in InFlight'
  <2>1. CASE \E f \in Frames : raised[f] = e
    <3>1. PICK f \in Frames : raised[f] = e /\ e # None
      BY <1>9, <2>1, Zenon DEF InFlight
    <3>2. f = p
      BY <1>1, <3>1, Zenon DEF ChainInv, ChainTypeOK, Propagating
    <3>3. exception'[p] = e
      BY <1>1, <3>1, <3>2, Zenon DEF ChainInv, ChainTypeOK
    <3> QED
      BY <1>8, <3>1, <3>3, Zenon DEF InFlight
  <2>2. CASE \E f \in Frames : stage[f] = "done" /\ exception[f] = e
    <3>1. PICK f \in Frames : stage[f] = "done" /\ exception[f] = e /\ e # None
      BY <1>9, <2>2, Zenon DEF InFlight
    <3>2. f # p /\ exception'[f] = e /\ stage'[f] = "done"
      BY <1>1, <1>8, <3>1, Zenon DEF ChainInv, ChainTypeOK
    <3> QED
      BY <3>1, <3>2, Zenon DEF InFlight
  <2> QED
    BY <1>9, <2>1, <2>2, Zenon DEF InFlight
<1> QED
  BY <1>9, Zenon

\* await_resume() rethrows what the child has stored.
LEMMA AwaitResumeFlight ==
  ASSUME ChainInv, NEW p \in Frames, AwaitResume(p)
  PROVE  InFlight \subseteq InFlight'
<1>1. /\ p = running /\ stage[p] = "resumed" /\ exception' = exception
      /\ raised' = [raised EXCEPT ![p] = exception[awaiter[p]]]
  BY Zenon DEF AwaitResume
<1>2. PICK c \in Frames : c = awaiter[p] /\ stage[c] = "done"
  BY <1>1, AwaitResumeKeeps DEF ChainInv, ChainTypeOK, Waiting
<1>3. {Dead({awaiter[p]})} = {{c}}
  BY <1>2, DeadDone, Zenon
<1>4. \E D \in {{c}} :
        stage' = [g \in Frames |-> IF g \in D THEN "destroyed"
                                   ELSE [stage EXCEPT ![p] = "running"][g]]
  BY <1>3, Zenon DEF AwaitResume, destroy
<1>5. /\ \A g \in Frames : g # c /\ stage[g] = "done" => stage'[g] = "done"
      /\ \A g \in Frames : raised[g] = None
      /\ raised'[p] = exception[c]
  BY <1>1, <1>2, <1>4, Zenon DEF ChainInv, ChainTypeOK, Propagating
<1>6. ASSUME NEW e \in InFlight
      PROVE  e \in InFlight'
  <2>1. PICK f \in Frames : stage[f] = "done" /\ exception[f] = e /\ e # None
    BY <1>5, <1>6, Zenon DEF InFlight
  <2>2. CASE f = c
    BY <1>5, <2>1, <2>2, Zenon DEF InFlight
  <2>3. CASE f # c
    BY <1>1, <1>5, <2>1, <2>3, Zenon DEF InFlight
  <2> QED
    BY <2>2, <2>3, Zenon
<1> QED
  BY <1>6, Zenon

\* drain_completed() rethrows the exception of the only completed root.
LEMMA DrainFlight ==
  ASSUME ChainInv, Drain, NEW e \in InFlight, e \notin InFlight'
  PROVE  e \in reported'
<1>1. /\ raised' = raised /\ exception' = exception
      /\ destroy(completed, stage, tasks, awaiter)
  BY Zenon DEF Drain
<1>2. completed \in SUBSET Frames /\ Dead(completed) = completed
  BY DeadDone, Zenon DEF ChainInv, ChainTypeOK, Ended
<1>3. \A g \in Frames : g \notin completed => stage'[g] = stage[g]
  BY <1>1, <1>2, Zenon DEF destroy
<1>4. PICK f \in completed : exception[f] = e /\ e # None
  BY <1>1, <1>3, Zenon DEF InFlight
<1>5. {exception[g] : g \in completed} \ {None} = {e}
  BY <1>4, Zenon DEF ChainInv, Ended
<1> QED
  BY <1>5, Zenon DEF Drain

\* An exception goes from frame to frame until a frame catches it, run()
\* throws it or the executor is destroyed (unhandled_exception(),
\* await_resume() and drain_completed()).
THEOREM ExceptionsKept ==
  Spec => NoExceptionLost
<1>1. ASSUME ChainInv, Next, NEW e \in InFlight \ InFlight'
      PROVE  \/ e \in reported'
             \/ \E f \in Frames : raised[f] = e /\ f = running /\ running' = running
             \/ ~alive'
  <2>1. ASSUME NEW p \in Holders, Step(p)
        PROVE  FALSE
    BY <1>1, <2>1, QuietSteps, ResetQuiet, Zenon DEF Step
  <2>2. ASSUME NEW f \in Frames, FrameStep(f)
        PROVE  \E g \in Frames : raised[g] = e /\ g = running /\ running' = running
    <3>1. CASE (\E g \in Frames : Await(f, g)) \/ Yield(f) \/ Wait(f) \/ Wake(f)
      BY <1>1, <3>1, QuietSteps, Zenon DEF Holders
    <3>2. CASE Finish(f) \/ AwaitResume(f)
      BY <1>1, <3>2, FinishFlight, AwaitResumeFlight, Zenon
    <3>3. CASE Raise(f)
      <4>1. /\ raised[f] = None /\ raised' = [raised EXCEPT ![f] = f]
            /\ stage' = stage /\ exception' = exception
        BY <1>1, <3>3, ActsFacts, Zenon DEF Raise, Holders
      <4> QED
        BY <1>1, <4>1 DEF InFlight, ChainInv, ChainTypeOK
    <3>4. CASE Catch(f)
      <4>1. /\ f = running /\ raised' = [raised EXCEPT ![f] = None] /\ running' = running
            /\ stage' = stage /\ exception' = exception
        BY <3>4, Zenon DEF Catch
      <4>2. \A g \in Frames : g # f => raised'[g] = raised[g]
        BY <1>1, <4>1, Zenon DEF ChainInv, ChainTypeOK
      <4> QED
        BY <1>1, <4>1, <4>2, Zenon DEF InFlight
    <3> QED
      BY <2>2, <3>1, <3>2, <3>3, <3>4, Zenon DEF FrameStep
  <2>3. CASE Resume
    BY <1>1, <2>3, ResumeQuiet, Zenon
  <2>4. CASE Drain
    BY <1>1, <2>4, DrainFlight, Zenon
  <2>5. CASE TearDown
    BY <2>5, Zenon DEF TearDown
  <2> QED
    BY <1>1, <2>1, <2>2, <2>3, <2>4, <2>5, Zenon DEF Next
<1>2. ChainInv /\ [Next]_vars =>
        [\A e \in InFlight \ InFlight' :
           \/ e \in reported'
           \/ \E f \in Frames : raised[f] = e /\ f = running /\ running' = running
           \/ ~alive']_vars
  BY <1>1, Zenon
<1> QED
  BY <1>2, ChainInvHolds, PTL DEF Spec, NoExceptionLost

----------------------------------------------------------------------------
(* The frames of a chain.                                                  *)

Links == [Frames -> Frames \cup {None}]

\* Line, for any awaiters.
LineIn(aw, f) ==
  LET reach == {f} \cup {g \in Frames : \E h \in Frames : aw[h] = g}
  IN  {g \in reach : \A L \in SUBSET reach :
                       f \in L /\ (\A h \in L : aw[h] \in L \cup {None}) => g \in L}

\* A line is the smallest set that has its first frame and all that its
\* members await, so there is a way back from each of its frames.
LEMMA LineFacts ==
  ASSUME NEW aw \in Links, NEW f \in Frames
  PROVE  /\ LineIn(aw, f) \in SUBSET Frames
         /\ f \in LineIn(aw, f)
         /\ \A h \in LineIn(aw, f) : aw[h] \in LineIn(aw, f) \cup {None}
         /\ \A L \in SUBSET Frames :
              f \in L /\ (\A h \in L : aw[h] \in L \cup {None}) => LineIn(aw, f) \subseteq L
         /\ \A g \in LineIn(aw, f) : g # f => \E h \in LineIn(aw, f) : aw[h] = g
<1>0. PICK R \in SUBSET Frames : R = {f} \cup {g \in Frames : \E h \in Frames : aw[h] = g}
  BY Zenon
<1>1. LineIn(aw, f) = {g \in R : \A L \in SUBSET R :
                         f \in L /\ (\A h \in L : aw[h] \in L \cup {None}) => g \in L}
  BY <1>0, Zenon DEF LineIn
<1>2. \A h \in Frames : aw[h] \in R \cup {None}
  BY <1>0, Zenon DEF Links
<1>3. PICK N \in SUBSET Frames : N = LineIn(aw, f)
  BY <1>0, <1>1, Zenon
<1>4. f \in N
  BY <1>0, <1>1, <1>3, Zenon
<1>5. ASSUME NEW L \in SUBSET Frames, f \in L, \A h \in L : aw[h] \in L \cup {None}
      PROVE  N \subseteq L
  <2>1. PICK M \in SUBSET R : M = L \cap R
    BY Zenon
  <2>2. f \in M /\ \A h \in M : aw[h] \in M \cup {None}
    BY <1>0, <1>2, <1>5, <2>1, Zenon
  <2> QED
    BY <1>1, <1>3, <2>1, <2>2, Zenon
<1>6. ASSUME NEW h \in N, aw[h] # None
      PROVE  aw[h] \in N
  <2>1. aw[h] \in R
    BY <1>2, <1>6, Zenon
  <2>2. ASSUME NEW L \in SUBSET R, f \in L, \A k \in L : aw[k] \in L \cup {None}
        PROVE  aw[h] \in L
    <3>1. h \in L
      BY <1>1, <1>3, <1>6, <2>2, Zenon
    <3> QED
      BY <1>6, <2>2, <3>1, Zenon
  <2> QED
    BY <1>1, <1>3, <2>1, <2>2, Zenon
<1>7. ASSUME NEW g \in N, g # f, \A h \in N : aw[h] # g
      PROVE  FALSE
  <2>1. PICK M \in SUBSET Frames : M = N \ {g}
    BY Zenon
  <2>2. f \in M /\ \A h \in M : aw[h] \in M \cup {None}
    BY <1>4, <1>6, <1>7, <2>1, Zenon
  <2>3. N \subseteq M
    BY <1>5, <2>2, Zenon
  <2> QED
    BY <1>7, <2>1, <2>3, Zenon
<1> QED
  BY <1>3, <1>4, <1>5, <1>6, <1>7, Zenon

LEMMA LineAlone ==
  ASSUME NEW aw \in Links, NEW f \in Frames, aw[f] = None
  PROVE  LineIn(aw, f) = {f}
<1>1. PICK L \in SUBSET Frames : L = {f}
  BY Zenon
<1>2. LineIn(aw, f) \subseteq L
  BY <1>1, LineFacts, Zenon
<1> QED
  BY <1>1, <1>2, LineFacts, Zenon

\* No two frames of a line await nothing.
LEMMA LineEnd ==
  ASSUME NEW aw \in Links, NEW f \in Frames, NEW g \in LineIn(aw, f), NEW h \in LineIn(aw, f),
         aw[g] = None, aw[h] = None
  PROVE  g = h
<1>0. /\ g \in Frames /\ h \in Frames /\ LineIn(aw, f) \subseteq Frames
      /\ \A k \in LineIn(aw, f) : aw[k] \in LineIn(aw, f) \cup {None}
  BY LineFacts, Zenon
<1>1. PICK M \in SUBSET Frames : M = {x \in LineIn(aw, f) : h \in LineIn(aw, x)}
  BY LineFacts, Zenon
<1>2. f \in M
  BY <1>1, LineFacts, Zenon
<1>3. ASSUME NEW x \in M, aw[x] # None
      PROVE  aw[x] \in M
  <2>1. x \in Frames /\ x \in LineIn(aw, f) /\ h \in LineIn(aw, x)
    BY <1>1, <1>3, Zenon
  <2>2. aw[x] \in LineIn(aw, f) /\ aw[x] \in Frames
    BY <1>0, <1>3, <2>1, Zenon
  <2>3. PICK L \in SUBSET Frames : L = {x} \cup LineIn(aw, aw[x])
    BY <2>1, <2>2, LineFacts, Zenon
  <2>4. x \in L /\ \A k \in L : aw[k] \in L \cup {None}
    BY <2>2, <2>3, LineFacts, Zenon
  <2>5. h \in L
    BY <2>1, <2>4, LineFacts, Zenon
  <2>6. h # x
    BY <1>3, Zenon
  <2> QED
    BY <1>1, <2>2, <2>3, <2>5, <2>6, Zenon
<1>4. g \in M
  BY <1>2, <1>3, LineFacts, Zenon
<1>5. h \in LineIn(aw, g)
  BY <1>1, <1>4, Zenon
<1>6. LineIn(aw, g) = {g}
  BY <1>0, LineAlone, Zenon
<1> QED
  BY <1>5, <1>6, Zenon

\* Each frame is awaited by one other at most.
LEMMA LineUp ==
  ASSUME NEW aw \in Links, NEW f \in Frames, \A h \in Frames : aw[h] # f,
         \A h, k \in Frames : aw[h] = aw[k] /\ aw[h] # None => h = k,
         NEW g \in Frames, aw[g] # None
  PROVE  g \in LineIn(aw, f) <=> aw[g] \in LineIn(aw, f)
<1>1. g \in LineIn(aw, f) => aw[g] \in LineIn(aw, f)
  BY LineFacts, Zenon
<1>2. ASSUME aw[g] \in LineIn(aw, f)
      PROVE  g \in LineIn(aw, f)
  <2>1. PICK h \in LineIn(aw, f) : aw[h] = aw[g]
    BY <1>2, LineFacts, ZenonT(30)
  <2> QED
    BY <2>1, LineFacts, Zenon
<1> QED
  BY <1>1, <1>2, Zenon

LEMMA LinesApart ==
  ASSUME NEW aw \in Links, NEW r \in Frames, NEW s \in Frames, r # s,
         \A h \in Frames : aw[h] # r /\ aw[h] # s,
         \A h, k \in Frames : aw[h] = aw[k] /\ aw[h] # None => h = k
  PROVE  LineIn(aw, r) \cap LineIn(aw, s) = {}
<1>1. PICK L \in SUBSET Frames : L = LineIn(aw, r) \ LineIn(aw, s)
  BY LineFacts, Zenon
<1>0. /\ LineIn(aw, s) \subseteq Frames
      /\ \A g \in LineIn(aw, s) : g # s => \E h \in LineIn(aw, s) : aw[h] = g
  BY LineFacts, Zenon
<1>2. r \notin LineIn(aw, s)
  <2>1. ASSUME r \in LineIn(aw, s)
        PROVE  FALSE
    <3>1. PICK h \in LineIn(aw, s) : aw[h] = r
      BY <1>0, <2>1, Zenon
    <3> QED
      BY <1>0, <3>1, Zenon
  <2> QED
    BY <2>1, Zenon
<1>3. r \in L
  BY <1>1, <1>2, LineFacts, Zenon
<1>4. ASSUME NEW h \in L, aw[h] # None
      PROVE  aw[h] \in L
  <2>1. h \in Frames /\ h \in LineIn(aw, r) /\ h \notin LineIn(aw, s)
    BY <1>1, <1>4, Zenon
  <2>2. aw[h] \in LineIn(aw, r)
    BY <1>4, <2>1, LineFacts, Zenon
  <2>3. aw[h] \notin LineIn(aw, s)
    BY <1>4, <2>1, LineUp, Zenon
  <2> QED
    BY <1>1, <2>2, <2>3, Zenon
<1>5. LineIn(aw, r) \subseteq L
  BY <1>3, <1>4, LineFacts, Zenon
<1> QED
  BY <1>1, <1>5, Zenon

\* bw is aw with a link from p to c, which were not linked.
Joins(aw, bw, p, c) ==
  /\ p # c /\ aw[p] = None /\ aw[c] = None /\ bw[p] = c
  /\ \A h \in Frames : aw[h] # c
  /\ \A h \in Frames : h # p => bw[h] = aw[h]

\* The end of a line gets another frame.
LEMMA LineGrows ==
  ASSUME NEW aw \in Links, NEW bw \in Links, NEW p \in Frames, NEW c \in Frames,
         Joins(aw, bw, p, c), NEW r \in Frames, r # c
  PROVE  /\ \A x : x # c => (x \in LineIn(bw, r) <=> x \in LineIn(aw, r))
         /\ c \in LineIn(bw, r) <=> p \in LineIn(aw, r)
         /\ c \notin LineIn(aw, r)
<1> USE DEF Joins
<1>0. PICK A \in SUBSET Frames, B \in SUBSET Frames : A = LineIn(aw, r) /\ B = LineIn(bw, r)
  BY LineFacts, Zenon
<1>a. /\ r \in A /\ \A h \in A : aw[h] \in A \cup {None}
      /\ \A g \in A : g # r => \E h \in A : aw[h] = g
  <2>1. /\ r \in LineIn(aw, r) /\ \A h \in LineIn(aw, r) : aw[h] \in LineIn(aw, r) \cup {None}
        /\ \A g \in LineIn(aw, r) : g # r => \E h \in LineIn(aw, r) : aw[h] = g
    BY LineFacts
  <2> QED
    BY <1>0, <2>1, Zenon
<1>1. c \notin A
  BY <1>a, Zenon
<1>2. A \subseteq B
  <2>1. PICK L \in SUBSET Frames : L = B \ {c}
    BY Zenon
  <2>2. r \in L
    BY <1>0, <2>1, LineFacts, Zenon
  <2>3. ASSUME NEW h \in L
        PROVE  aw[h] \in L \cup {None}
    <3>1. h \in Frames /\ h \in B /\ (h # p => bw[h] \in B \cup {None})
      BY <1>0, <2>1, <2>3, LineFacts, Zenon
    <3> QED
      BY <2>1, <2>3, <3>1, Zenon
  <2>4. A \subseteq L
    BY <1>0, <2>2, <2>3, LineFacts, Zenon
  <2> QED
    BY <2>1, <2>4, Zenon
<1>3. CASE p \in A
  <2>1. PICK L \in SUBSET Frames : L = A \cup {c}
    BY Zenon
  <2>2. r \in L /\ \A h \in A : aw[h] \in A \cup {None}
    BY <1>a, <2>1, Zenon
  <2>3. \A h \in L : bw[h] \in L \cup {None}
    BY <2>1, <2>2, Zenon
  <2>4. B \subseteq L
    BY <1>0, <2>2, <2>3, LineFacts, Zenon
  <2>5. c \in B
    BY <1>0, <1>2, <1>3, LineFacts, TaskChainAssumption, Zenon
  <2> QED
    BY <1>0, <1>1, <1>2, <1>3, <2>1, <2>4, <2>5, Zenon
<1>4. CASE p \notin A
  <2>1. r \in A /\ \A h \in A : bw[h] \in A \cup {None}
    BY <1>a, <1>4, Zenon
  <2>2. B \subseteq A
    BY <1>0, <2>1, LineFacts, Zenon
  <2> QED
    BY <1>0, <1>1, <1>2, <1>4, <2>2, Zenon
<1> QED
  BY <1>3, <1>4, Zenon

----------------------------------------------------------------------------
(* The chains of the roots.                                                *)

\* What runs or waits belongs to the chain of a root; a root that was let go
\* was destroyed.
Rooted ==
  /\ \A f \in Frames : stage[f] \in Started => \E r \in roots : f \in Line(r)
  /\ roots \subseteq spawned
  /\ \A f \in spawned \ roots : stage[f] = "destroyed"

LifeInv == ChainInv /\ Rooted

\* Where the handle of a chain is.
OnLine(r) == \E i \in DOMAIN ready : ready[i] \in Line(r)

\* The chains of the roots have no frame in common and one innermost frame
\* each; but for the root they are frames that were started.
ChainsApart ==
  /\ \A r \in roots : r \in Line(r) /\ Line(r) \subseteq Frames
  /\ \A r, s \in roots : \A f \in Line(r) : f \in Line(s) => r = s
  /\ \A r \in roots : \A g, h \in Line(r) : awaiter[g] = None /\ awaiter[h] = None => g = h
  /\ \A r \in roots : \A g \in Line(r) : g = r \/ stage[g] \in Started
  /\ \A r \in roots : \A g \in Frames :
       awaiter[g] # None => (g \in Line(r) <=> awaiter[g] \in Line(r))
  /\ \A r \in roots : awaiter[r] = None => Line(r) = {r}
  /\ \A r \in roots : \A f \in Line(r) : RootOf(f) = r

LEMMA LineOf ==
  \A f : Line(f) = LineIn(awaiter, f) /\ Line(f)' = LineIn(awaiter', f)
BY Zenon DEF Line, LineIn

LEMMA AwaitersFacts ==
  ASSUME ChainInv
  PROVE  /\ awaiter \in Links /\ roots \subseteq Frames
         /\ \A h, k \in Frames : awaiter[h] = awaiter[k] /\ awaiter[h] # None => h = k
         /\ \A h \in Frames : awaiter[h] \notin roots
         /\ \A h \in Frames : stage[h] \notin {"awaiting", "resumed"} <=> awaiter[h] = None
         /\ \A h \in Frames : awaiter[h] # None => stage[awaiter[h]] \in Started
<1>1. awaiter \in Links /\ roots \subseteq Frames /\ None \notin Frames
  BY TaskChainAssumption, Zenon DEF ChainInv, ChainTypeOK, Links
<1>2. \A h \in Frames : awaiter[h] # None =>
        awaiter[h] \in Frames /\ awaiter[h] \in Holding(h) /\ h \in Holders
  BY <1>1, Zenon DEF Links, Holding, Holders
<1>3. \A h, k \in Frames : awaiter[h] = awaiter[k] /\ awaiter[h] # None => h = k
  BY <1>2, Zenon DEF ChainInv, Single
<1>4. \A h \in Frames : awaiter[h] \notin roots
  BY <1>1, <1>2, Zenon DEF ChainInv, Single
<1> QED
  BY <1>1, <1>3, <1>4, Zenon DEF ChainInv, Waiting

LEMMA ChainLines ==
  ChainInv => ChainsApart
<1> SUFFICES ASSUME ChainInv
             PROVE  ChainsApart
  BY Zenon
<1>0. /\ awaiter \in Links /\ roots \subseteq Frames
      /\ \A h, k \in Frames : awaiter[h] = awaiter[k] /\ awaiter[h] # None => h = k
      /\ \A h \in Frames : awaiter[h] \notin roots
      /\ \A h \in Frames : awaiter[h] # None => stage[awaiter[h]] \in Started
      /\ None \notin Frames
  BY AwaitersFacts, TaskChainAssumption, Zenon
<1>1. \A r \in roots : r \in Line(r) /\ Line(r) \subseteq Frames
  BY <1>0, LineFacts, LineOf, Zenon
<1>2. ASSUME NEW r \in roots, NEW s \in roots, NEW f \in Line(r), f \in Line(s)
      PROVE  r = s
  <2>1. r \in Frames /\ s \in Frames /\ \A h \in Frames : awaiter[h] # r /\ awaiter[h] # s
    BY <1>0, Zenon
  <2>2. r # s => LineIn(awaiter, r) \cap LineIn(awaiter, s) = {}
    BY <1>0, <2>1, LinesApart, Zenon
  <2> QED
    BY <1>2, <2>2, LineOf, Zenon
<1>3. \A r \in roots : \A g, h \in Line(r) : awaiter[g] = None /\ awaiter[h] = None => g = h
  BY <1>0, LineEnd, LineOf, Zenon
<1>4. ASSUME NEW r \in roots, NEW g \in Line(r), g # r
      PROVE  stage[g] \in Started
  <2>1. \A x \in LineIn(awaiter, r) : x # r => \E h \in LineIn(awaiter, r) : awaiter[h] = x
    BY <1>0, LineFacts, Zenon
  <2>2. PICK h \in Line(r) : awaiter[h] = g
    BY <1>4, <2>1, LineOf, Zenon
  <2> QED
    BY <1>0, <1>1, <2>2, Zenon
<1>5. ASSUME NEW r \in roots, NEW g \in Frames, awaiter[g] # None
      PROVE  g \in Line(r) <=> awaiter[g] \in Line(r)
  <2>1. r \in Frames /\ \A h \in Frames : awaiter[h] # r
    BY <1>0, Zenon
  <2>2. g \in LineIn(awaiter, r) <=> awaiter[g] \in LineIn(awaiter, r)
    BY <1>0, <1>5, <2>1, LineUp, Zenon
  <2> QED
    BY <2>2, LineOf, Zenon
<1>6. \A r \in roots : awaiter[r] = None => Line(r) = {r}
  BY <1>0, LineAlone, LineOf, Zenon
<1>7. \A r \in roots : \A f \in Line(r) : RootOf(f) = r
  BY <1>2, Zenon DEF RootOf
<1> QED
  BY <1>1, <1>2, <1>3, <1>4, <1>5, <1>6, <1>7, Zenon DEF ChainsApart

LEMMA ChainLinesNext ==
  ChainInv' => ChainsApart'
BY ChainLines, PTL

\* The stage of a root, told by where the frames of its chain are.
LifeOf(f) ==
  IF f \notin spawned THEN "unborn"
  ELSE IF f \notin roots THEN "destroyed"
  ELSE IF f \in completed THEN "completed"
  ELSE IF running \in Line(f) THEN "running"
  ELSE IF OnLine(f) THEN "ready"
  ELSE "waiting"

LEMMA RootFacts ==
  ASSUME LifeInv
  PROVE  /\ \A r \in roots : stage[r] # "destroyed" /\ stage[r] # "unborn"
         /\ completed \subseteq roots
         /\ \A f \in completed : stage[f] = "done" /\ awaiter[f] = None
         /\ \A i \in DOMAIN ready : ready[i] \in Frames /\ awaiter[ready[i]] = None
         /\ \A i \in DOMAIN ready : \E r \in roots : ready[i] \in Line(r)
<1>1. \A r \in roots : r \in Frames /\ stage[r] # "destroyed" /\ stage[r] # "unborn"
  BY Zenon DEF LifeInv, ChainInv, Kept, Live, ChainTypeOK
<1>2. completed \subseteq roots /\ \A f \in completed : stage[f] = "done" /\ f \in Frames
  BY <1>1, Zenon DEF LifeInv, ChainInv, Ended
<1>3. \A f \in completed : awaiter[f] = None
  BY <1>2, AwaitersFacts, Zenon DEF LifeInv
<1>4. ASSUME NEW i \in DOMAIN ready
      PROVE  /\ ready[i] \in Frames
             /\ stage[ready[i]] = "parked" \/ (stage[ready[i]] = "initial" /\ ready[i] \in roots)
  <2>1. ready \in Seq(Frames)
    BY Zenon DEF LifeInv, ChainInv, ChainTypeOK
  <2>2. ready[i] \in Frames
    BY <2>1
  <2> QED
    BY <2>2, Zenon DEF LifeInv, ChainInv, InQueue, Suspended
<1>5. \A i \in DOMAIN ready : awaiter[ready[i]] = None
  BY <1>4, AwaitersFacts, Zenon DEF LifeInv
<1>6. \A i \in DOMAIN ready : \E r \in roots : ready[i] \in Line(r)
  BY <1>4, ChainLines, Zenon DEF LifeInv, Rooted, Started, ChainsApart
<1> QED
  BY <1>1, <1>2, <1>3, <1>4, <1>5, <1>6, Zenon

LEMMA LifeIs ==
  LifeInv => Life = [f \in Frames |-> LifeOf(f)]
<1> SUFFICES ASSUME LifeInv, NEW f \in Frames
             PROVE  Life[f] = LifeOf(f)
  BY Zenon DEF Life
<1>1. /\ \A r \in roots : stage[r] # "destroyed"
      /\ completed \subseteq roots /\ roots \subseteq spawned
      /\ \A r \in spawned \ roots : stage[r] = "destroyed"
  BY RootFacts, Zenon DEF LifeInv, Rooted
<1>2. Queued(f) <=> OnLine(f)
  BY RootFacts, Zenon DEF Queued, OnLine
<1> QED
  BY <1>1, <1>2, Zenon DEF Life, LifeOf

LEMMA LifeIsNext ==
  LifeInv' => Life' = [f \in Frames |-> LifeOf(f)']
<1>1. LifeInv' => (Life = [f \in Frames |-> LifeOf(f)])'
  BY LifeIs, PTL
<1> QED
  BY <1>1, Zenon

----------------------------------------------------------------------------
(* What the steps do to the chains.                                        *)

\* No frame is started and no link changes.
Calm ==
  /\ awaiter' = awaiter
  /\ \A f \in Frames : /\ stage'[f] \in Started => stage[f] \in Started
                       /\ stage[f] = "destroyed" => stage'[f] = "destroyed"

LEMMA DestroyCalm ==
  ASSUME ChainInv, NEW S \in SUBSET Frames, \A f \in S : stage[f] \in {"initial", "done"},
         Dead(S) = S \/ \A f \in S : stage[f] = "initial",
         NEW st, NEW ts, destroy(S, st, ts, awaiter)
  PROVE  /\ awaiter' = awaiter
         /\ \A f \in Frames : stage[f] \in {"initial", "done"} \/ stage'[f] = st[f]
         /\ \A f \in Frames : stage'[f] = "destroyed" \/ stage'[f] = st[f]
<1>1. \A f \in Dead(S) : stage[f] \in {"initial", "done"}
  BY DeadInitial, Zenon
<1>2. /\ stage' = [f \in Frames |-> IF f \in Dead(S) THEN "destroyed" ELSE st[f]]
      /\ awaiter' = [f \in Frames |-> IF f \in Dead(S) THEN None ELSE awaiter[f]]
  BY ZenonT(30) DEF destroy
<1>3. \A f \in Frames : f \in Dead(S) => awaiter[f] = None
  BY <1>1, AwaitersFacts, Zenon
<1>4. awaiter' = awaiter
  BY <1>2, <1>3, AwaitersFacts, Zenon DEF Links
<1> QED
  BY <1>1, <1>2, <1>4, Zenon

LEMMA ResetCalm ==
  ASSUME ChainInv, NEW p \in Holders, NEW f \in Frames, Reset(p, f)
  PROVE  Calm
<1>1. f \in tasks[p] /\ destroy({f}, stage, [tasks EXCEPT ![p] = @ \ {f}], awaiter)
  BY Zenon DEF Reset
<1>2. stage[f] = "initial"
  BY <1>1, Zenon DEF ChainInv, Fresh
<1>3. PICK S \in SUBSET Frames : S = {f}
  BY Zenon
<1>4. destroy(S, stage, [tasks EXCEPT ![p] = @ \ {f}], awaiter)
  BY <1>1, <1>3, Zenon
<1>5. /\ awaiter' = awaiter
      /\ \A g \in Frames : stage'[g] = "destroyed" \/ stage'[g] = stage[g]
  BY <1>2, <1>3, <1>4, DestroyCalm, Zenon
<1> QED
  BY <1>5, Zenon DEF Calm, Started

LEMMA FinishCalm ==
  ASSUME ChainInv, NEW p \in Frames, Finish(p)
  PROVE  /\ Calm
         /\ p \notin roots => awaiter[running'] = p /\ running' \in Frames
<1> DEFINE next == IF p \in roots THEN None ELSE continuation[p]
           st == [f \in Frames |-> CASE f = p -> "done"
                                     [] f = next -> "resumed"
                                     [] OTHER -> stage[f]]
<1>1. /\ p = running /\ stage[p] = "running" /\ running' = next
      /\ destroy(tasks[p], st, [tasks EXCEPT ![p] = {}], awaiter)
  BY Zenon DEF Finish
<1>2. p \notin roots => next \in Frames /\ awaiter[next] = p /\ stage[next] = "awaiting"
  <2>1. ASSUME p \notin roots
        PROVE  \E q \in Frames : continuation[p] = q /\ awaiter[q] = p /\ stage[q] = "awaiting"
    BY <1>1, <2>1, Zenon DEF ChainInv, Chained, Started
  <2> QED
    BY <2>1, Zenon
<1>a. \A f \in Frames : f = next => stage[f] = "awaiting"
  BY <1>2, TaskChainAssumption, Zenon
<1>3. PICK S \in SUBSET Frames : S = tasks[p] /\ \A f \in S : stage[f] = "initial"
  BY Zenon DEF ChainInv, ChainTypeOK, Fresh, Holders
<1>4. destroy(S, st, [tasks EXCEPT ![p] = {}], awaiter)
  BY <1>1, <1>3, Zenon
<1>5. \A f \in Frames : st[f] = IF f = p THEN "done" ELSE IF f = next THEN "resumed" ELSE stage[f]
  BY <1>1, <1>a
<1> HIDE DEF st
<1>6. /\ awaiter' = awaiter
      /\ \A f \in Frames : stage[f] \in {"initial", "done"} \/ stage'[f] = st[f]
      /\ \A f \in Frames : stage'[f] = "destroyed" \/ stage'[f] = st[f]
  BY <1>3, <1>4, DestroyCalm, Zenon
<1>8. ASSUME NEW f \in Frames
      PROVE  /\ stage'[f] \in Started => stage[f] \in Started
             /\ stage[f] = "destroyed" => stage'[f] = "destroyed"
  BY <1>1, <1>5, <1>6, <1>a, Zenon DEF Started
<1> QED
  BY <1>1, <1>2, <1>6, <1>8, Zenon DEF Calm

\* The other steps that leave the links as they are.
LEMMA PlainCalm ==
  ASSUME ChainInv, NEW p \in Holders, NEW f \in Frames,
         \/ \E given \in SUBSET tasks[p] : Create(p, f, given)
         \/ Spawn(p, f) \/ Raise(f) \/ Catch(f) \/ Yield(f) \/ Wait(f) \/ Wake(f)
  PROVE  Calm
<1>1. stage \in [Frames -> {"unborn", "initial", "running", "awaiting", "resumed",
                            "parked", "done", "destroyed"}]
  BY Zenon DEF ChainInv, ChainTypeOK
<1>2. CASE \E given \in SUBSET tasks[p] : Create(p, f, given)
  <2>1. awaiter' = awaiter /\ stage[f] = "unborn" /\ stage' = [stage EXCEPT ![f] = "initial"]
    BY <1>2, Zenon DEF Create
  <2> QED
    BY <1>1, <2>1, Zenon DEF Calm, Started
<1>3. CASE Spawn(p, f) \/ Raise(f) \/ Catch(f) \/ Wake(f)
  <2>1. awaiter' = awaiter /\ stage' = stage
    BY <1>3, Zenon DEF Spawn, Raise, Catch, Wake
  <2> QED
    BY <2>1, Zenon DEF Calm
<1>4. CASE Yield(f) \/ Wait(f)
  <2>1. /\ awaiter' = awaiter /\ Acts(f) /\ f # Main /\ stage' = [stage EXCEPT ![f] = "parked"]
    BY <1>4, Zenon DEF Yield, Wait
  <2>2. stage[f] = "running"
    BY <2>1, ActsFacts, Zenon DEF Holders
  <2> QED
    BY <1>1, <2>1, <2>2, Zenon DEF Calm, Started
<1> QED
  BY <1>2, <1>3, <1>4, Zenon

LEMMA CalmLines ==
  ASSUME awaiter' = awaiter
  PROVE  \A f : Line(f)' = Line(f)
BY LineOf, Zenon

LEMMA CalmRooted ==
  ASSUME LifeInv, Calm,
         \/ UNCHANGED <<roots, spawned>>
         \/ \E f \in Frames : roots' = roots \cup {f} /\ spawned' = spawned \cup {f}
  PROVE  Rooted'
<1>1. roots \subseteq roots' /\ spawned' \ roots' \subseteq spawned \ roots /\ roots' \subseteq spawned'
  BY Zenon DEF LifeInv, Rooted
<1>2. ASSUME NEW f \in Frames, stage'[f] \in Started
      PROVE  \E r \in roots' : f \in Line(r)'
  <2>1. PICK r \in roots : f \in Line(r)
    BY <1>2, Zenon DEF Calm, LifeInv, Rooted
  <2>2. Line(r)' = Line(r)
    BY CalmLines, Zenon DEF Calm
  <2> QED
    BY <1>1, <2>1, <2>2, Zenon
<1>3. ASSUME NEW f \in spawned' \ roots'
      PROVE  stage'[f] = "destroyed"
  <2>1. f \in Frames /\ stage[f] = "destroyed"
    BY <1>1, <1>3, Zenon DEF LifeInv, Rooted, ChainInv, ChainTypeOK
  <2> QED
    BY <2>1, Zenon DEF Calm
<1> QED
  BY <1>1, <1>2, <1>3, Zenon DEF Rooted

LEMMA AwaitLines ==
  ASSUME LifeInv, NEW p \in Frames, NEW f \in Frames, Await(p, f)
  PROVE  /\ p = running /\ running' = f
         /\ UNCHANGED <<roots, spawned, completed, ready>>
         /\ stage[f] = "initial" /\ f \notin roots
         /\ \A r \in roots : \A x : x # f => (x \in Line(r)' <=> x \in Line(r))
         /\ \A r \in roots : f \in Line(r)' <=> p \in Line(r)
         /\ Rooted'
<1>1. Acts(p) /\ p # Main /\ f \in tasks[p] /\ p \in Holders
  BY Zenon DEF Await, Holders
<1>2. stage[f] = "initial" /\ p = running /\ stage[p] = "running" /\ awaiter[p] = None
  BY <1>1, ActsFacts, Zenon DEF LifeInv, ChainInv, Fresh
<1>3. /\ awaiter' = [awaiter EXCEPT ![p] = f]
      /\ stage' = [stage EXCEPT ![p] = "awaiting", ![f] = "running"]
      /\ running' = f /\ UNCHANGED <<roots, spawned, completed, ready>>
  BY <1>2, Zenon DEF Await, executor
<1>4. f \notin roots
  BY <1>1, Zenon DEF LifeInv, ChainInv, Single, Holding
<1>5. /\ awaiter \in Links /\ roots \subseteq Frames /\ awaiter[f] = None /\ p # f
      /\ \A h \in Frames : awaiter[h] # f
  BY <1>2, AwaitersFacts, TaskChainAssumption, Zenon DEF LifeInv, Started
<1>6. /\ awaiter' \in Links /\ awaiter'[p] = f
      /\ \A h \in Frames : h # p => awaiter'[h] = awaiter[h]
  BY <1>3, <1>5, Zenon DEF Links
<1>a. Joins(awaiter, awaiter', p, f)
  BY <1>2, <1>5, <1>6, Zenon DEF Joins
<1>7. ASSUME NEW r \in roots
      PROVE  /\ \A x : x # f => (x \in Line(r)' <=> x \in Line(r))
             /\ f \in Line(r)' <=> p \in Line(r)
  <2>1. r \in Frames /\ r # f
    BY <1>4, <1>5, Zenon
  <2>2. /\ \A x : x # f => (x \in LineIn(awaiter', r) <=> x \in LineIn(awaiter, r))
        /\ f \in LineIn(awaiter', r) <=> p \in LineIn(awaiter, r)
    BY <1>a, <1>5, <1>6, <2>1, LineGrows
  <2> QED
    BY <2>2, LineOf, Zenon
<1>8. \A g \in Frames : g # p /\ g # f => stage'[g] = stage[g]
  BY <1>3, Zenon DEF LifeInv, ChainInv, ChainTypeOK
<1>9. ASSUME NEW g \in Frames, stage'[g] \in Started
      PROVE  \E r \in roots' : g \in Line(r)'
  <2>1. PICK r \in roots : p \in Line(r)
    BY <1>2, Zenon DEF LifeInv, Rooted, Started
  <2>2. CASE g = f
    BY <1>3, <1>7, <2>1, <2>2, Zenon
  <2>3. CASE g # f
    <3>1. stage[g] \in Started
      BY <1>2, <1>8, <1>9, <2>3, Zenon DEF Started
    <3>2. PICK s \in roots : g \in Line(s)
      BY <3>1, Zenon DEF LifeInv, Rooted
    <3> QED
      BY <1>3, <1>7, <2>3, <3>2, Zenon
  <2> QED
    BY <2>2, <2>3, Zenon
<1>10. roots' \subseteq spawned' /\ \A g \in spawned' \ roots' : stage'[g] = "destroyed"
  <2>1. ASSUME NEW g \in spawned \ roots
        PROVE  stage'[g] = "destroyed"
    <3>1. g \in Frames /\ stage[g] = "destroyed"
      BY Zenon DEF LifeInv, Rooted, ChainInv, ChainTypeOK
    <3> QED
      BY <1>2, <1>8, <3>1, Zenon
  <2> QED
    BY <1>3, <2>1, Zenon DEF LifeInv, Rooted
<1> QED
  BY <1>2, <1>3, <1>4, <1>7, <1>9, <1>10, Zenon DEF Rooted

LEMMA AwaitResumeLines ==
  ASSUME LifeInv, NEW p \in Frames, AwaitResume(p)
  PROVE  /\ UNCHANGED <<running, roots, spawned, completed, ready>>
         /\ p = running /\ stage[awaiter[p]] = "done" /\ awaiter[p] \in Frames \ roots
         /\ \A r \in roots : \A x : x # awaiter[p] => (x \in Line(r)' <=> x \in Line(r))
         /\ Rooted'
<1>1. /\ p = running /\ stage[p] = "resumed"
      /\ destroy({awaiter[p]}, [stage EXCEPT ![p] = "running"], tasks,
                 [awaiter EXCEPT ![p] = None])
      /\ UNCHANGED <<running, roots, spawned, completed, ready>>
  BY Zenon DEF AwaitResume, executor
<1>2. /\ awaiter \in Links /\ roots \subseteq Frames /\ awaiter[p] # None
      /\ \A h, k \in Frames : awaiter[h] = awaiter[k] /\ awaiter[h] # None => h = k
      /\ \A h \in Frames : awaiter[h] \notin roots
  BY <1>1, AwaitersFacts, Zenon DEF LifeInv
<1>3. PICK c \in Frames : c = awaiter[p]
  BY <1>2, Zenon DEF Links
<1>4. stage[c] = "done" /\ c # p /\ c \notin roots /\ awaiter[c] = None
  BY <1>1, <1>2, <1>3, AwaitResumeKeeps, AwaitersFacts, Zenon DEF LifeInv
<1>5. PICK S \in SUBSET Frames : S = {c} /\ Dead(S) = {c}
  BY <1>4, DeadDone, Zenon DEF LifeInv
<1>6. /\ stage' = [f \in Frames |-> IF f \in {c} THEN "destroyed"
                                     ELSE [stage EXCEPT ![p] = "running"][f]]
      /\ awaiter' = [f \in Frames |-> IF f \in {c} THEN None ELSE [awaiter EXCEPT ![p] = None][f]]
  <2>1. {Dead({awaiter[p]})} = {{c}}
    BY <1>3, <1>5, Zenon
  <2> QED
    BY <1>1, <2>1, Zenon DEF destroy
<1>7. /\ \A f \in Frames : f # p /\ f # c => stage'[f] = stage[f]
      /\ stage'[c] = "destroyed"
      /\ \A f \in Frames : f # p => awaiter[f] = awaiter'[f]
      /\ awaiter'[p] = None /\ awaiter'[c] = None
  BY <1>2, <1>4, <1>6, Zenon DEF LifeInv, ChainInv, ChainTypeOK, Links
<1>8. awaiter' \in Links /\ \A h \in Frames : awaiter'[h] # c
  <2>1. \A h \in Frames : awaiter'[h] \in Frames \cup {None}
    BY <1>2, <1>7, Zenon DEF Links
  <2>2. \A h \in Frames : awaiter'[h] # c
    BY <1>2, <1>3, <1>7, TaskChainAssumption, Zenon
  <2> QED
    BY <1>6, <2>1, <2>2, Zenon DEF Links
<1>a. Joins(awaiter', awaiter, p, c)
  BY <1>3, <1>4, <1>7, <1>8, Zenon DEF Joins
<1>9. ASSUME NEW r \in roots
      PROVE  \A x : x # c => (x \in Line(r)' <=> x \in Line(r))
  <2>1. r \in Frames /\ r # c
    BY <1>2, <1>4, Zenon
  <2>2. \A x : x # c => (x \in LineIn(awaiter, r) <=> x \in LineIn(awaiter', r))
    BY <1>a, <1>2, <1>8, <2>1, LineGrows
  <2> QED
    BY <2>2, LineOf, Zenon
<1>10. ASSUME NEW g \in Frames, stage'[g] \in Started
       PROVE  \E r \in roots' : g \in Line(r)'
  <2>1. g # c /\ stage[g] \in Started
    BY <1>1, <1>7, <1>10, Zenon DEF Started
  <2>2. PICK r \in roots : g \in Line(r)
    BY <2>1, Zenon DEF LifeInv, Rooted
  <2> QED
    BY <1>1, <1>9, <2>1, <2>2, Zenon
<1>11. roots' \subseteq spawned' /\ \A g \in spawned' \ roots' : stage'[g] = "destroyed"
  <2>1. ASSUME NEW g \in spawned \ roots
        PROVE  stage'[g] = "destroyed"
    <3>1. g \in Frames /\ stage[g] = "destroyed"
      BY Zenon DEF LifeInv, Rooted, ChainInv, ChainTypeOK
    <3> QED
      BY <1>1, <1>4, <1>7, <3>1, Zenon
  <2> QED
    BY <1>1, <2>1, Zenon DEF LifeInv, Rooted
<1> QED
  BY <1>1, <1>3, <1>4, <1>9, <1>10, <1>11, Zenon DEF Rooted

LEMMA ResumeLines ==
  ASSUME LifeInv, Resume
  PROVE  /\ awaiter' = awaiter /\ UNCHANGED <<roots, spawned, completed>>
         /\ running = None /\ completed = {} /\ ready # <<>>
         /\ running' = Head(ready) /\ ready' = Tail(ready)
         /\ Head(ready) \in Frames /\ 1 \in DOMAIN ready /\ ready[1] = Head(ready)
         /\ Rooted'
<1>1. /\ awaiter' = awaiter /\ UNCHANGED <<roots, spawned, completed>>
      /\ running = None /\ completed = {} /\ ready # <<>>
      /\ running' = Head(ready) /\ ready' = Tail(ready)
      /\ stage' = [stage EXCEPT ![Head(ready)] = "running"]
  BY Zenon DEF Resume
<1>2. ready \in Seq(Frames)
  BY Zenon DEF LifeInv, ChainInv, ChainTypeOK
<1>3. Head(ready) \in Frames /\ 1 \in DOMAIN ready /\ ready[1] = Head(ready)
  BY <1>1, <1>2
<1>4. \E r \in roots : Head(ready) \in Line(r)
  BY <1>3, RootFacts
<1>5. \A f \in Frames : f # Head(ready) => stage'[f] = stage[f]
  BY <1>1, Zenon DEF LifeInv, ChainInv, ChainTypeOK
<1>6. stage[Head(ready)] # "destroyed"
  <2>1. Suspended(ready[1])
    BY <1>3, Zenon DEF LifeInv, ChainInv, InQueue
  <2> QED
    BY <1>3, <2>1, Zenon DEF Suspended
<1>7. \A r : Line(r)' = Line(r)
  BY <1>1, CalmLines, Zenon
<1>8. ASSUME NEW f \in Frames, stage'[f] \in Started
      PROVE  \E r \in roots' : f \in Line(r)'
  <2>1. \E r \in roots : f \in Line(r)
    BY <1>4, <1>5, <1>8, Zenon DEF LifeInv, Rooted
  <2> QED
    BY <1>1, <1>7, <2>1, Zenon
<1>9. ASSUME NEW f \in spawned' \ roots'
      PROVE  stage'[f] = "destroyed"
  <2>1. f \in Frames /\ stage[f] = "destroyed"
    BY <1>1, <1>9, Zenon DEF LifeInv, Rooted, ChainInv, ChainTypeOK
  <2> QED
    BY <1>5, <1>6, <2>1, Zenon
<1>10. roots' \subseteq spawned'
  BY <1>1, Zenon DEF LifeInv, Rooted
<1> QED
  BY <1>1, <1>3, <1>8, <1>9, <1>10, Zenon DEF Rooted

LEMMA DrainLines ==
  ASSUME LifeInv, Drain
  PROVE  /\ awaiter' = awaiter /\ UNCHANGED <<running, spawned, ready>>
         /\ running = None /\ roots' = roots \ completed /\ completed' = {}
         /\ Rooted'
<1>1. /\ running = None /\ destroy(completed, stage, tasks, awaiter)
      /\ roots' = roots \ completed /\ completed' = {} /\ UNCHANGED <<running, spawned, ready>>
  BY Zenon DEF Drain
<1>2. PICK S \in SUBSET Frames : S = completed /\ \A f \in S : stage[f] = "done"
  BY RootFacts, Zenon DEF LifeInv, ChainInv, ChainTypeOK
<1>3. Dead(S) = S /\ destroy(S, stage, tasks, awaiter)
  BY <1>1, <1>2, DeadDone, Zenon DEF LifeInv
<1>4. awaiter' = awaiter
  BY <1>2, <1>3, DestroyCalm, Zenon DEF LifeInv
<1>5. \A f \in Frames : stage'[f] = IF f \in completed THEN "destroyed" ELSE stage[f]
  BY <1>2, <1>3, ZenonT(30) DEF destroy
<1>6. ASSUME NEW f \in Frames, stage'[f] \in Started
      PROVE  \E r \in roots' : f \in Line(r)'
  <2>1. f \notin completed /\ stage[f] \in Started
    BY <1>5, <1>6, Zenon DEF Started
  <2>2. PICK r \in roots : f \in Line(r)
    BY <2>1, Zenon DEF LifeInv, Rooted
  <2>3. r \in completed => Line(r) = {r}
    BY RootFacts, ChainLines, Zenon DEF LifeInv, ChainsApart
  <2>4. Line(r)' = Line(r)
    BY <1>4, CalmLines, Zenon
  <2> QED
    BY <1>1, <2>1, <2>2, <2>3, <2>4, Zenon
<1>7. ASSUME NEW f \in spawned' \ roots'
      PROVE  stage'[f] = "destroyed"
  <2>1. f \in Frames /\ (f \in completed \/ stage[f] = "destroyed")
    BY <1>1, <1>7, Zenon DEF LifeInv, Rooted, ChainInv, ChainTypeOK
  <2> QED
    BY <1>5, <2>1, Zenon
<1>8. roots' \subseteq spawned'
  BY <1>1, Zenon DEF LifeInv, Rooted
<1> QED
  BY <1>1, <1>4, <1>6, <1>7, <1>8, Zenon DEF Rooted

LEMMA TearDownLines ==
  ASSUME LifeInv, TearDown
  PROVE  /\ running = None /\ UNCHANGED spawned /\ roots' = {} /\ ready' = <<>>
         /\ Rooted'
<1>1. /\ running = None /\ destroy(roots, stage, tasks, awaiter)
      /\ roots' = {} /\ ready' = <<>> /\ UNCHANGED spawned
  BY ActsFacts, Zenon DEF TearDown, Holders, LifeInv
<1>2. PICK S \in SUBSET Frames : S = roots
  BY Zenon DEF LifeInv, ChainInv, ChainTypeOK
<1>3. PICK D \in SUBSET Frames : /\ D = Dead(roots) /\ roots \subseteq D
                                 /\ \A p \in D : Holding(p) \subseteq D
  BY <1>2, DeadFacts, Zenon DEF LifeInv, ChainInv
<1>4. \A f \in Frames : stage'[f] = IF f \in D THEN "destroyed" ELSE stage[f]
  BY <1>1, <1>3, Zenon DEF destroy
<1>5. ASSUME NEW r \in roots
      PROVE  Line(r) \subseteq D
  <2>1. awaiter \in Links /\ r \in Frames
    BY AwaitersFacts, Zenon DEF LifeInv
  <2>2. ASSUME NEW h \in D
        PROVE  awaiter[h] \in D \cup {None}
    BY <1>3, <2>1, <2>2, Zenon DEF Links, Holding
  <2>3. LineIn(awaiter, r) \subseteq D
    BY <1>3, <2>1, <2>2, LineFacts, Zenon
  <2> QED
    BY <2>3, LineOf, Zenon
<1>6. \A f \in Frames : stage'[f] \notin Started
  BY <1>4, <1>5, Zenon DEF LifeInv, Rooted, Started
<1>7. \A f \in spawned : stage'[f] = "destroyed"
  BY <1>3, <1>4, Zenon DEF LifeInv, Rooted, ChainInv, ChainTypeOK
<1> QED
  BY <1>1, <1>6, <1>7, Zenon DEF Rooted

LEMMA LifeInvInit ==
  Init => LifeInv
<1> SUFFICES ASSUME Init
             PROVE  Rooted
  BY ChainInvInit, Zenon DEF LifeInv
<1> QED
  BY Zenon DEF Init, Rooted, Started

LEMMA LifeInvStep ==
  LifeInv /\ [Next]_vars => LifeInv'
<1> SUFFICES ASSUME LifeInv, [Next]_vars
             PROVE  Rooted'
  BY ChainInvStep, Zenon DEF LifeInv
<1>1. ASSUME NEW p \in Holders, Step(p)
      PROVE  Rooted'
  <2>1. PICK f \in Frames : \/ \E given \in SUBSET tasks[p] : Create(p, f, given)
                            \/ Reset(p, f) \/ Spawn(p, f)
    BY <1>1, Zenon DEF Step
  <2>2. Calm
    BY <2>1, PlainCalm, ResetCalm, Zenon DEF LifeInv
  <2>3. \/ UNCHANGED <<roots, spawned>>
        \/ roots' = roots \cup {f} /\ spawned' = spawned \cup {f}
    BY <2>1, Zenon DEF Create, Reset, Spawn, executor
  <2> QED
    BY <2>2, <2>3, CalmRooted, Zenon
<1>2. ASSUME NEW f \in Frames, FrameStep(f)
      PROVE  Rooted'
  <2>1. CASE \E g \in Frames : Await(f, g)
    BY <2>1, AwaitLines, Zenon
  <2>2. CASE AwaitResume(f)
    BY <2>2, AwaitResumeLines, Zenon
  <2>3. CASE Raise(f) \/ Catch(f) \/ Yield(f) \/ Wait(f) \/ Wake(f) \/ Finish(f)
    <3>1. f \in Holders
      BY Zenon DEF Holders
    <3>2. Calm
      BY <2>3, <3>1, PlainCalm, FinishCalm, Zenon DEF LifeInv
    <3>3. UNCHANGED <<roots, spawned>>
      BY <2>3, Zenon DEF Raise, Catch, Yield, Wait, Wake, Finish, executor
    <3> QED
      BY <3>2, <3>3, CalmRooted, Zenon
  <2> QED
    BY <1>2, <2>1, <2>2, <2>3, Zenon DEF FrameStep
<1>3. CASE UNCHANGED vars
  <2>1. UNCHANGED <<stage, awaiter, roots, spawned>>
    BY <1>3, Zenon DEF vars, executor
  <2>2. Calm
    BY <2>1, Zenon DEF Calm
  <2> QED
    BY <2>1, <2>2, CalmRooted, Zenon
<1> QED
  BY <1>1, <1>2, <1>3, ResumeLines, DrainLines, TearDownLines, Zenon DEF Next

----------------------------------------------------------------------------
(* A chain of frames as one task.                                          *)

QueueOf == [i \in DOMAIN ready |-> RootOf(ready[i])]

QueueGood ==
  /\ ready \in Seq(Frames)
  /\ QueueOf \in Seq(Frames) /\ DOMAIN QueueOf = DOMAIN ready /\ Len(QueueOf) = Len(ready)
  /\ \A i \in DOMAIN ready : \A r \in roots : ready[i] \in Line(r) => QueueOf[i] = r

LEMMA QueueIs ==
  LifeInv => QueueGood
<1> SUFFICES ASSUME LifeInv
             PROVE  QueueGood
  BY Zenon
<1>1. ready \in Seq(Frames) /\ roots \subseteq Frames
  BY Zenon DEF LifeInv, ChainInv, ChainTypeOK
<1>2. \A i \in DOMAIN ready : \A r \in roots : ready[i] \in Line(r) => QueueOf[i] = r
  BY ChainLines, Zenon DEF LifeInv, ChainsApart, QueueOf
<1>3. \A i \in DOMAIN ready : QueueOf[i] \in Frames
  BY <1>1, <1>2, RootFacts, Zenon
<1>4. /\ DOMAIN QueueOf = DOMAIN ready
      /\ QueueOf = [i \in DOMAIN ready |-> QueueOf[i]]
  BY Zenon DEF QueueOf
<1>5. DOMAIN ready = 1..Len(ready) /\ Len(ready) \in Nat
  BY <1>1
<1> HIDE DEF QueueOf
<1>6. QueueOf \in Seq(Frames) /\ Len(QueueOf) = Len(ready)
  BY <1>3, <1>4, <1>5
<1> QED
  BY <1>1, <1>2, <1>4, <1>6, Zenon DEF QueueGood

LEMMA QueueIsNext ==
  LifeInv' => QueueGood'
BY QueueIs, PTL

LEMMA AppendIn ==
  ASSUME NEW q \in Seq(Frames), NEW f \in Frames
  PROVE  /\ DOMAIN q = 1..Len(q) /\ Len(q) \in Nat
         /\ DOMAIN Append(q, f) = 1..(Len(q) + 1) /\ Len(Append(q, f)) = Len(q) + 1
         /\ \A i \in DOMAIN q : i \in DOMAIN Append(q, f) /\ Append(q, f)[i] = q[i]
         /\ Len(q) + 1 \in DOMAIN Append(q, f) /\ Append(q, f)[Len(q) + 1] = f
         /\ \A i \in DOMAIN Append(q, f) : i \in DOMAIN q \/ i = Len(q) + 1
OBVIOUS

LEMMA TailIn ==
  ASSUME NEW q \in Seq(Frames), q # <<>>
  PROVE  /\ \A i \in DOMAIN Tail(q) : i + 1 \in DOMAIN q /\ i + 1 # 1 /\ Tail(q)[i] = q[i + 1]
         /\ \A i \in DOMAIN q : i = 1 \/ \E j \in DOMAIN Tail(q) : i = j + 1
         /\ DOMAIN Tail(q) = 1..(Len(q) - 1) /\ Len(q) \in Nat \ {0}
<1>1. /\ DOMAIN Tail(q) = 1..(Len(q) - 1) /\ Len(q) \in Nat \ {0}
      /\ DOMAIN q = 1..Len(q)
  OBVIOUS
<1>2. \A i \in DOMAIN Tail(q) : i + 1 \in DOMAIN q /\ i + 1 # 1 /\ Tail(q)[i] = q[i + 1]
  OBVIOUS
<1>3. \A i \in DOMAIN q : i = 1 \/ \E j \in DOMAIN Tail(q) : i = j + 1
  <2> TAKE i \in DOMAIN q
  <2>1. i = 1 \/ (i - 1 \in DOMAIN Tail(q) /\ i = (i - 1) + 1)
    BY <1>1
  <2> QED
    BY <2>1, Zenon
<1> QED
  BY <1>1, <1>2, <1>3, Zenon

LEMMA SameSeq ==
  ASSUME NEW s \in Seq(Frames), NEW t \in Seq(Frames), Len(s) = Len(t),
         \A i \in 1..Len(s) : s[i] = t[i]
  PROVE  s = t
OBVIOUS

\* The queue gets a handle of the chain of r.
LEMMA QueueAppend ==
  ASSUME LifeInv, LifeInv', NEW f \in Frames, ready' = Append(ready, f),
         \A s : Line(s)' = Line(s), roots \subseteq roots',
         NEW r \in roots', f \in Line(r)
  PROVE  /\ QueueOf' = Append(QueueOf, r)
         /\ \A s : OnLine(s)' <=> OnLine(s) \/ f \in Line(s)
<1>1. QueueGood /\ QueueGood' /\ roots' \subseteq Frames
  BY QueueIs, QueueIsNext, Zenon DEF LifeInv, ChainInv, ChainTypeOK
<1>2. PICK q \in Seq(Frames), n \in Nat : q = QueueOf /\ n = Len(ready) /\ Len(q) = n
  <2>1. QueueOf \in Seq(Frames) /\ Len(QueueOf) = Len(ready)
    BY <1>1, Zenon DEF QueueGood
  <2> QED
    BY <2>1
<1>3. PICK u \in Seq(Frames) : u = QueueOf' /\ Len(u) = n + 1
  <2>1. QueueOf' \in Seq(Frames) /\ Len(QueueOf)' = Len(ready')
    BY <1>1, Zenon DEF QueueGood
  <2>2. Len(ready') = n + 1
    BY <1>1, <1>2, AppendIn DEF QueueGood
  <2> QED
    BY <2>1, <2>2
<1>4. /\ DOMAIN ready = 1..n /\ DOMAIN ready' = 1..(n + 1) /\ n + 1 \in DOMAIN ready'
      /\ \A i \in DOMAIN ready : i \in DOMAIN ready' /\ ready'[i] = ready[i]
      /\ ready'[n + 1] = f
      /\ \A i \in DOMAIN ready' : i \in DOMAIN ready \/ i = n + 1
  <2>1. ready \in Seq(Frames) /\ ready' = Append(ready, f) /\ n = Len(ready)
    BY <1>1, <1>2, Zenon DEF QueueGood
  <2> QED
    BY <2>1, AppendIn
<1>5. ASSUME NEW i \in DOMAIN ready
      PROVE  u[i] = q[i]
  <2>1. PICK s \in roots : ready[i] \in Line(s)
    BY RootFacts, Zenon
  <2>2. q[i] = s
    BY <1>1, <1>2, <2>1, Zenon DEF QueueGood
  <2>3. s \in roots' /\ i \in DOMAIN ready' /\ ready'[i] \in Line(s)'
    BY <1>4, <2>1, Zenon
  <2>4. u[i] = s
    BY <1>1, <1>3, <2>3, Zenon DEF QueueGood
  <2> QED
    BY <2>2, <2>4, Zenon
<1>6. u[n + 1] = r
  BY <1>1, <1>3, <1>4, Zenon DEF QueueGood
<1>7. u = Append(q, r)
  BY <1>1, <1>2, <1>3, <1>4, <1>5, <1>6, SameSeq
<1>8. \A s : OnLine(s)' <=> OnLine(s) \/ f \in Line(s)
  BY <1>4, Zenon DEF OnLine
<1> QED
  BY <1>2, <1>3, <1>7, <1>8, Zenon

\* The queue stays as it is.
LEMMA QueueSame ==
  ASSUME LifeInv, LifeInv', ready' = ready,
         \A i \in DOMAIN ready : \A r \in roots :
           ready[i] \in Line(r) => r \in roots' /\ ready[i] \in Line(r)'
  PROVE  QueueOf' = QueueOf
<1>1. QueueGood /\ QueueGood'
  BY QueueIs, QueueIsNext, Zenon
<1>2. ASSUME NEW i \in DOMAIN ready
      PROVE  RootOf(ready[i])' = RootOf(ready[i])
  <2>1. PICK s \in roots : ready[i] \in Line(s)
    BY RootFacts, Zenon
  <2>2. s \in roots' /\ ready'[i] \in Line(s)' /\ ready[i] \in Line(s)'
    BY <2>1, Zenon
  <2>3. RootOf(ready[i]) = s /\ QueueOf'[i] = s
    BY <1>1, <2>1, <2>2, ChainLines, Zenon DEF QueueGood, LifeInv, ChainsApart
  <2> QED
    BY <2>3, Zenon DEF QueueOf
<1> QED
  BY <1>2, Zenon DEF QueueOf

\* The life of one root changes.
LEMMA LifeChange ==
  ASSUME LifeInv, LifeInv', NEW r \in Frames, NEW to, LifeOf(r)' = to,
         \A s \in Frames : s # r => LifeOf(s)' = LifeOf(s)
  PROVE  Life' = [Life EXCEPT ![r] = to] /\ Life[r] = LifeOf(r)
<1>1. Life = [s \in Frames |-> LifeOf(s)] /\ Life' = [s \in Frames |-> LifeOf(s)']
  BY LifeIs, LifeIsNext, Zenon
<1> QED
  BY <1>1, Zenon

\* Calls and returns between the frames of a chain.
LEMMA LifeSame ==
  ASSUME LifeInv, LifeInv', UNCHANGED <<roots, spawned, completed, ready>>,
         \A r \in roots : running' \in Line(r)' <=> running \in Line(r),
         \A r \in roots : \A i \in DOMAIN ready : ready[i] \in Line(r)' <=> ready[i] \in Line(r)
  PROVE  Life' = Life /\ QueueOf' = QueueOf
<1>1. Life = [s \in Frames |-> LifeOf(s)] /\ Life' = [s \in Frames |-> LifeOf(s)']
  BY LifeIs, LifeIsNext, Zenon
<1>2. \A r \in roots : OnLine(r)' <=> OnLine(r)
  BY Zenon DEF OnLine
<1>3. \A s \in Frames : LifeOf(s)' = LifeOf(s)
  BY <1>2, Zenon DEF LifeOf
<1>4. QueueOf' = QueueOf
  BY QueueSame, Zenon
<1> QED
  BY <1>1, <1>3, <1>4, Zenon

----------------------------------------------------------------------------
(* Every step of the frames is a step of the tasks, or none.               *)

LEMMA HandleFacts ==
  ASSUME LifeInv
  PROVE  /\ \A i \in DOMAIN ready :
              /\ ready[i] \in Frames
              /\ stage[ready[i]] \in {"parked", "initial"}
              /\ stage[ready[i]] = "initial" => ready[i] \in roots
         /\ \A r \in roots : r \in Frames /\ r \in spawned
         /\ \A f \in Frames : f = running => stage[f] \in {"running", "resumed"}
         /\ \A r \in roots : None \notin Line(r)
         /\ \A r \in roots : Line(r) \subseteq Frames
<1>1. \A i \in DOMAIN ready : ready[i] \in Frames /\ Suspended(ready[i])
  BY RootFacts, Zenon DEF LifeInv, ChainInv, InQueue
<1>2. \A r \in roots : Line(r) \subseteq Frames
  BY ChainLines, Zenon DEF LifeInv, ChainsApart
<1> QED
  BY <1>1, <1>2, TaskChainAssumption, Zenon
     DEF Suspended, LifeInv, ChainInv, ChainTypeOK, Rooted

LEMMA NoneOut ==
  ASSUME LifeInv'
  PROVE  \A r \in roots' : None \notin Line(r)'
<1>1. ChainsApart'
  BY ChainLinesNext, Zenon DEF LifeInv
<1> QED
  BY <1>1, TaskChainAssumption, Zenon DEF ChainsApart

LEMMA AwaitLife ==
  ASSUME LifeInv, LifeInv', NEW p \in Frames, NEW f \in Frames, Await(p, f)
  PROVE  Life' = Life /\ QueueOf' = QueueOf
<1>1. /\ p = running /\ running' = f
      /\ UNCHANGED <<roots, spawned, completed, ready>>
      /\ stage[f] = "initial" /\ f \notin roots
      /\ \A r \in roots : \A x : x # f => (x \in Line(r)' <=> x \in Line(r))
      /\ \A r \in roots : f \in Line(r)' <=> p \in Line(r)
  BY AwaitLines, Zenon
<1>2. \A i \in DOMAIN ready : ready[i] # f
  BY <1>1, HandleFacts, Zenon
<1>3. \A r \in roots : running' \in Line(r)' <=> running \in Line(r)
  BY <1>1, Zenon
<1>4. \A r \in roots : \A i \in DOMAIN ready : ready[i] \in Line(r)' <=> ready[i] \in Line(r)
  BY <1>1, <1>2, Zenon
<1> QED
  BY <1>1, <1>3, <1>4, LifeSame, Zenon

LEMMA AwaitResumeLife ==
  ASSUME LifeInv, LifeInv', NEW p \in Frames, AwaitResume(p)
  PROVE  Life' = Life /\ QueueOf' = QueueOf
<1>1. /\ UNCHANGED <<running, roots, spawned, completed, ready>>
      /\ p = running /\ stage[awaiter[p]] = "done"
      /\ \A r \in roots : \A x : x # awaiter[p] => (x \in Line(r)' <=> x \in Line(r))
  BY AwaitResumeLines, Zenon
<1>2. running # awaiter[p] /\ \A i \in DOMAIN ready : ready[i] # awaiter[p]
  <2>1. stage[running] = "resumed"
    BY Zenon DEF AwaitResume
  <2> QED
    BY <1>1, <2>1, HandleFacts, Zenon
<1>3. \A r \in roots : running' \in Line(r)' <=> running \in Line(r)
  BY <1>1, <1>2, Zenon
<1>4. \A r \in roots : \A i \in DOMAIN ready : ready[i] \in Line(r)' <=> ready[i] \in Line(r)
  BY <1>1, <1>2, Zenon
<1> QED
  BY <1>1, <1>3, <1>4, LifeSame, Zenon

\* Steps that leave the links and the executor alone.
LEMMA StillLife ==
  ASSUME LifeInv, LifeInv', awaiter' = awaiter,
         UNCHANGED <<running, roots, spawned, completed, ready>>
  PROVE  Life' = Life /\ QueueOf' = QueueOf
<1>1. \A r : Line(r)' = Line(r)
  BY CalmLines, Zenon
<1>2. \A r \in roots : running' \in Line(r)' <=> running \in Line(r)
  BY <1>1, Zenon
<1>3. \A r \in roots : \A i \in DOMAIN ready : ready[i] \in Line(r)' <=> ready[i] \in Line(r)
  BY <1>1, Zenon
<1> QED
  BY <1>2, <1>3, LifeSame, Zenon

LEMMA ReturnLife ==
  ASSUME LifeInv, LifeInv', NEW p \in Frames, Finish(p), p \notin roots
  PROVE  Life' = Life /\ QueueOf' = QueueOf
<1>1. /\ p = running /\ UNCHANGED <<roots, spawned, completed, ready>>
  BY Zenon DEF Finish
<1>2. Calm /\ awaiter[running'] = p /\ running' \in Frames
  BY FinishCalm, Zenon DEF LifeInv
<1>3. \A r : Line(r)' = Line(r)
  BY <1>2, CalmLines, Zenon DEF Calm
<1>4. \A r \in roots : running' \in Line(r) <=> p \in Line(r)
  <2>1. awaiter[running'] # None
    BY <1>2, TaskChainAssumption, Zenon
  <2> QED
    BY <1>2, <2>1, ChainLines, Zenon DEF LifeInv, ChainsApart
<1>5. \A r \in roots : running' \in Line(r)' <=> running \in Line(r)
  BY <1>1, <1>3, <1>4, Zenon
<1>6. \A r \in roots : \A i \in DOMAIN ready : ready[i] \in Line(r)' <=> ready[i] \in Line(r)
  BY <1>3, Zenon
<1> QED
  BY <1>1, <1>5, <1>6, LifeSame, Zenon

LEMMA CompleteLife ==
  ASSUME LifeInv, LifeInv', NEW p \in roots, Finish(p)
  PROVE  Lifecycle!Completes(p)
<1>1. /\ p = running /\ stage[p] = "running" /\ UNCHANGED <<roots, spawned, ready>>
      /\ running' = None /\ completed' = completed \cup {p}
  BY Zenon DEF Finish
<1>2. p \in Frames /\ p \in spawned /\ p \in Line(p) /\ p \notin completed
  BY <1>1, HandleFacts, RootFacts, ChainLines, Zenon DEF LifeInv, ChainsApart
<1>3. \A r : Line(r)' = Line(r)
  BY <1>2, FinishCalm, CalmLines, Zenon DEF Calm, LifeInv
<1>4. LifeOf(p) = "running" /\ LifeOf(p)' = "completed"
  BY <1>1, <1>2, Zenon DEF LifeOf
<1>5. ASSUME NEW s \in Frames, s # p
      PROVE  LifeOf(s)' = LifeOf(s)
  <2>1. s \in completed' <=> s \in completed
    BY <1>1, <1>5, Zenon
  <2>2. s \in roots => running \notin Line(s) /\ running' \notin Line(s)'
    BY <1>1, <1>2, <1>5, NoneOut, ChainLines, Zenon DEF LifeInv, ChainsApart
  <2>3. OnLine(s)' <=> OnLine(s)
    BY <1>1, <1>3, Zenon DEF OnLine
  <2> QED
    BY <1>1, <2>1, <2>2, <2>3, Zenon DEF LifeOf
<1>6. Life' = [Life EXCEPT ![p] = "completed"] /\ Life[p] = LifeOf(p)
  BY <1>2, <1>4, <1>5, LifeChange, Zenon
<1>7. QueueOf' = QueueOf
  BY <1>1, <1>3, QueueSame, Zenon
<1> QED
  BY <1>4, <1>6, <1>7, Zenon DEF Lifecycle!Completes, QueueOf

\* The running frame is on the line of one root, which runs; it holds no
\* handle of the queue.
LEMMA RunningRoot ==
  ASSUME LifeInv, NEW p \in Frames, p = running, stage[p] = "running", completed = {}
  PROVE  \E r \in roots : /\ r \in Frames /\ p \in Line(r) /\ LifeOf(r) = "running"
                          /\ ~OnLine(r)
                          /\ \A s \in roots : s # r => p \notin Line(s)
<1>1. PICK r \in roots : p \in Line(r)
  BY Zenon DEF LifeInv, Rooted, Started
<1>2. r \in Frames /\ r \in spawned
  BY HandleFacts, Zenon
<1>3. LifeOf(r) = "running"
  BY <1>1, <1>2, Zenon DEF LifeOf
<1>4. \A s \in roots : s # r => p \notin Line(s)
  BY <1>1, ChainLines, Zenon DEF LifeInv, ChainsApart
<1>5. awaiter[p] = None
  BY AwaitersFacts, Zenon DEF LifeInv
<1>6. ASSUME NEW i \in DOMAIN ready, ready[i] \in Line(r)
      PROVE  FALSE
  <2>1. ready[i] = p
    BY <1>1, <1>5, <1>6, RootFacts, ChainLines, Zenon DEF LifeInv, ChainsApart
  <2> QED
    BY <2>1, HandleFacts, Zenon
<1> QED
  BY <1>1, <1>2, <1>3, <1>4, <1>6, Zenon DEF OnLine

LEMMA YieldLife ==
  ASSUME LifeInv, LifeInv', NEW p \in Frames, Yield(p)
  PROVE  \E r \in Frames : Lifecycle!Yielded(r)
<1>1. /\ p = running /\ stage[p] = "running" /\ completed = {}
      /\ running' = None /\ ready' = Append(ready, p) /\ awaiter' = awaiter
      /\ UNCHANGED <<roots, spawned, completed>>
  BY ActsFacts, Zenon DEF Yield, LifeInv, Holders
<1>2. PICK r \in roots : /\ r \in Frames /\ p \in Line(r) /\ LifeOf(r) = "running"
                         /\ \A s \in roots : s # r => p \notin Line(s)
  BY <1>1, RunningRoot, Zenon
<1>3. \A s : Line(s)' = Line(s)
  BY <1>1, CalmLines, Zenon
<1>4. /\ QueueOf' = Append(QueueOf, r)
      /\ \A s : OnLine(s)' <=> OnLine(s) \/ p \in Line(s)
  BY <1>1, <1>2, <1>3, QueueAppend
<1>5. \A s \in roots' : running' \notin Line(s)'
  BY <1>1, NoneOut, Zenon
<1>6. LifeOf(r)' = "ready"
  <2>1. r \in spawned' /\ r \in roots' /\ r \notin completed' /\ OnLine(r)'
    BY <1>1, <1>2, <1>4, HandleFacts, Zenon
  <2> QED
    BY <1>5, <2>1, Zenon DEF LifeOf
<1>7. ASSUME NEW s \in Frames, s # r
      PROVE  LifeOf(s)' = LifeOf(s)
  <2>1. s \in roots => running \notin Line(s) /\ (OnLine(s)' <=> OnLine(s))
    BY <1>1, <1>2, <1>4, <1>7, Zenon
  <2> QED
    BY <1>1, <1>5, <2>1, Zenon DEF LifeOf
<1>8. Life' = [Life EXCEPT ![r] = "ready"] /\ Life[r] = LifeOf(r)
  BY <1>2, <1>6, <1>7, LifeChange, Zenon
<1>9. Lifecycle!Yielded(r)
  BY <1>2, <1>4, <1>8, Zenon DEF Lifecycle!Yielded, QueueOf
<1> QED
  BY <1>2, <1>9, Zenon

LEMMA WaitLife ==
  ASSUME LifeInv, LifeInv', NEW p \in Frames, Wait(p)
  PROVE  \E r \in Frames : Lifecycle!Blocked(r)
<1>1. /\ p = running /\ stage[p] = "running" /\ completed = {}
      /\ running' = None /\ ready' = ready /\ awaiter' = awaiter
      /\ UNCHANGED <<roots, spawned, completed>>
  BY ActsFacts, Zenon DEF Wait, LifeInv, Holders, executor
<1>2. PICK r \in roots : /\ r \in Frames /\ p \in Line(r) /\ LifeOf(r) = "running"
                         /\ ~OnLine(r)
                         /\ \A s \in roots : s # r => p \notin Line(s)
  BY <1>1, RunningRoot, Zenon
<1>3. \A s : Line(s)' = Line(s)
  BY <1>1, CalmLines, Zenon
<1>4. QueueOf' = QueueOf /\ \A s : OnLine(s)' <=> OnLine(s)
  <2>1. QueueOf' = QueueOf
    BY <1>1, <1>3, QueueSame, Zenon
  <2> QED
    BY <1>1, <1>3, <2>1, Zenon DEF OnLine
<1>5. \A s \in roots' : running' \notin Line(s)'
  BY <1>1, NoneOut, Zenon
<1>6. LifeOf(r)' = "waiting"
  <2>1. r \in spawned' /\ r \in roots' /\ r \notin completed' /\ ~OnLine(r)'
    BY <1>1, <1>2, <1>4, HandleFacts, Zenon
  <2> QED
    BY <1>5, <2>1, Zenon DEF LifeOf
<1>7. ASSUME NEW s \in Frames, s # r
      PROVE  LifeOf(s)' = LifeOf(s)
  <2>1. s \in roots => running \notin Line(s)
    BY <1>1, <1>2, <1>7, Zenon
  <2> QED
    BY <1>1, <1>4, <1>5, <2>1, Zenon DEF LifeOf
<1>8. Life' = [Life EXCEPT ![r] = "waiting"] /\ Life[r] = LifeOf(r)
  BY <1>2, <1>6, <1>7, LifeChange, Zenon
<1>9. Lifecycle!Blocked(r)
  BY <1>2, <1>4, <1>8, Zenon DEF Lifecycle!Blocked, QueueOf
<1> QED
  BY <1>2, <1>9, Zenon

LEMMA WakeLife ==
  ASSUME LifeInv, LifeInv', NEW f \in Frames, Wake(f)
  PROVE  \E r \in Frames : Lifecycle!Woken(r)
<1>1. /\ stage[f] = "parked" /\ completed = {} /\ \A i \in DOMAIN ready : ready[i] # f
      /\ ready' = Append(ready, f) /\ awaiter' = awaiter
      /\ UNCHANGED <<running, roots, spawned, completed>>
  BY ActsFacts, Zenon DEF Wake, LifeInv
<1>2. PICK r \in roots : f \in Line(r)
  BY <1>1, Zenon DEF LifeInv, Rooted, Started
<1>3. awaiter[f] = None /\ r \in Frames /\ r \in spawned
  BY <1>1, AwaitersFacts, HandleFacts, Zenon DEF LifeInv
<1>4. running \notin Line(r)
  <2>1. ASSUME running \in Line(r)
        PROVE  FALSE
    <3>1. running \in Frames /\ running # f
      BY <1>1, <2>1, HandleFacts, Zenon
    <3>2. awaiter[running] = None
      <4>1. \E p \in Holders : Acts(p)
        BY Zenon DEF Wake
      <4>2. stage[running] = "running"
        BY <3>1, <4>1, TaskChainAssumption, Zenon DEF Acts
      <4> QED
        BY <3>1, <4>2, AwaitersFacts, Zenon DEF LifeInv
    <3> QED
      BY <1>2, <1>3, <2>1, <3>1, <3>2, ChainLines, Zenon DEF LifeInv, ChainsApart
  <2> QED
    BY <2>1, Zenon
<1>5. ~OnLine(r)
  BY <1>1, <1>2, <1>3, RootFacts, ChainLines, Zenon DEF LifeInv, ChainsApart, OnLine
<1>6. LifeOf(r) = "waiting"
  BY <1>1, <1>2, <1>3, <1>4, <1>5, Zenon DEF LifeOf
<1>7. \A s : Line(s)' = Line(s)
  BY <1>1, CalmLines, Zenon
<1>8. /\ QueueOf' = Append(QueueOf, r)
      /\ \A s : OnLine(s)' <=> OnLine(s) \/ f \in Line(s)
  BY <1>1, <1>2, <1>7, QueueAppend
<1>9. LifeOf(r)' = "ready"
  <2>1. /\ r \in spawned' /\ r \in roots' /\ r \notin completed' /\ OnLine(r)'
        /\ running' \notin Line(r)'
    BY <1>1, <1>2, <1>3, <1>4, <1>7, <1>8, Zenon
  <2> QED
    BY <2>1, Zenon DEF LifeOf
<1>10. ASSUME NEW s \in Frames, s # r
       PROVE  LifeOf(s)' = LifeOf(s)
  <2>1. s \in roots => f \notin Line(s)
    BY <1>2, <1>10, ChainLines, Zenon DEF LifeInv, ChainsApart
  <2>2. s \in roots => (OnLine(s)' <=> OnLine(s)) /\ (running' \in Line(s)' <=> running \in Line(s))
    BY <1>1, <1>7, <1>8, <2>1, Zenon
  <2> QED
    BY <1>1, <2>2, Zenon DEF LifeOf
<1>11. Life' = [Life EXCEPT ![r] = "ready"] /\ Life[r] = LifeOf(r)
  BY <1>3, <1>9, <1>10, LifeChange, Zenon
<1>12. Lifecycle!Woken(r)
  BY <1>6, <1>8, <1>11, Zenon DEF Lifecycle!Woken, QueueOf
<1> QED
  BY <1>3, <1>12, Zenon

LEMMA SpawnLife ==
  ASSUME LifeInv, LifeInv', NEW p \in Holders, NEW f \in Frames, Spawn(p, f)
  PROVE  Lifecycle!Spawned(f)
<1>1. /\ Acts(p) /\ f \in tasks[p] /\ completed = {}
      /\ roots' = roots \cup {f} /\ spawned' = spawned \cup {f}
      /\ ready' = Append(ready, f) /\ awaiter' = awaiter /\ UNCHANGED <<running, completed>>
  BY ActsFacts, Zenon DEF Spawn, LifeInv
<1>2. stage[f] = "initial" /\ f \notin roots
  BY <1>1, Zenon DEF LifeInv, ChainInv, Fresh, Single, Holding
<1>3. f \notin spawned
  BY <1>2, Zenon DEF LifeInv, Rooted
<1>4. \A s : Line(s)' = Line(s)
  BY <1>1, CalmLines, Zenon
<1>5. ChainsApart' /\ f \in roots'
  BY <1>1, ChainLinesNext, Zenon DEF LifeInv
<1>6. Line(f) = {f}
  <2>1. awaiter'[f] = None
    BY <1>1, <1>2, AwaitersFacts, Zenon DEF LifeInv
  <2> QED
    BY <1>4, <1>5, <2>1, Zenon DEF ChainsApart
<1>7. /\ QueueOf' = Append(QueueOf, f)
      /\ \A s : OnLine(s)' <=> OnLine(s) \/ f \in Line(s)
  <2>1. f \in Line(f) /\ roots \subseteq roots'
    BY <1>1, <1>6, Zenon
  <2> QED
    BY <1>1, <1>4, <1>5, <2>1, QueueAppend
<1>8. LifeOf(f) = "unborn" /\ LifeOf(f)' = "ready"
  <2>1. running' \notin Line(f)'
    BY <1>1, <1>2, <1>4, <1>6, HandleFacts, Zenon
  <2>2. OnLine(f)' /\ f \in spawned' /\ f \in roots' /\ f \notin completed'
    BY <1>1, <1>6, <1>7, Zenon
  <2> QED
    BY <1>3, <2>1, <2>2, Zenon DEF LifeOf
<1>9. ASSUME NEW s \in Frames, s # f
      PROVE  LifeOf(s)' = LifeOf(s)
  <2>1. /\ s \in roots' <=> s \in roots
        /\ s \in spawned' <=> s \in spawned
        /\ s \in completed' <=> s \in completed
        /\ running' \in Line(s)' <=> running \in Line(s)
    BY <1>1, <1>4, <1>9, Zenon
  <2>2. s \in roots => (OnLine(s)' <=> OnLine(s))
    BY <1>1, <1>4, <1>5, <1>6, <1>7, <1>9, Zenon DEF ChainsApart
  <2> QED
    BY <2>1, <2>2, Zenon DEF LifeOf
<1>10. Life' = [Life EXCEPT ![f] = "ready"] /\ Life[f] = LifeOf(f)
  BY <1>8, <1>9, LifeChange, Zenon
<1> QED
  BY <1>7, <1>8, <1>10, Zenon DEF Lifecycle!Spawned, QueueOf

\* Nothing runs when the loop or the code outside has control.
LEMMA NothingRuns ==
  ASSUME LifeInv, running = None
  PROVE  Lifecycle!In("running") = {}
<1>1. \A s \in Frames : LifeOf(s) # "running"
  BY HandleFacts, Zenon DEF LifeOf
<1>2. \A s \in Frames : Life[s] # "running"
  BY <1>1, LifeIs, Zenon
<1> QED
  BY <1>2, Zenon DEF Lifecycle!In

LEMMA ResumeLife ==
  ASSUME LifeInv, LifeInv', Resume
  PROVE  Lifecycle!Resumed
<1>1. /\ awaiter' = awaiter /\ UNCHANGED <<roots, spawned, completed>>
      /\ running = None /\ completed = {} /\ ready # <<>>
      /\ running' = Head(ready) /\ ready' = Tail(ready)
      /\ Head(ready) \in Frames /\ 1 \in DOMAIN ready /\ ready[1] = Head(ready)
  BY ResumeLines, Zenon
<1>2. PICK r \in roots : Head(ready) \in Line(r)
  BY <1>1, RootFacts
<1>3. QueueGood /\ QueueGood'
  BY QueueIs, QueueIsNext, Zenon
<1>4. r \in Frames /\ r \in spawned
  BY HandleFacts, Zenon
<1>5. \A s : Line(s)' = Line(s)
  BY <1>1, CalmLines, Zenon
<1>6. PICK q \in Seq(Frames) : /\ q = QueueOf /\ Len(q) = Len(ready) /\ q[1] = r
  <2>1. QueueOf \in Seq(Frames) /\ Len(QueueOf) = Len(ready) /\ QueueOf[1] = r
    BY <1>1, <1>2, <1>3, Zenon DEF QueueGood
  <2> QED
    BY <2>1
<1>7. PICK u \in Seq(Frames) : u = QueueOf' /\ Len(u) = Len(ready')
  <2>1. QueueOf' \in Seq(Frames) /\ Len(QueueOf)' = Len(ready')
    BY <1>3, Zenon DEF QueueGood
  <2> QED
    BY <2>1
<1>8. ready \in Seq(Frames)
  BY <1>3, Zenon DEF QueueGood
<1>9. /\ \A i \in DOMAIN ready' : i + 1 \in DOMAIN ready /\ i + 1 # 1 /\ ready'[i] = ready[i + 1]
      /\ \A i \in DOMAIN ready : i = 1 \/ \E j \in DOMAIN ready' : i = j + 1
  BY <1>1, <1>8, TailIn
<1>10. ASSUME NEW i \in DOMAIN ready'
       PROVE  u[i] = q[i + 1]
  <2>1. PICK s \in roots : ready[i + 1] \in Line(s)
    BY <1>9, RootFacts, Zenon
  <2>2. q[i + 1] = s
    BY <1>3, <1>6, <1>9, <2>1, Zenon DEF QueueGood
  <2>3. s \in roots' /\ ready'[i] \in Line(s)'
    BY <1>1, <1>5, <1>9, <2>1, Zenon
  <2> QED
    BY <1>3, <1>7, <2>2, <2>3, Zenon DEF QueueGood
<1>11. q # <<>> /\ Head(q) = r /\ u = Tail(q)
  <2>1. /\ Len(ready) \in Nat \ {0} /\ Len(ready') = Len(ready) - 1
        /\ DOMAIN ready' = 1..(Len(ready) - 1)
    BY <1>1, <1>8
  <2>2. PICK n \in Nat : n = Len(ready) - 1 /\ Len(q) = n + 1 /\ Len(u) = n
    BY <1>6, <1>7, <2>1
  <2>3. \A i \in 1..n : u[i] = q[i + 1]
    BY <1>10, <2>1, <2>2
  <2>4. q # <<>> /\ Head(q) = r
    BY <1>6, <2>2
  <2>5. Tail(q) \in Seq(Frames) /\ Len(Tail(q)) = n /\ \A i \in 1..n : Tail(q)[i] = q[i + 1]
    BY <2>2, <2>4
  <2>6. \A i \in 1..n : u[i] = Tail(q)[i]
    BY <2>3, <2>5, Zenon
  <2>7. u = Tail(q)
    BY <2>2, <2>5, <2>6, SameSeq
  <2> QED
    BY <2>4, <2>7, Zenon
<1>12. LifeOf(r)' = "running"
  <2>1. /\ r \in spawned' /\ r \in roots' /\ r \notin completed'
        /\ running' \in Line(r)'
    BY <1>1, <1>2, <1>4, <1>5, Zenon
  <2> QED
    BY <2>1, Zenon DEF LifeOf
<1>13. ASSUME NEW s \in Frames, s # r
       PROVE  LifeOf(s)' = LifeOf(s)
  <2>1. s \in roots => Head(ready) \notin Line(s)
    BY <1>2, <1>13, ChainLines, Zenon DEF LifeInv, ChainsApart
  <2>2. s \in roots => (OnLine(s)' <=> OnLine(s))
    <3>1. OnLine(s)' => OnLine(s)
      BY <1>5, <1>9, Zenon DEF OnLine
    <3>2. ASSUME s \in roots, NEW i \in DOMAIN ready, ready[i] \in Line(s)
          PROVE  OnLine(s)'
      <4>1. i # 1
        BY <1>1, <2>1, <3>2, Zenon
      <4>2. PICK j \in DOMAIN ready' : i = j + 1
        BY <1>9, <4>1, Zenon
      <4>3. ready'[j] = ready[i]
        BY <1>9, <4>2, Zenon
      <4>4. ready'[j] \in Line(s)'
        BY <1>5, <3>2, <4>3, Zenon
      <4> QED
        BY <4>4, Zenon DEF OnLine
    <3> QED
      BY <3>1, <3>2, Zenon DEF OnLine
  <2>3. s \in roots => running' \notin Line(s)' /\ running \notin Line(s)
    BY <1>1, <1>5, <2>1, HandleFacts, Zenon
  <2> QED
    BY <1>1, <2>2, <2>3, Zenon DEF LifeOf
<1>14. Life' = [Life EXCEPT ![r] = "running"]
  BY <1>4, <1>12, <1>13, LifeChange, Zenon
<1>15. Lifecycle!In("running") = {}
  BY <1>1, NothingRuns, Zenon
<1>16. QueueOf # <<>> /\ Head(QueueOf) = r /\ QueueOf' = Tail(QueueOf)
  BY <1>6, <1>7, <1>11, Zenon
<1> QED
  BY <1>14, <1>15, <1>16, Zenon DEF Lifecycle!Resumed, QueueOf

LEMMA DrainLife ==
  ASSUME LifeInv, LifeInv', Drain
  PROVE  Lifecycle!Drained
<1>1. /\ awaiter' = awaiter /\ UNCHANGED <<running, spawned, ready>>
      /\ roots' = roots \ completed /\ completed' = {}
  BY DrainLines, Zenon
<1>2. \A s : Line(s)' = Line(s)
  BY <1>1, CalmLines, Zenon
<1>3. ASSUME NEW i \in DOMAIN ready, NEW r \in roots, ready[i] \in Line(r)
      PROVE  r \in roots' /\ ready[i] \in Line(r)'
  <2>1. r \in completed => Line(r) = {r} /\ stage[r] = "done"
    BY RootFacts, ChainLines, Zenon DEF LifeInv, ChainsApart
  <2>2. r \notin completed
    BY <1>3, <2>1, HandleFacts, Zenon
  <2> QED
    BY <1>1, <1>2, <1>3, <2>2, Zenon
<1>4. QueueOf' = QueueOf
  BY <1>1, <1>3, QueueSame, Zenon
<1>5. ASSUME NEW s \in Frames
      PROVE  LifeOf(s)' = IF LifeOf(s) = "completed" THEN "destroyed" ELSE LifeOf(s)
  <2>1. OnLine(s)' <=> OnLine(s)
    BY <1>1, <1>2, Zenon DEF OnLine
  <2>2. s \in roots' <=> s \in roots /\ s \notin completed
    BY <1>1, Zenon
  <2>3. completed \subseteq roots
    BY RootFacts, Zenon
  <2>4. running' \in Line(s)' <=> running \in Line(s)
    BY <1>1, <1>2, Zenon
  <2>5. CASE s \in spawned /\ s \in completed
    BY <1>1, <2>2, <2>3, <2>5, Zenon DEF LifeOf
  <2>6. CASE ~(s \in spawned /\ s \in completed)
    <3>1. LifeOf(s) # "completed"
      BY <2>6, Zenon DEF LifeOf
    <3>2. LifeOf(s)' = LifeOf(s)
      BY <1>1, <2>1, <2>2, <2>4, <2>6, Zenon DEF LifeOf
    <3> QED
      BY <3>1, <3>2, Zenon
  <2> QED
    BY <2>5, <2>6, Zenon
<1>6. Life = [s \in Frames |-> LifeOf(s)] /\ Life' = [s \in Frames |-> LifeOf(s)']
  BY LifeIs, LifeIsNext, Zenon
<1>7. Life' = [s \in Frames |-> IF Life[s] = "completed" THEN "destroyed" ELSE Life[s]]
  BY <1>5, <1>6, Zenon
<1> QED
  BY <1>4, <1>7, Zenon DEF Lifecycle!Drained, QueueOf

LEMMA TearDownLife ==
  ASSUME LifeInv, LifeInv', TearDown
  PROVE  Lifecycle!TornDown
<1>1. running = None /\ UNCHANGED spawned /\ roots' = {} /\ ready' = <<>>
  BY TearDownLines, Zenon
<1>2. QueueOf' = <<>>
  <2>1. PICK u \in Seq(Frames) : u = QueueOf' /\ Len(u) = Len(ready')
    <3>1. QueueOf' \in Seq(Frames) /\ Len(QueueOf)' = Len(ready')
      BY QueueIsNext, Zenon DEF QueueGood
    <3> QED
      BY <3>1
  <2>2. u = <<>>
    BY <1>1, <2>1
  <2> QED
    BY <2>1, <2>2, Zenon
<1>3. \A s \in Frames : LifeOf(s)' = IF LifeOf(s) = "unborn" THEN "unborn" ELSE "destroyed"
  BY <1>1, Zenon DEF LifeOf
<1>4. Life = [s \in Frames |-> LifeOf(s)] /\ Life' = [s \in Frames |-> LifeOf(s)']
  BY LifeIs, LifeIsNext, Zenon
<1>5. Life' = [s \in Frames |-> IF Life[s] = "unborn" THEN "unborn" ELSE "destroyed"]
  BY <1>3, <1>4, Zenon
<1>6. Lifecycle!In("running") = {}
  BY <1>1, NothingRuns, Zenon
<1> QED
  BY <1>2, <1>5, <1>6, Zenon DEF Lifecycle!TornDown, QueueOf

LEMMA LifeStart ==
  Init => Lifecycle!LifeInit
<1> SUFFICES ASSUME Init
             PROVE  Lifecycle!LifeInit
  BY Zenon
<1>1. spawned = {} /\ ready = <<>> /\ LifeInv
  BY LifeInvInit, Zenon DEF Init
<1>2. Life = [s \in Frames |-> "unborn"]
  <2>1. \A s \in Frames : LifeOf(s) = "unborn"
    BY <1>1, Zenon DEF LifeOf
  <2> QED
    BY <1>1, <2>1, LifeIs, Zenon
<1>3. QueueOf = <<>>
  <2>1. PICK u \in Seq(Frames) : u = QueueOf /\ Len(u) = Len(ready)
    <3>1. QueueOf \in Seq(Frames) /\ Len(QueueOf) = Len(ready)
      BY <1>1, QueueIs, Zenon DEF QueueGood
    <3> QED
      BY <3>1
  <2>2. u = <<>>
    BY <1>1, <2>1
  <2> QED
    BY <2>1, <2>2, Zenon
<1> QED
  BY <1>2, <1>3, Zenon DEF Lifecycle!LifeInit, QueueOf

LEMMA LifeStep ==
  LifeInv /\ LifeInv' /\ [Next]_vars => [Lifecycle!LifeNext]_(Lifecycle!lifeVars)
<1> SUFFICES ASSUME LifeInv, LifeInv', [Next]_vars
             PROVE  Lifecycle!LifeNext \/ (Life' = Life /\ QueueOf' = QueueOf)
  BY Zenon DEF Lifecycle!lifeVars, QueueOf
<1>1. ASSUME NEW p \in Holders, Step(p)
      PROVE  Lifecycle!LifeNext \/ (Life' = Life /\ QueueOf' = QueueOf)
  <2>1. PICK f \in Frames : \/ \E given \in SUBSET tasks[p] : Create(p, f, given)
                            \/ Reset(p, f) \/ Spawn(p, f)
    BY <1>1, Zenon DEF Step
  <2>2. CASE Spawn(p, f)
    BY <2>2, SpawnLife, Zenon DEF Lifecycle!LifeNext
  <2>3. CASE Reset(p, f) \/ \E given \in SUBSET tasks[p] : Create(p, f, given)
    <3>1. awaiter' = awaiter
      BY <2>3, PlainCalm, ResetCalm, Zenon DEF LifeInv, Calm
    <3>2. UNCHANGED <<running, roots, spawned, completed, ready>>
      BY <2>3, Zenon DEF Create, Reset, executor
    <3> QED
      BY <3>1, <3>2, StillLife, Zenon
  <2> QED
    BY <2>1, <2>2, <2>3, Zenon
<1>2. ASSUME NEW f \in Frames, FrameStep(f)
      PROVE  Lifecycle!LifeNext \/ (Life' = Life /\ QueueOf' = QueueOf)
  <2>1. CASE \E g \in Frames : Await(f, g)
    BY <2>1, AwaitLife, Zenon
  <2>2. CASE Raise(f) \/ Catch(f)
    <3>1. UNCHANGED <<awaiter, running, roots, spawned, completed, ready>>
      BY <2>2, Zenon DEF Raise, Catch, executor
    <3> QED
      BY <3>1, StillLife, Zenon
  <2>3. CASE Yield(f)
    BY <2>3, YieldLife, Zenon DEF Lifecycle!LifeNext
  <2>4. CASE Wait(f)
    BY <2>4, WaitLife, Zenon DEF Lifecycle!LifeNext
  <2>5. CASE Wake(f)
    BY <2>5, WakeLife, Zenon DEF Lifecycle!LifeNext
  <2>6. CASE Finish(f) /\ f \notin roots
    BY <2>6, ReturnLife, Zenon
  <2>7. CASE Finish(f) /\ f \in roots
    BY <2>7, CompleteLife, Zenon DEF Lifecycle!LifeNext
  <2>8. CASE AwaitResume(f)
    BY <2>8, AwaitResumeLife, Zenon
  <2> QED
    BY <1>2, <2>1, <2>2, <2>3, <2>4, <2>5, <2>6, <2>7, <2>8, Zenon DEF FrameStep
<1>3. CASE Resume
  BY <1>3, ResumeLife, Zenon DEF Lifecycle!LifeNext
<1>4. CASE Drain
  BY <1>4, DrainLife, Zenon DEF Lifecycle!LifeNext
<1>5. CASE TearDown
  BY <1>5, TearDownLife, Zenon DEF Lifecycle!LifeNext
<1>6. CASE UNCHANGED vars
  <2>1. UNCHANGED <<awaiter, running, roots, spawned, completed, ready>>
    BY <1>6, Zenon DEF vars, executor
  <2> QED
    BY <2>1, StillLife, Zenon
<1> QED
  BY <1>1, <1>2, <1>3, <1>4, <1>5, <1>6, Zenon DEF Next

\* For every number of frames, a root with the frames it awaits behaves as one
\* task of the executor's life cycle: await_suspend(), final_suspend() and
\* await_resume() move control inside a chain and are invisible from outside,
\* yield() and the waits queue or park the innermost frame on behalf of its
\* root, and run_ready() resumes the chains in the order they were queued.
THEOREM ChainIsOneTask ==
  Spec => RefinesLifecycle
<1>1. Spec => []LifeInv
  BY LifeInvInit, LifeInvStep, PTL DEF Spec
<1> QED
  BY <1>1, LifeStart, LifeStep, PTL DEF Spec, RefinesLifecycle, Lifecycle!LifeSpec

=============================================================================
