-------------------------- MODULE TcpStreamProofs --------------------------
(***************************************************************************)
(* Proofs about TcpStream: descriptor ownership, the waiters of closed      *)
(* sockets, deadlines and the outcome of every operation.                   *)
(***************************************************************************)
EXTENDS TcpStream, TLAPS

----------------------------------------------------------------------------
(* Sequences.                                                              *)

LEMMA EmptySeq ==
  ASSUME NEW S
  PROVE  <<>> \in Seq(S) /\ Len(<<>>) = 0
OBVIOUS

LEMMA SeqDomain ==
  ASSUME NEW S, NEW s \in Seq(S)
  PROVE  Len(s) \in Nat /\ DOMAIN s = 1..Len(s) /\ s \in [1..Len(s) -> S]
OBVIOUS

LEMMA AppendFacts ==
  ASSUME NEW S, NEW s \in Seq(S), NEW e \in S
  PROVE  /\ Append(s, e) \in Seq(S) /\ Append(s, e) # <<>>
         /\ Len(Append(s, e)) = Len(s) + 1 /\ Append(s, e)[Len(s) + 1] = e
         /\ \A i \in 1..Len(s) : Append(s, e)[i] = s[i]
OBVIOUS

LEMMA TailFacts ==
  ASSUME NEW S, NEW s \in Seq(S), s # <<>>
  PROVE  /\ Head(s) \in S /\ Head(s) = s[1] /\ Len(s) >= 1
         /\ Tail(s) \in Seq(S) /\ Len(Tail(s)) = Len(s) - 1
         /\ \A i \in 1..Len(Tail(s)) : Tail(s)[i] = s[i + 1]
OBVIOUS


\* Where a task is kept while it does not run.
Holds(q, t) == \E i \in 1..Len(q) : q[i] = t
Queued(t) == Holds(ready, t)
Parked(t) == \E n \in Fds, e \in Event : slot[n][e] # None /\ slot[n][e].cont = t

\* A task is in the ready queue at most once.
Once(q) == \A i, j \in 1..Len(q) : q[i] = q[j] => i = j

\* A task runs, is queued or is parked: one of these at a time.
Apart ==
  /\ Once(ready)
  /\ \A t \in Tasks : /\ current = t => ~Queued(t) /\ ~Parked(t)
                      /\ Parked(t) => ~Queued(t)

\* An operation is on an object that was made.  It gives up the thread only to
\* wait, and while it has it the object stays open.
OpsRun ==
  \A t \in Tasks :
    IF op[t].kind = "none" THEN ~op[t].waiting
    ELSE /\ op[t].sock \in Socks
         /\ fd[op[t].sock] >= 0 \/ op[t].sock \in gone \cup {Listener}
         /\ ~op[t].waiting => current = t /\ fd[op[t].sock] >= 0

\* Why a waiting operation was woken.
WokenFor ==
  \A t \in Tasks :
    op[t].waiting /\ ~Parked(t) =>
      \/ result[t]
      \/ fd[op[t].sock] = -1
      \/ 0 <= op[t].due /\ op[t].due <= clock

TcpInv ==
  /\ TypeOK /\ OneOwner /\ WaitersOwned /\ DeadlineSpans
  /\ Apart /\ OpsRun /\ WokenFor

----------------------------------------------------------------------------
(* Queues, deadlines, ownership.                                           *)

LEMMA AppendOnce ==
  ASSUME NEW q \in Seq(Tasks), NEW t \in Tasks, Once(q), ~Holds(q, t)
  PROVE  /\ Append(q, t) \in Seq(Tasks) /\ Once(Append(q, t))
         /\ \A x : Holds(Append(q, t), x) <=> Holds(q, x) \/ x = t
<1> DEFINE a == Append(q, t)
<1>1. /\ a \in Seq(Tasks) /\ Len(a) = Len(q) + 1 /\ Len(q) \in Nat
      /\ a[Len(q) + 1] = t /\ \A i \in 1..Len(q) : a[i] = q[i]
  BY AppendFacts, SeqDomain
<1> HIDE DEF a
<1>2. 1..Len(a) = 1..Len(q) \cup {Len(a)} /\ Len(a) \notin 1..Len(q)
  BY <1>1
<1>3. Once(a)
  BY <1>1, <1>2, Zenon DEF Once, Holds
<1>4. \A x : Holds(a, x) <=> Holds(q, x) \/ x = t
  BY <1>1, <1>2, Zenon DEF Holds
<1> QED BY <1>1, <1>3, <1>4, Zenon DEF a

LEMMA TailOnce ==
  ASSUME NEW q \in Seq(Tasks), q # <<>>, Once(q)
  PROVE  /\ Head(q) \in Tasks /\ Tail(q) \in Seq(Tasks) /\ Once(Tail(q))
         /\ Holds(q, Head(q))
         /\ \A x : Holds(Tail(q), x) <=> Holds(q, x) /\ x # Head(q)
<1> DEFINE r == Tail(q)
<1>1. /\ r \in Seq(Tasks) /\ Len(r) = Len(q) - 1 /\ Len(q) \in Nat /\ Len(q) # 0
      /\ Head(q) = q[1] /\ \A i \in 1..Len(r) : r[i] = q[i + 1]
  BY TailFacts, EmptySeq, SeqDomain
<1>2. q[1] \in Tasks /\ 1 \in 1..Len(q)
  BY <1>1, SeqDomain
<1> HIDE DEF r
<1>3. Once(r)
  BY <1>1 DEF Once
<1>4. ASSUME NEW x PROVE Holds(r, x) <=> Holds(q, x) /\ x # q[1]
  <2>1. ASSUME Holds(r, x) PROVE Holds(q, x) /\ x # q[1]
    <3>1. PICK i \in 1..Len(r) : r[i] = x
      BY <2>1, Zenon DEF Holds
    <3>2. i + 1 \in 1..Len(q) /\ i + 1 # 1 /\ q[i + 1] = x
      BY <1>1, <3>1
    <3> QED BY <1>2, <3>2, Zenon DEF Holds, Once
  <2>2. ASSUME Holds(q, x), x # q[1] PROVE Holds(r, x)
    <3>1. PICK i \in 1..Len(q) : q[i] = x
      BY <2>2, Zenon DEF Holds
    <3>2. i # 1
      BY <2>2, <3>1, Zenon
    <3>3. i - 1 \in 1..Len(r) /\ r[i - 1] = x
      BY <1>1, <3>1, <3>2
    <3> QED BY <3>3, Zenon DEF Holds
  <2> QED BY <2>1, <2>2, Zenon
<1> QED BY <1>1, <1>2, <1>3, <1>4, Zenon DEF r, Holds

\* A timer is armed less than a millisecond after the deadline it is for.
LEMMA RemainingCorrect ==
  ASSUME NEW due \in Nat \cup {-1}, clock \in Nat
  PROVE  LET w == Deadline(remaining(due)) IN
         /\ w \in Nat \cup {-1}
         /\ IF due < 0 THEN w = -1
            ELSE \/ due <= w /\ w < due + TicksPerMs
                 \/ due < w /\ w <= clock
<1>0. TicksPerMs \in Nat \ {0}
  BY TcpStreamAssumption, Zenon
<1>1. CASE due < 0
  BY <1>1 DEF remaining, Deadline, kNoTimeout
<1>2. CASE due >= 0 /\ clock >= due
  <2>1. remaining(due) = 0
    BY <1>2 DEF remaining
  <2>2. Deadline(0) = clock
    BY <1>0 DEF Deadline
  <2> QED BY <1>0, <1>2, <2>1, <2>2
<1>3. CASE due >= 0 /\ clock < due
  <2> DEFINE left == due - clock
             ms == left \div TicksPerMs
  <2>1. left \in Nat
    BY <1>3
  <2>2. ms \in Nat /\ ms * TicksPerMs \in Nat /\ ms * TicksPerMs <= left
        /\ left < ms * TicksPerMs + TicksPerMs
        /\ (ms + 1) * TicksPerMs = ms * TicksPerMs + TicksPerMs
    <3> HIDE DEF left
    <3> QED BY <1>0, <2>1
  <2>3. remaining(due) = IF ms * TicksPerMs < left THEN ms + 1 ELSE ms
    BY <1>3 DEF remaining, ceil_ms
  <2>4. remaining(due) >= 0 /\ remaining(due) \in Nat
    <3> HIDE DEF ms
    <3> QED BY <2>2, <2>3
  <2>5. /\ remaining(due) * TicksPerMs \in Nat
        /\ left <= remaining(due) * TicksPerMs
        /\ remaining(due) * TicksPerMs < left + TicksPerMs
    <3> HIDE DEF ms, left
    <3>1. CASE ms * TicksPerMs < left
      BY <1>0, <2>1, <2>2, <2>3, <3>1
    <3>2. CASE ~(ms * TicksPerMs < left)
      BY <1>0, <2>1, <2>2, <2>3, <3>2
    <3> QED BY <3>1, <3>2, Zenon
  <2>6. Deadline(remaining(due)) = clock + remaining(due) * TicksPerMs
    BY <2>4, Zenon DEF Deadline
  <2> DEFINE p == remaining(due) * TicksPerMs
  <2>7. p \in Nat /\ due - clock <= p /\ p < (due - clock) + TicksPerMs
    BY <2>5, Zenon
  <2> HIDE DEF p
  <2>8. clock + p \in Nat /\ due <= clock + p /\ clock + p < due + TicksPerMs
    BY <1>0, <1>3, <2>7
  <2> QED BY <1>3, <2>6, <2>8 DEF p
<1> QED BY <1>1, <1>2, <1>3

LEMMA Constants ==
  /\ Payload \in Nat \ {0} /\ TicksPerMs \in Nat \ {0} /\ 0 \in 0..Payload
  /\ Fds \subseteq Nat /\ -1 \notin Fds /\ ListenFd \in Fds
  /\ Listener \notin Streams /\ Listener \in Socks /\ Streams \subseteq Socks
  /\ None \notin Socks /\ None \notin Tasks /\ None \notin Waiter
<1>1. Payload \in Nat \ {0} /\ TicksPerMs \in Nat \ {0}
  BY TcpStreamAssumption, Zenon
<1>2. Fds \subseteq Nat /\ -1 \notin Fds /\ ListenFd \in Fds
  BY TcpStreamAssumption
<1>3. /\ Listener \notin Streams /\ Listener \in Socks /\ Streams \subseteq Socks
      /\ None \notin Socks /\ None \notin Tasks /\ None \notin Waiter
  BY TcpStreamAssumption, Zenon DEF Socks
<1> QED BY <1>1, <1>2, <1>3

LEMMA SlotType ==
  ASSUME TypeOK, NEW n \in Fds, NEW e \in Event, slot[n][e] # None
  PROVE  /\ slot[n][e] \in Waiter /\ slot[n][e].cont \in Tasks
         /\ slot[n][e].due \in Nat \cup {-1}
  BY DEF TypeOK, WaitsTypeOK, Waiter

LEMMA OpType ==
  ASSUME TypeOK, NEW t \in Tasks
  PROVE  /\ op[t] \in Operation /\ op[t].due \in Nat \cup {-1}
         /\ op[t].sock \in Socks \cup {None}
         /\ op[t].written \in 0..Payload /\ op[t].waiting \in BOOLEAN
         /\ op[t].kind \in {"none", "read", "write", "accept"}
  BY Zenon DEF TypeOK, Operation

LEMMA FdType ==
  ASSUME TypeOK, NEW s \in Socks
  PROVE  fd[s] \in Fds \cup {-1} /\ (fd[s] >= 0 <=> fd[s] \in Fds) /\ (fd[s] < 0 <=> fd[s] = -1)
<1>1. fd[s] \in Fds \cup {-1}
  BY Zenon DEF TypeOK
<1>2. CASE fd[s] \in Fds
  <2>1. fd[s] \in Nat
    BY <1>2, Constants, Zenon
  <2> QED BY <1>2, <2>1
<1>3. CASE fd[s] = -1
  BY <1>3, Constants
<1> QED BY <1>1, <1>2, <1>3, Zenon

\* What a waiter tells of its operation o: it waits on slot [n][e], where f are
\* the descriptors of the sockets.
WaitsOn(f, o, n, e) ==
  /\ o.waiting /\ f[o.sock] = n
  /\ e = IF o.kind = "write" THEN "WRITE" ELSE "READ"

LEMMA WaiterFacts ==
  ASSUME WaitersOwned, NEW n \in Fds, NEW e \in Event, slot[n][e] # None
  PROVE  WaitsOn(fd, op[slot[n][e].cont], n, e)
BY Zenon DEF WaitersOwned, WaitsOn

LEMMA WaitersAre ==
  ASSUME \A n \in Fds, e \in Event :
           slot'[n][e] # None => WaitsOn(fd', op'[slot'[n][e].cont], n, e)
  PROVE  WaitersOwned'
BY Zenon DEF WaitersOwned, WaitsOn

\* A slot that is taken after a step was taken before it, by the same waiter of
\* the same operation.
SameWaiter(n, e) ==
  slot'[n][e] # None => /\ slot'[n][e] = slot[n][e]
                        /\ op'[slot[n][e].cont] = op[slot[n][e].cont]

LEMMA WaitersKept ==
  ASSUME WaitersOwned,
         \A n \in Fds, e \in Event :
           /\ SameWaiter(n, e)
           /\ slot'[n][e] # None =>
                fd'[op[slot[n][e].cont].sock] = fd[op[slot[n][e].cont].sock]
  PROVE  WaitersOwned'
<1> SUFFICES ASSUME NEW n \in Fds, NEW e \in Event, slot'[n][e] # None
             PROVE  WaitsOn(fd', op'[slot'[n][e].cont], n, e)
  BY WaitersAre, Zenon
<1>1. PICK o : o = op[slot[n][e].cont]
  BY Zenon
<1>2. slot'[n][e] = slot[n][e] /\ op'[slot'[n][e].cont] = o /\ fd'[o.sock] = fd[o.sock]
  <2>1. slot'[n][e] = slot[n][e]
    BY Zenon DEF SameWaiter
  <2>2. op'[slot[n][e].cont] = o
    BY <1>1, Zenon DEF SameWaiter
  <2>3. fd'[op[slot[n][e].cont].sock] = fd[op[slot[n][e].cont].sock]
    BY Zenon
  <2> QED BY <1>1, <2>1, <2>2, <2>3, Zenon
<1>3. WaitsOn(fd, o, n, e)
  BY <1>1, <1>2, WaiterFacts, Zenon
<1>4. WaitsOn(fd', o, n, e)
  BY <1>2, <1>3, Zenon DEF WaitsOn
<1> QED
  BY <1>2, <1>4, Zenon

LEMMA SpansKept ==
  ASSUME DeadlineSpans, UNCHANGED clock,
         \A n \in Fds, e \in Event : SameWaiter(n, e)
  PROVE  DeadlineSpans'
<1> SUFFICES ASSUME NEW n \in Fds, NEW e \in Event, slot'[n][e] # None
             PROVE  LET w == slot'[n][e]
                        due == op'[w.cont].due IN
                    IF due < 0 THEN w.due = -1
                    ELSE \/ due <= w.due /\ w.due < due + TicksPerMs
                         \/ due < w.due /\ w.due <= clock'
  BY Zenon DEF DeadlineSpans
<1>1. slot'[n][e] = slot[n][e] /\ op'[slot[n][e].cont] = op[slot[n][e].cont]
  BY Zenon DEF SameWaiter
<1>2. slot[n][e] # None
  BY <1>1, Zenon
<1>3. PICK w, due : w = slot[n][e] /\ due = op[w.cont].due
  BY Zenon
<1>4. w = slot'[n][e] /\ due = op'[slot'[n][e].cont].due
  BY <1>1, <1>3, Zenon
<1>5. IF due < 0 THEN w.due = -1
      ELSE \/ due <= w.due /\ w.due < due + TicksPerMs
           \/ due < w.due /\ w.due <= clock
  BY <1>2, <1>3, Zenon DEF DeadlineSpans
<1> QED
  BY <1>4, <1>5, Zenon

LEMMA SocketsSame ==
  ASSUME UNCHANGED <<slot, op, fd, file, gone, clock>>, OneOwner, WaitersOwned, DeadlineSpans
  PROVE  OneOwner' /\ WaitersOwned' /\ DeadlineSpans'
<1>1. OneOwner'
  BY DEF OneOwner
<1>2. WaitersOwned'
  <2>1. \A n \in Fds, e \in Event : SameWaiter(n, e)
    BY Zenon DEF SameWaiter
  <2> QED BY <2>1, WaitersKept, Zenon
<1>3. DeadlineSpans'
  BY Zenon DEF DeadlineSpans
<1> QED BY <1>1, <1>2, <1>3, Zenon

----------------------------------------------------------------------------
(* One lemma for each way a step changes the state.                        *)

\* The task that runs changes its operation and nothing else.
LEMMA OpKeeps ==
  ASSUME TcpInv, NEW t \in Tasks, current = t,
         UNCHANGED <<slot, ready, clock, sockVars, current>>, ops' \in Nat,
         result' \in [Tasks -> BOOLEAN],
         \A u \in Tasks : u # t => result'[u] = result[u],
         NEW o \in Operation, op' = [op EXCEPT ![t] = o], ~o.waiting,
         o.kind # "none" => o.sock \in Socks /\ fd[o.sock] >= 0
  PROVE  TcpInv'
<1> USE DEF TcpInv
<1>0. UNCHANGED <<slot, ready, clock, fd, file, gone, current>>
  BY Zenon DEF sockVars
<1>1. TypeOK'
  BY <1>0, Zenon DEF TypeOK, WaitsTypeOK
<1>2. /\ \A u \in Tasks : op'[u] = IF u = t THEN o ELSE op[u]
      /\ \A n \in Fds, e \in Event :
           slot[n][e] # None => slot[n][e].cont \in Tasks /\ slot[n][e].cont # t
  BY SlotType, Zenon DEF TypeOK, Apart, Parked
<1>10. \A u \in Tasks : u # t => op'[u] = op[u]
  BY <1>2, Zenon
<1>11. \A n \in Fds, e \in Event : SameWaiter(n, e)
  <2> SUFFICES ASSUME NEW n \in Fds, NEW e \in Event, slot'[n][e] # None
               PROVE  slot'[n][e] = slot[n][e] /\ op'[slot[n][e].cont] = op[slot[n][e].cont]
    BY Zenon DEF SameWaiter
  <2>0. PICK x : x = slot[n][e]
    BY Zenon
  <2>1. slot'[n][e] = x /\ x # None
    BY <1>0, <2>0, Zenon
  <2>2. x.cont \in Tasks /\ x.cont # t
    BY <1>2, <2>0, <2>1, Zenon
  <2>3. op'[x.cont] = op[x.cont]
    BY <1>10, <2>2, Zenon
  <2> QED BY <2>0, <2>1, <2>3, Zenon
<1>3. OneOwner'
  BY <1>0, Zenon DEF OneOwner
<1>4. WaitersOwned'
  BY <1>0, <1>11, WaitersKept, Zenon
<1>5. DeadlineSpans'
  BY <1>0, <1>11, SpansKept, Zenon
<1>6. \A u : (Parked(u)' <=> Parked(u)) /\ (Queued(u)' <=> Queued(u))
  BY <1>0, Zenon DEF Parked, Queued, Holds
<1>7. Apart'
  BY <1>0, <1>6, Zenon DEF Apart, Once
<1>8. OpsRun'
  BY <1>0, <1>2 DEF OpsRun
<1>9. WokenFor'
  BY <1>0, <1>2, <1>6 DEF WokenFor
<1> QED BY <1>1, <1>3, <1>4, <1>5, <1>7, <1>8, <1>9, Zenon

LEMMA EndType ==
  ASSUME NEW status \in {"none", "Ok", "Eof", "Timeout", "Closed", "Error", "Threw"}
  PROVE  LET o == [NoOperation EXCEPT !.status = status] IN
         /\ o \in Operation /\ o.kind = "none" /\ ~o.waiting
         /\ o.status = status
  BY Constants, Zenon DEF NoOperation, Operation

LEMMA EndKeeps ==
  ASSUME TcpInv, NEW t \in Tasks, current = t,
         NEW status \in {"none", "Ok", "Eof", "Timeout", "Closed", "Error", "Threw"},
         End(t, status), UNCHANGED <<waitVars, sockVars, current, ops>>
  PROVE  TcpInv'
<1> DEFINE o == [NoOperation EXCEPT !.status = status]
<1>1. o \in Operation /\ o.kind = "none" /\ ~o.waiting
  BY EndType, Zenon
<1>2. op' = [op EXCEPT ![t] = o] /\ ops' \in Nat /\ result \in [Tasks -> BOOLEAN]
  BY Zenon DEF End, TcpInv, TypeOK, WaitsTypeOK
<1> HIDE DEF o
<1> QED BY <1>1, <1>2, OpKeeps, Zenon DEF waitVars

LEMMA CallKeeps ==
  ASSUME TcpInv, NEW t \in Tasks, NEW kind \in {"read", "write", "accept"},
         NEW s \in Socks, NEW timeout \in Timeouts \cup {kNoTimeout},
         Call(t, kind, s, timeout)
  PROVE  TcpInv'
<1> DEFINE due == Deadline(timeout)
           o == IF fd[s] >= 0
                THEN [NoOperation EXCEPT !.kind = kind, !.sock = s, !.due = due]
                ELSE [NoOperation EXCEPT !.status =
                        IF kind = "accept" THEN "Threw" ELSE "Closed"]
<1>1. due \in Nat \cup {-1}
  <2>1. TicksPerMs \in Nat /\ clock \in Nat /\ (timeout \in Nat \/ timeout = -1)
    BY TcpStreamAssumption, Zenon DEF TcpInv, TypeOK, WaitsTypeOK, kNoTimeout
  <2>2. CASE timeout \in Nat
    <3>1. timeout * TicksPerMs \in Nat
      BY <2>1, <2>2
    <3> QED BY <2>1, <2>2, <3>1 DEF Deadline
  <2>3. CASE timeout = -1
    BY <2>3 DEF Deadline
  <2> QED BY <2>1, <2>2, <2>3, Zenon
<1>2. /\ op' = [op EXCEPT ![t] = o] /\ ops' \in Nat /\ current = t
      /\ UNCHANGED <<waitVars, sockVars, current>> /\ result \in [Tasks -> BOOLEAN]
  BY DEF Call, TcpInv, TypeOK, WaitsTypeOK
<1> HIDE DEF due
<1>3. /\ o \in Operation /\ ~o.waiting
      /\ o.kind # "none" => o.sock = s /\ fd[s] >= 0
  <2>1. CASE fd[s] >= 0
    BY <1>1, <2>1, Constants, Zenon DEF NoOperation, Operation
  <2>2. CASE ~(fd[s] >= 0)
    BY <2>2, EndType, Zenon
  <2> QED BY <2>1, <2>2, Zenon
<1> HIDE DEF o
<1> QED BY <1>2, <1>3, OpKeeps, Zenon DEF waitVars

LEMMA SendKeeps ==
  ASSUME TcpInv, NEW t \in Tasks, Send(t)
  PROVE  TcpInv'
<1>1. PICK count \in 1..(Payload - op[t].written) :
        op' = [op EXCEPT ![t].written = @ + count]
  BY Zenon DEF Send
<1> DEFINE o == [op[t] EXCEPT !.written = @ + count]
<1>2. /\ op[t] \in Operation /\ op[t].written \in Nat /\ op[t].sock \in Socks
      /\ op[t].kind = "write" /\ ~op[t].waiting /\ fd[op[t].sock] >= 0
      /\ current = t /\ op[t].written <= Payload
  BY OpType, Constants DEF Send, Tries, TcpInv, OpsRun
<1>3. op[t].written + count \in 0..Payload
  BY <1>2, Constants
<1>4. o \in Operation /\ o.kind = "write" /\ o.sock = op[t].sock /\ ~o.waiting
  BY <1>2, <1>3, Zenon DEF Operation
<1>5. op' = [op EXCEPT ![t] = o]
  BY <1>1, <1>2, Zenon DEF TcpInv, TypeOK
<1>6. /\ UNCHANGED <<waitVars, sockVars, current>> /\ ops' \in Nat
      /\ result \in [Tasks -> BOOLEAN]
  BY Zenon DEF Send, TcpInv, TypeOK, WaitsTypeOK
<1> HIDE DEF o
<1> QED BY <1>2, <1>4, <1>5, <1>6, OpKeeps, Zenon DEF waitVars

LEMMA ResumedKeeps ==
  ASSUME TcpInv, NEW t \in Tasks, Resumed(t)
  PROVE  TcpInv'
<1>0. /\ op[t] \in Operation /\ op[t].kind # "none" /\ op[t].sock \in Socks
      /\ fd[op[t].sock] >= 0 \/ fd[op[t].sock] < 0
      /\ result \in [Tasks -> BOOLEAN] /\ op \in [Tasks -> Operation] /\ ops \in Nat
  BY OpType, FdType, Zenon DEF Resumed, TcpInv, TypeOK, WaitsTypeOK, OpsRun
<1>1. /\ UNCHANGED <<slot, ready, clock, sockVars, current, ops>> /\ current = t
      /\ result' = [result EXCEPT ![t] = FALSE]
      /\ result' \in [Tasks -> BOOLEAN]
      /\ \A u \in Tasks : u # t => result'[u] = result[u]
  BY <1>0, Zenon DEF Resumed
<1>2. CASE \E status \in {"Closed", "Threw", "Timeout"} : End(t, status)
  <2>1. PICK status \in {"Closed", "Threw", "Timeout"} : End(t, status)
    BY <1>2, Zenon
  <2> DEFINE o == [NoOperation EXCEPT !.status = status]
  <2>2. o \in Operation /\ o.kind = "none" /\ ~o.waiting
    BY EndType, Zenon
  <2>3. op' = [op EXCEPT ![t] = o]
    BY <2>1, Zenon DEF End
  <2> HIDE DEF o
  <2> QED BY <1>0, <1>1, <2>2, <2>3, OpKeeps, Zenon
<1>3. CASE fd[op[t].sock] >= 0 /\ op' = [op EXCEPT ![t].waiting = FALSE]
  <2> DEFINE o == [op[t] EXCEPT !.waiting = FALSE]
  <2>1. o \in Operation /\ o.sock = op[t].sock /\ ~o.waiting
    BY <1>0, Zenon DEF Operation
  <2>2. op' = [op EXCEPT ![t] = o]
    BY <1>0, <1>3, Zenon
  <2> HIDE DEF o
  <2> QED BY <1>0, <1>1, <1>3, <2>1, <2>2, OpKeeps, Zenon
<1> QED BY <1>0, <1>2, <1>3, Zenon DEF Resumed

\* The operation of the running task ends, or no operation changes.
OpsEnd ==
  /\ op' \in [Tasks -> Operation]
  /\ \A u \in Tasks : \/ op'[u] = op[u]
                      \/ u = current /\ op'[u].kind = "none" /\ ~op'[u].waiting

LEMMA AdoptKeeps ==
  ASSUME TcpInv, NEW s \in Streams, Adopt(s) \/ AdoptFails(s), OpsEnd,
         UNCHANGED <<waitVars, current, ops>>
  PROVE  TcpInv'
<1> USE DEF TcpInv
<1>0. UNCHANGED <<slot, ready, result, clock, current, ops>> /\ s \in Socks
      /\ fd \in [Socks -> Fds \cup {-1}] /\ file \in [Fds -> Socks \cup {None}]
  BY Zenon DEF waitVars, Socks, TypeOK
<1>1. /\ TypeOK'
      /\ \A x \in Socks : fd'[x] = fd[x] \/ x = s
      /\ gone \subseteq gone'
      /\ fd[s] = -1 /\ s \notin gone /\ s # Listener
  BY <1>0, Constants, SMTT(30) DEF Adopt, AdoptFails, IsNew, FreeFds, TypeOK, WaitsTypeOK, OpsEnd
<1>2. \A x \in Socks : fd[x] >= 0 => x # s /\ fd'[x] = fd[x]
  BY <1>1
<1>3. OneOwner'
  <2>1. CASE AdoptFails(s)
    BY <1>1, <2>1, Zenon DEF AdoptFails, OneOwner
  <2>2. CASE Adopt(s)
    <3>1. PICK n \in FreeFds : /\ fd' = [fd EXCEPT ![s] = n]
                               /\ file' = [file EXCEPT ![n] = s]
      BY <2>2, Zenon DEF Adopt
    <3>2. n \in Fds /\ file[n] = None /\ n \in Nat /\ gone' = gone
      BY <2>2, <3>1, Constants, Zenon DEF FreeFds, Adopt
    <3>3. \A x \in Socks : fd[x] >= 0 => fd[x] \in Fds /\ fd[x] # n /\ file[fd[x]] = x
      BY <3>2, FdType, Constants, Zenon DEF OneOwner
    <3>4. \A x \in Socks : fd'[x] >= 0 => file'[fd'[x]] = x
      BY <1>0, <3>1, <3>2, <3>3, Zenon
    <3>5. \A m \in Fds : file'[m] # None => fd'[file'[m]] = m
      <4> SUFFICES ASSUME NEW m \in Fds, file'[m] # None PROVE fd'[file'[m]] = m
        BY Zenon
      <4>1. CASE m = n
        BY <1>0, <3>1, <3>2, <4>1, Zenon
      <4>2. CASE m # n
        <5>1. file'[m] = file[m] /\ file[m] \in Socks /\ fd[file[m]] = m
          BY <1>0, <3>1, <3>2, <4>2, Zenon DEF OneOwner
        <5>2. file[m] # s
          BY <1>1, <5>1, Constants, Zenon
        <5> QED BY <1>0, <3>1, <5>1, <5>2, Zenon
      <4> QED BY <4>1, <4>2, Zenon
    <3>6. \A x \in gone' : fd'[x] = -1
      BY <1>0, <1>1, <3>1, <3>2, Constants, SMTT(30) DEF OneOwner, TypeOK
    <3> QED BY <3>4, <3>5, <3>6, Zenon DEF OneOwner
  <2> QED BY <2>1, <2>2, Zenon
<1>4. \A n \in Fds, e \in Event : slot[n][e] # None =>
         LET t == slot[n][e].cont IN
         /\ t \in Tasks /\ t # current /\ op'[t] = op[t] /\ op[t].sock \in Socks
         /\ fd'[op[t].sock] = n
  <2> SUFFICES ASSUME NEW n \in Fds, NEW e \in Event, slot[n][e] # None,
                      NEW t, t = slot[n][e].cont
               PROVE  /\ t \in Tasks /\ t # current /\ op'[t] = op[t]
                      /\ op[t].sock \in Socks /\ fd'[op[t].sock] = n
    OBVIOUS
  <2>1. t \in Tasks /\ Parked(t)
    BY SlotType, Zenon DEF Parked
  <2>2. t # current
    BY <2>1, Zenon DEF Apart
  <2>3. op[t].waiting /\ fd[op[t].sock] = n
    BY Zenon DEF WaitersOwned
  <2>4. op[t].sock \in Socks
    BY <2>1, <2>3, Zenon DEF OpsRun
  <2>5. n \in Nat
    BY Constants, Zenon
  <2>6. op'[t] = op[t]
    BY <2>1, <2>2, Zenon DEF OpsEnd
  <2>7. fd'[op[t].sock] = fd[op[t].sock]
    BY <1>2, <2>3, <2>4, <2>5
  <2> QED BY <2>1, <2>2, <2>3, <2>4, <2>6, <2>7, Zenon
<1>5. WaitersOwned' /\ DeadlineSpans'
  <2>1. \A n \in Fds, e \in Event : SameWaiter(n, e)
    BY <1>0, <1>4, Zenon DEF SameWaiter
  <2>3. \A n \in Fds, e \in Event : slot'[n][e] # None =>
           fd'[op[slot[n][e].cont].sock] = fd[op[slot[n][e].cont].sock]
    <3> SUFFICES ASSUME NEW n \in Fds, NEW e \in Event, slot'[n][e] # None,
                        NEW x, x = op[slot[n][e].cont]
                 PROVE  fd'[x.sock] = fd[x.sock]
      BY Zenon
    <3>1. slot[n][e] # None
      BY <1>0, Zenon
    <3>2. WaitsOn(fd, x, n, e)
      BY <3>1, WaiterFacts, Zenon
    <3>3. fd[x.sock] = n
      BY <3>2, Zenon DEF WaitsOn
    <3>4. fd'[x.sock] = n
      BY <1>4, <3>1, Zenon
    <3> QED BY <3>3, <3>4, Zenon
  <2> QED BY <1>0, <2>1, <2>3, WaitersKept, SpansKept, Zenon
<1>7. \A u : (Parked(u)' <=> Parked(u)) /\ (Queued(u)' <=> Queued(u))
  BY <1>0, Zenon DEF Parked, Queued, Holds
<1>8. Apart'
  BY <1>0, <1>7, Zenon DEF Apart, Once
<1>9. \A t \in Tasks : op'[t].kind # "none" =>
         op'[t] = op[t] /\ op[t].sock \in Socks /\ fd'[op[t].sock] = fd[op[t].sock]
  BY <1>1, <1>2, SMTT(30) DEF OpsEnd, OpsRun
<1>10. OpsRun'
  BY <1>0, <1>1, <1>9, SMTT(30) DEF OpsEnd, OpsRun
<1>11. WokenFor'
  <2> SUFFICES ASSUME NEW t \in Tasks, op'[t].waiting, ~Parked(t)'
               PROVE  \/ result'[t] \/ fd'[op'[t].sock] = -1
                      \/ 0 <= op'[t].due /\ op'[t].due <= clock'
    BY Zenon DEF WokenFor
  <2>1. op'[t].kind # "none"
    BY Zenon DEF OpsEnd, OpsRun
  <2> QED BY <1>0, <1>7, <1>9, <2>1, Zenon DEF WokenFor
<1> QED BY <1>1, <1>3, <1>5, <1>8, <1>10, <1>11, Zenon

LEMMA ParkKeeps ==
  ASSUME TcpInv, NEW t \in Tasks, NEW e \in Event, current = t,
         op[t].kind # "none", ~op[t].waiting,
         e = IF op[t].kind = "write" THEN "WRITE" ELSE "READ",
         Park(fd[op[t].sock], e, t, Deadline(remaining(op[t].due))),
         op' = [op EXCEPT ![t].waiting = TRUE], current' = None,
         UNCHANGED <<clock, sockVars, ops>>
  PROVE  TcpInv'
<1> USE DEF TcpInv
<1> DEFINE n == fd[op[t].sock]
           due == Deadline(remaining(op[t].due))
           w == [cont |-> t, due |-> due]
           o == [op[t] EXCEPT !.waiting = TRUE]
<1>1. /\ op[t].sock \in Socks /\ n >= 0 /\ n \in Fds /\ op[t] \in Operation
      /\ op[t].due \in Nat \cup {-1} /\ clock \in Nat
  BY OpType, FdType, Zenon DEF OpsRun, TypeOK, WaitsTypeOK
<1>2. /\ due \in Nat \cup {-1}
      /\ IF op[t].due < 0 THEN due = -1
         ELSE \/ op[t].due <= due /\ due < op[t].due + TicksPerMs
              \/ op[t].due < due /\ due <= clock
  BY <1>1, RemainingCorrect, Zenon
<1> HIDE DEF due
<1>3. w \in Waiter /\ w.cont = t /\ w.due = due /\ w # None
  BY <1>2, Constants DEF Waiter
<1>4. /\ o \in Operation /\ o.waiting /\ o.sock = op[t].sock /\ o.due = op[t].due
      /\ o.kind = op[t].kind
  BY <1>1, Zenon DEF Operation
<1>5. /\ UNCHANGED <<ready, clock, fd, file, gone, ops>> /\ current' = None
      /\ slot[n][e] = None
      /\ slot' = [slot EXCEPT ![n][e] = w] /\ result' = [result EXCEPT ![t] = FALSE]
      /\ op' = [op EXCEPT ![t] = o]
  BY Zenon DEF Park, sockVars, due, TypeOK
<1> HIDE DEF w, o, n
<1>6. /\ slot \in [Fds -> [Event -> Waiter \cup {None}]]
      /\ op \in [Tasks -> Operation] /\ result \in [Tasks -> BOOLEAN]
  BY Zenon DEF TypeOK, WaitsTypeOK
<1>7. /\ slot' \in [Fds -> [Event -> Waiter \cup {None}]]
      /\ \A m \in Fds, f \in Event :
           slot'[m][f] = IF m = n /\ f = e THEN w ELSE slot[m][f]
  BY <1>1, <1>3, <1>5, <1>6
<1>8. /\ op' \in [Tasks -> Operation] /\ result' \in [Tasks -> BOOLEAN]
      /\ \A u \in Tasks : op'[u] = IF u = t THEN o ELSE op[u]
      /\ \A u \in Tasks : u # t => result'[u] = result[u]
  BY <1>4, <1>5, <1>6, Zenon
<1>9. TypeOK'
  BY <1>5, <1>7, <1>8, Zenon DEF TypeOK, WaitsTypeOK
<1>10. OneOwner'
  BY <1>5, Zenon DEF OneOwner
<1>11. \A m \in Fds, f \in Event : slot[m][f] # None =>
          slot[m][f].cont \in Tasks /\ slot[m][f].cont # t
  BY SlotType, Zenon DEF Apart, Parked
<1>18. \A u \in Tasks : u # t => op'[u] = op[u]
  BY <1>8, Zenon
<1>12. WaitersOwned'
  <2> SUFFICES ASSUME NEW m \in Fds, NEW f \in Event, slot'[m][f] # None
               PROVE  WaitsOn(fd', op'[slot'[m][f].cont], m, f)
    BY WaitersAre, Zenon
  <2>1. CASE m = n /\ f = e
    <3>1. slot'[m][f] = w /\ op'[w.cont] = o
      BY <1>3, <1>7, <1>8, <2>1, Zenon
    <3>2. fd'[o.sock] = m
      BY <1>4, <1>5, <2>1, Zenon DEF n
    <3>3. f = IF o.kind = "write" THEN "WRITE" ELSE "READ"
      BY <1>4, <2>1, Zenon
    <3>4. WaitsOn(fd', o, m, f)
      BY <1>4, <3>2, <3>3, Zenon DEF WaitsOn
    <3> QED BY <3>1, <3>4, Zenon
  <2>2. CASE ~(m = n /\ f = e)
    <3>1. slot'[m][f] = slot[m][f] /\ fd' = fd
      BY <1>5, <1>7, <2>2, Zenon
    <3>2. op'[slot[m][f].cont] = op[slot[m][f].cont]
      BY <1>18, <1>11, <3>1, Zenon
    <3>3. PICK p : p = op[slot[m][f].cont] /\ p = op'[slot'[m][f].cont]
      BY <3>1, <3>2, Zenon
    <3>4. WaitsOn(fd, p, m, f)
      BY <3>1, <3>3, WaiterFacts, Zenon
    <3> QED BY <3>1, <3>3, <3>4, Zenon
  <2> QED BY <2>1, <2>2, Zenon
<1>13. DeadlineSpans'
  <2> SUFFICES ASSUME NEW m \in Fds, NEW f \in Event, slot'[m][f] # None
               PROVE  LET x == slot'[m][f]
                          d == op'[x.cont].due IN
                      IF d < 0 THEN x.due = -1
                      ELSE \/ d <= x.due /\ x.due < d + TicksPerMs
                           \/ d < x.due /\ x.due <= clock'
    BY Zenon DEF DeadlineSpans
  <2>1. CASE m = n /\ f = e
    <3>1. slot'[m][f] = w /\ op'[w.cont].due = op[t].due /\ clock' = clock
      <4>1. slot'[m][f] = w /\ clock' = clock
        BY <1>5, <1>7, <2>1, Zenon
      <4>2. op'[w.cont] = o
        BY <1>3, <1>8, Zenon
      <4> QED BY <1>4, <4>1, <4>2, Zenon
    <3>2. IF op[t].due < 0 THEN w.due = -1
          ELSE \/ op[t].due <= w.due /\ w.due < op[t].due + TicksPerMs
               \/ op[t].due < w.due /\ w.due <= clock
      BY <1>2, <1>3
    <3> QED BY <3>1, <3>2, Zenon
  <2>2. CASE ~(m = n /\ f = e)
    <3>1. slot'[m][f] = slot[m][f] /\ clock' = clock
      BY <1>5, <1>7, <2>2, Zenon
    <3>2. op'[slot[m][f].cont] = op[slot[m][f].cont]
      BY <1>11, <1>18, <3>1, Zenon
    <3> QED BY <3>1, <3>2, Zenon DEF DeadlineSpans
  <2> QED BY <2>1, <2>2, Zenon
<1>14. \A u : (Parked(u)' <=> Parked(u) \/ u = t) /\ (Queued(u)' <=> Queued(u))
  <2>1. \A u : Queued(u)' <=> Queued(u)
    BY <1>5, Zenon DEF Queued, Holds
  <2>2. \A u : Parked(u)' => Parked(u) \/ u = t
    BY <1>3, <1>7 DEF Parked
  <2>3. \A u : Parked(u) => Parked(u)'
    BY <1>5, <1>7 DEF Parked
  <2>4. Parked(t)'
    BY <1>1, <1>3, <1>7, Zenon DEF Parked
  <2> QED BY <2>1, <2>2, <2>3, <2>4, Zenon
<1>15. Apart'
  BY <1>5, <1>14, Constants DEF Apart, Once
<1>16. OpsRun'
  BY <1>1, <1>4, <1>5, <1>8 DEF OpsRun, n
<1>17. WokenFor'
  BY <1>5, <1>8, <1>14 DEF WokenFor
<1> QED BY <1>9, <1>10, <1>12, <1>13, <1>15, <1>16, <1>17, Zenon

\* A waiter is taken out of its slot and queued, for a reason.
LEMMA WakeKeeps ==
  ASSUME TcpInv, NEW n \in Fds, NEW e \in Event, NEW outcome \in BOOLEAN,
         NEW t \in Tasks, t = slot[n][e].cont, Wake(n, e, outcome),
         outcome \/ (0 <= slot[n][e].due /\ slot[n][e].due <= clock),
         UNCHANGED <<clock, sockVars, op, current, ops>>
  PROVE  TcpInv'
<1> USE DEF TcpInv
<1>1. /\ t \in Tasks /\ slot[n][e] # None /\ Parked(t) /\ slot[n][e].due \in Nat \cup {-1}
      /\ op[t].due \in Nat \cup {-1}
  BY SlotType, OpType, Zenon DEF Wake, Parked
<1>2. /\ op[t].waiting /\ fd[op[t].sock] = n
      /\ e = IF op[t].kind = "write" THEN "WRITE" ELSE "READ"
  <2>1. WaitsOn(fd, op[t], n, e)
    BY <1>1, WaiterFacts, Zenon
  <2> QED BY <2>1, Zenon DEF WaitsOn
<1>3. outcome \/ (0 <= op[t].due /\ op[t].due <= clock)
  <2>1. clock \in Nat /\ TicksPerMs \in Nat
    BY Constants, Zenon DEF TypeOK, WaitsTypeOK
  <2>2. LET due == op[t].due IN
        IF due < 0 THEN slot[n][e].due = -1
        ELSE \/ due <= slot[n][e].due /\ slot[n][e].due < due + TicksPerMs
             \/ due < slot[n][e].due /\ slot[n][e].due <= clock
    BY <1>1, Zenon DEF DeadlineSpans
  <2>3. PICK due, x : due = op[t].due /\ x = slot[n][e].due
    BY Zenon
  <2>4. /\ due \in Nat \cup {-1} /\ x \in Nat \cup {-1}
        /\ outcome \/ (0 <= x /\ x <= clock)
        /\ IF due < 0 THEN x = -1
           ELSE \/ due <= x /\ x < due + TicksPerMs
                \/ due < x /\ x <= clock
    BY <1>1, <2>2, <2>3, Zenon
  <2>5. 0 <= x /\ x <= clock => 0 <= due /\ due <= clock
    BY <2>1, <2>4
  <2> QED BY <2>3, <2>4, <2>5, Zenon
<1>4. /\ UNCHANGED <<clock, fd, file, gone, op, current, ops>>
      /\ slot' = [slot EXCEPT ![n][e] = None] /\ ready' = Append(ready, t)
      /\ result' = [result EXCEPT ![t] = outcome]
      /\ slot \in [Fds -> [Event -> Waiter \cup {None}]]
      /\ result \in [Tasks -> BOOLEAN] /\ ready \in Seq(Tasks)
  BY Zenon DEF Wake, sockVars, TypeOK, WaitsTypeOK
<1>5. ~Queued(t) /\ current # t /\ Once(ready)
  BY <1>1, Zenon DEF Apart
<1>6. /\ ready' \in Seq(Tasks) /\ Once(ready)'
      /\ \A u : Queued(u)' <=> Queued(u) \/ u = t
  <2>1. /\ Append(ready, t) \in Seq(Tasks) /\ Once(Append(ready, t))
        /\ \A u : Holds(Append(ready, t), u) <=> Holds(ready, u) \/ u = t
    BY <1>1, <1>4, <1>5, AppendOnce, Zenon DEF Queued
  <2>2. Once(ready') /\ \A u : Holds(ready', u) <=> Holds(ready, u) \/ u = t
    BY <1>4, <2>1, Zenon
  <2> QED BY <1>4, <2>1, <2>2, Zenon DEF Queued, Once, Holds
<1>7. /\ slot' \in [Fds -> [Event -> Waiter \cup {None}]]
      /\ result' \in [Tasks -> BOOLEAN] /\ result'[t] = outcome
      /\ \A u \in Tasks : u # t => result'[u] = result[u]
      /\ \A m \in Fds, f \in Event :
           slot'[m][f] = IF m = n /\ f = e THEN None ELSE slot[m][f]
  BY <1>1, <1>4, Zenon
<1>8. TypeOK'
  BY <1>4, <1>6, <1>7, Zenon DEF TypeOK, WaitsTypeOK
<1>9. OneOwner' /\ WaitersOwned' /\ DeadlineSpans'
  <2>1. OneOwner'
    BY <1>4, Zenon DEF OneOwner
  <2>4. \A m \in Fds, f \in Event : SameWaiter(m, f)
    <3> SUFFICES ASSUME NEW m \in Fds, NEW f \in Event, slot'[m][f] # None
                 PROVE  /\ slot'[m][f] = slot[m][f]
                        /\ op'[slot[m][f].cont] = op[slot[m][f].cont]
      BY Zenon DEF SameWaiter
    <3>1. slot'[m][f] = slot[m][f]
      BY <1>7, Zenon
    <3>2. op' = op
      BY <1>4, Zenon
    <3> QED BY <3>1, <3>2, Zenon
  <2>2. WaitersOwned'
    BY <1>4, <2>4, WaitersKept, Zenon
  <2>3. DeadlineSpans'
    BY <1>4, <2>4, SpansKept, Zenon
  <2> QED BY <2>1, <2>2, <2>3, Zenon
<1>10. \A u : Parked(u)' <=> Parked(u) /\ u # t
  <2>1. \A u : Parked(u)' => Parked(u)
    BY <1>7 DEF Parked
  <2>2. \A u : Parked(u) /\ u # t => Parked(u)'
    BY <1>7 DEF Parked
  <2>3. ~Parked(t)'
    <3> SUFFICES ASSUME NEW m \in Fds, NEW f \in Event, slot'[m][f] # None,
                        slot'[m][f].cont = t
                 PROVE  FALSE
      BY <1>4, Zenon DEF Parked
    <3>1. ~(m = n /\ f = e) /\ slot[m][f] # None /\ slot[m][f].cont = t
      BY <1>7, Zenon
    <3>2. fd[op[t].sock] = m /\ f = IF op[t].kind = "write" THEN "WRITE" ELSE "READ"
      <4>1. WaitsOn(fd, op[t], m, f)
        BY <3>1, WaiterFacts, Zenon
      <4> QED BY <4>1, Zenon DEF WaitsOn
    <3> QED BY <1>2, <3>1, <3>2, Zenon
  <2> QED BY <2>1, <2>2, <2>3, Zenon
<1>11. Apart'
  BY <1>4, <1>5, <1>6, <1>10, Zenon DEF Apart
<1>12. OpsRun'
  BY <1>4, Zenon DEF OpsRun
<1>13. WokenFor'
  <2> SUFFICES ASSUME NEW u \in Tasks, op[u].waiting, ~Parked(u)'
               PROVE  \/ result'[u] \/ fd[op[u].sock] = -1
                      \/ 0 <= op[u].due /\ op[u].due <= clock
    BY <1>4, Zenon DEF WokenFor
  <2>1. CASE u = t
    BY <1>3, <1>7, <2>1, Zenon
  <2>2. CASE u # t
    BY <1>7, <1>10, <2>2, Zenon DEF WokenFor
  <2> QED BY <2>1, <2>2, Zenon
<1> QED BY <1>8, <1>9, <1>11, <1>12, <1>13, Zenon

----------------------------------------------------------------------------
(* close() cancels both waiters of its descriptor.                         *)

LEMMA QueueAfter ==
  ASSUME NEW q \in Seq(Tasks), Once(q), NEW w \in Waiter \cup {None},
         w # None => ~Holds(q, w.cont)
  PROVE  /\ queue_after(q, w) \in Seq(Tasks) /\ Once(queue_after(q, w))
         /\ \A x : Holds(queue_after(q, w), x) <=> Holds(q, x) \/ (w # None /\ x = w.cont)
<1>1. CASE w = None
  BY <1>1, Zenon DEF queue_after
<1>2. CASE w # None
  <2>1. w.cont \in Tasks
    BY <1>2, Zenon DEF Waiter
  <2>2. queue_after(q, w) = Append(q, w.cont)
    BY <1>2, Zenon DEF queue_after
  <2> QED BY <1>2, <2>1, <2>2, AppendOnce
<1> QED BY <1>1, <1>2, Zenon

LEMMA ResultAfter ==
  ASSUME NEW res \in [Tasks -> BOOLEAN], NEW w \in Waiter \cup {None}
  PROVE  /\ result_after(res, w) \in [Tasks -> BOOLEAN]
         /\ \A u \in Tasks : ~(w # None /\ u = w.cont) => result_after(res, w)[u] = res[u]
<1>1. CASE w = None
  BY <1>1, Zenon DEF result_after
<1>2. CASE w # None
  BY <1>2, Zenon DEF result_after, Waiter
<1> QED BY <1>1, <1>2, Zenon

LEMMA CloseKeeps ==
  ASSUME TcpInv, NEW s \in Socks, NEW n \in Fds, n = fd[s], Close(s)
  PROVE  TcpInv'
<1> USE DEF TcpInv
<1> DEFINE r == slot[n]["READ"]
           w == slot[n]["WRITE"]
           Woken(u) == (r # None /\ u = r.cont) \/ (w # None /\ u = w.cont)
<1>1. /\ slot \in [Fds -> [Event -> Waiter \cup {None}]]
      /\ ready \in Seq(Tasks) /\ result \in [Tasks -> BOOLEAN]
      /\ fd \in [Socks -> Fds \cup {-1}] /\ file \in [Fds -> Socks \cup {None}]
      /\ n \in Nat /\ "READ" \in Event /\ "WRITE" \in Event
      /\ gone \subseteq Streams /\ file[n] = s
  BY Constants DEF TypeOK, WaitsTypeOK, Event, OneOwner
<1>2. r \in Waiter \cup {None} /\ w \in Waiter \cup {None}
  BY <1>1
<1>3. /\ UNCHANGED <<clock, op, current, ops>>
      /\ current # None /\ op[current].kind = "none"
      /\ slot' = [slot EXCEPT ![n] = [e \in Event |-> None]]
      /\ ready' = queue_after(queue_after(ready, r), w)
      /\ result' = result_after(result_after(result, r), w)
      /\ file' = [file EXCEPT ![n] = None] /\ fd' = [fd EXCEPT ![s] = -1]
      /\ gone' = gone \cup ({s} \ {Listener})
  BY Zenon DEF Close, CancelWaits, UserCode
<1>4. \A e \in Event : slot[n][e] # None =>
        LET t == slot[n][e].cont IN
        /\ t \in Tasks /\ Parked(t) /\ ~Queued(t) /\ t # current
        /\ op[t].waiting /\ op[t].sock \in Socks /\ op[t].sock = s
        /\ e = IF op[t].kind = "write" THEN "WRITE" ELSE "READ"
  <2> SUFFICES ASSUME NEW e \in Event, slot[n][e] # None, NEW t, t = slot[n][e].cont
               PROVE  /\ t \in Tasks /\ Parked(t) /\ ~Queued(t) /\ t # current
                      /\ op[t].waiting /\ op[t].sock \in Socks /\ op[t].sock = s
                      /\ e = IF op[t].kind = "write" THEN "WRITE" ELSE "READ"
    BY Zenon
  <2>1. t \in Tasks /\ Parked(t)
    BY SlotType, Zenon DEF Parked
  <2>2. ~Queued(t) /\ t # current
    BY <2>1, Zenon DEF Apart
  <2>3. /\ op[t].waiting /\ fd[op[t].sock] = n
        /\ e = IF op[t].kind = "write" THEN "WRITE" ELSE "READ"
    <3>1. WaitsOn(fd, op[t], n, e)
      BY <1>1, WaiterFacts, Zenon
    <3> QED BY <3>1, Zenon DEF WaitsOn
  <2>4. op[t].sock \in Socks
    BY <2>1, <2>3, Zenon DEF OpsRun
  <2>5. op[t].sock = s
    <3>1. fd[op[t].sock] >= 0
      BY <2>3, <2>4, FdType, Zenon
    <3>2. file[fd[op[t].sock]] = op[t].sock
      BY <2>4, <3>1, Zenon DEF OneOwner
    <3> QED BY <1>1, <2>3, <3>2, Zenon
  <2> QED BY <2>1, <2>2, <2>3, <2>4, <2>5, Zenon
<1>5. /\ r # None => r.cont \in Tasks /\ ~Queued(r.cont) /\ op[r.cont].kind # "write"
      /\ w # None => w.cont \in Tasks /\ ~Queued(w.cont) /\ op[w.cont].kind = "write"
  BY <1>1, <1>4, Zenon
<1> HIDE DEF r, w
<1>6. ready' \in Seq(Tasks) /\ Once(ready)' /\ \A u : Queued(u)' <=> Queued(u) \/ Woken(u)
  <2> DEFINE q == queue_after(ready, r)
  <2>1. q \in Seq(Tasks) /\ Once(q) /\ \A x : Holds(q, x) <=> Queued(x) \/ (r # None /\ x = r.cont)
    BY <1>1, <1>2, <1>5, QueueAfter, Zenon DEF Apart, Queued
  <2>2. w # None => ~Holds(q, w.cont)
    BY <1>5, <2>1, Zenon
  <2> HIDE DEF q
  <2>3. /\ queue_after(q, w) \in Seq(Tasks) /\ Once(queue_after(q, w))
        /\ \A x : Holds(queue_after(q, w), x) <=> Holds(q, x) \/ (w # None /\ x = w.cont)
    BY <1>2, <2>1, <2>2, QueueAfter, Zenon
  <2>4. ready' = queue_after(q, w)
    BY <1>3, Zenon DEF q
  <2>5. Once(ready') /\ \A u : Holds(ready', u) <=> Queued(u) \/ Woken(u)
    BY <2>1, <2>3, <2>4, Zenon
  <2> QED BY <2>3, <2>4, <2>5, Zenon DEF Queued, Once, Holds
<1>7. /\ result' \in [Tasks -> BOOLEAN]
      /\ \A u \in Tasks : ~Woken(u) => result'[u] = result[u]
  <2> DEFINE res == result_after(result, r)
  <2>1. /\ res \in [Tasks -> BOOLEAN]
        /\ \A u \in Tasks : ~(r # None /\ u = r.cont) => res[u] = result[u]
    BY <1>1, <1>2, ResultAfter, Zenon
  <2> HIDE DEF res
  <2>2. /\ result_after(res, w) \in [Tasks -> BOOLEAN]
        /\ \A u \in Tasks : ~(w # None /\ u = w.cont) => result_after(res, w)[u] = res[u]
    BY <1>2, <2>1, ResultAfter, Zenon
  <2> QED BY <1>3, <2>1, <2>2, Zenon DEF res
<1>8. /\ slot' \in [Fds -> [Event -> Waiter \cup {None}]]
      /\ \A m \in Fds, e \in Event : slot'[m][e] = IF m = n THEN None ELSE slot[m][e]
  BY <1>1, <1>3, Zenon
<1>9. /\ fd' \in [Socks -> Fds \cup {-1}] /\ file' \in [Fds -> Socks \cup {None}]
      /\ \A x \in Socks : fd'[x] = IF x = s THEN -1 ELSE fd[x]
      /\ \A m \in Fds : file'[m] = IF m = n THEN None ELSE file[m]
      /\ gone' \in SUBSET Streams
  BY <1>1, <1>3, Constants, Zenon DEF Socks
<1>10. TypeOK'
  BY <1>3, <1>6, <1>7, <1>8, <1>9, Zenon DEF TypeOK, WaitsTypeOK
<1>11. OneOwner'
  <2>1. \A x \in Socks : fd'[x] >= 0 => file'[fd'[x]] = x
    <3> SUFFICES ASSUME NEW x \in Socks, fd'[x] >= 0 PROVE file'[fd'[x]] = x
      BY Zenon
    <3>1. x # s /\ fd'[x] = fd[x] /\ fd[x] \in Fds
      BY <1>9, FdType
    <3>2. file[fd[x]] = x
      BY <3>1, Zenon DEF OneOwner
    <3> QED BY <1>1, <1>9, <3>1, <3>2, Zenon
  <2>2. \A m \in Fds : file'[m] # None => fd'[file'[m]] = m
    BY <1>1, <1>9 DEF OneOwner
  <2>3. \A x \in gone' : fd'[x] = -1
    BY <1>3, <1>9, Zenon DEF OneOwner, TypeOK, Socks
  <2> QED BY <2>1, <2>2, <2>3, Zenon DEF OneOwner
<1>12. WaitersOwned'
  <2> SUFFICES ASSUME NEW m \in Fds, NEW e \in Event, slot'[m][e] # None
               PROVE  LET o == op'[slot'[m][e].cont] IN
                      /\ o.waiting /\ fd'[o.sock] = m
                      /\ e = IF o.kind = "write" THEN "WRITE" ELSE "READ"
    BY ZenonT(30) DEF WaitersOwned
  <2>1. m # n /\ slot'[m][e] = slot[m][e] /\ slot[m][e].cont \in Tasks
    BY <1>8, SlotType
  <2>2. LET o == op[slot[m][e].cont] IN
        /\ o.waiting /\ fd[o.sock] = m /\ o.sock \in Socks
        /\ e = IF o.kind = "write" THEN "WRITE" ELSE "READ"
    BY <2>1, Zenon DEF WaitersOwned, OpsRun
  <2> QED BY <1>3, <1>9, <2>1, <2>2, Zenon
<1>13. DeadlineSpans'
  BY <1>3, <1>8, ZenonT(30) DEF DeadlineSpans
<1>16. \A u : Woken(u) => u \in Tasks /\ u # current /\ Parked(u) /\ op[u].sock = s
  <2>1. \A e \in Event : slot[n][e] # None =>
           /\ slot[n][e].cont \in Tasks /\ slot[n][e].cont # current
           /\ Parked(slot[n][e].cont) /\ op[slot[n][e].cont].sock = s
    BY <1>4, Zenon
  <2>2. r # None => /\ r.cont \in Tasks /\ r.cont # current
                    /\ Parked(r.cont) /\ op[r.cont].sock = s
    BY <1>1, <2>1, Zenon DEF r
  <2>3. w # None => /\ w.cont \in Tasks /\ w.cont # current
                    /\ Parked(w.cont) /\ op[w.cont].sock = s
    BY <1>1, <2>1, Zenon DEF w
  <2> QED BY <2>2, <2>3, Zenon
<1>14. \A u : Parked(u)' => Parked(u) /\ ~Woken(u)
  <2> SUFFICES ASSUME NEW u, NEW m \in Fds, NEW e \in Event, slot'[m][e] # None,
                      slot'[m][e].cont = u
               PROVE  Parked(u) /\ ~Woken(u)
    BY SMTT(30) DEF Parked
  <2>1. m # n /\ slot[m][e] # None /\ slot[m][e].cont = u
    BY <1>8, Zenon
  <2>2. fd[op[u].sock] = m
    <3>1. WaitsOn(fd, op[u], m, e)
      BY <2>1, WaiterFacts, Zenon
    <3> QED BY <3>1, Zenon DEF WaitsOn
  <2>3. Woken(u) => op[u].sock = s
    BY <1>16, Zenon
  <2> QED BY <2>1, <2>2, <2>3, Zenon DEF Parked
<1>15. \A u : Parked(u) => Parked(u)' \/ Woken(u)
  <2> SUFFICES ASSUME NEW u, NEW m \in Fds, NEW e \in Event, slot[m][e] # None,
                      slot[m][e].cont = u
               PROVE  Parked(u)' \/ Woken(u)
    BY Zenon DEF Parked
  <2>1. CASE m = n
    BY <2>1, Zenon DEF r, w, Event
  <2>2. CASE m # n
    BY <1>8, <2>2, Zenon DEF Parked
  <2> QED BY <2>1, <2>2, Zenon
<1> HIDE DEF Woken
<1>17. Apart'
  BY <1>3, <1>6, <1>14, <1>16, Zenon DEF Apart
<1>18. OpsRun'
  <2> SUFFICES ASSUME NEW t \in Tasks, op[t].kind # "none"
               PROVE  /\ op[t].sock \in Socks
                      /\ fd'[op[t].sock] >= 0 \/ op[t].sock \in gone' \cup {Listener}
                      /\ ~op[t].waiting => current = t /\ fd'[op[t].sock] >= 0
    BY <1>3, Zenon DEF OpsRun
  <2>1. t # current
    BY <1>3, Zenon
  <2>2. /\ op[t].sock \in Socks /\ op[t].waiting
        /\ fd[op[t].sock] >= 0 \/ op[t].sock \in gone \cup {Listener}
    BY <2>1, Zenon DEF OpsRun
  <2> QED BY <1>3, <1>9, <2>2, Zenon
<1>19. WokenFor'
  <2> SUFFICES ASSUME NEW t \in Tasks, op[t].waiting, ~Parked(t)'
               PROVE  \/ result'[t] \/ fd'[op[t].sock] = -1
                      \/ 0 <= op[t].due /\ op[t].due <= clock
    BY <1>3, Zenon DEF WokenFor
  <2>1. CASE Woken(t)
    BY <1>9, <1>16, <2>1
  <2>2. CASE ~Woken(t)
    <3>1. ~Parked(t) /\ result'[t] = result[t] /\ op[t].sock \in Socks
      BY <1>7, <1>15, <2>2, Zenon DEF OpsRun
    <3>2. \/ result[t] \/ fd[op[t].sock] = -1
          \/ 0 <= op[t].due /\ op[t].due <= clock
      BY <3>1, Zenon DEF WokenFor
    <3> QED BY <1>9, <3>1, <3>2, Zenon
  <2> QED BY <2>1, <2>2, Zenon
<1> QED BY <1>10, <1>11, <1>12, <1>13, <1>17, <1>18, <1>19, Zenon

----------------------------------------------------------------------------
(* The executor.                                                           *)

LEMMA ResumeKeeps ==
  ASSUME TcpInv, Resume
  PROVE  TcpInv'
<1> USE DEF TcpInv
<1>1. /\ UNCHANGED <<slot, result, clock, fd, file, gone, op, ops>>
      /\ current = None /\ ready # <<>> /\ current' = Head(ready) /\ ready' = Tail(ready)
  BY Zenon DEF Resume, sockVars
<1>2. ready \in Seq(Tasks) /\ Once(ready)
  BY Zenon DEF TypeOK, WaitsTypeOK, Apart
<1>3. /\ Head(ready) \in Tasks /\ Tail(ready) \in Seq(Tasks) /\ Once(Tail(ready))
      /\ Queued(Head(ready))
      /\ \A x : Holds(Tail(ready), x) <=> Queued(x) /\ x # Head(ready)
  BY <1>1, <1>2, TailOnce, Zenon DEF Queued
<1>4. /\ current' \in Tasks /\ ready' \in Seq(Tasks) /\ Once(ready)'
      /\ \A x : Queued(x)' <=> Queued(x) /\ x # current'
  <2>1. Once(ready') /\ \A x : Holds(ready', x) <=> Queued(x) /\ x # current'
    BY <1>1, <1>3, Zenon
  <2> QED BY <1>1, <1>3, <2>1, Zenon DEF Queued, Holds, Once
<1>5. TypeOK'
  BY <1>1, <1>4, Zenon DEF TypeOK, WaitsTypeOK
<1>6. OneOwner' /\ WaitersOwned' /\ DeadlineSpans'
  BY <1>1, SocketsSame, Zenon
<1>7. \A x : Parked(x)' <=> Parked(x)
  BY <1>1, Zenon DEF Parked
<1>8. Apart'
  BY <1>1, <1>3, <1>4, <1>7, Zenon DEF Apart
<1>9. OpsRun'
  BY <1>1, Constants, Zenon DEF OpsRun
<1>10. WokenFor'
  BY <1>1, <1>7, Zenon DEF WokenFor
<1> QED BY <1>5, <1>6, <1>8, <1>9, <1>10, Zenon

LEMMA YieldKeeps ==
  ASSUME TcpInv, NEW t \in Tasks, Yield(t)
  PROVE  TcpInv'
<1> USE DEF TcpInv
<1>1. /\ UNCHANGED <<slot, result, clock, fd, file, gone, ops>>
      /\ current = t /\ op[t].kind = "none" /\ current' = None
      /\ ready' \in {ready, Append(ready, t)}
      /\ op' = [op EXCEPT ![t] = NoOperation]
  BY Zenon DEF Yield, sockVars
<1>2. /\ NoOperation \in Operation /\ NoOperation.kind = "none" /\ ~NoOperation.waiting
      /\ op \in [Tasks -> Operation]
  BY Constants, Zenon DEF NoOperation, Operation, TypeOK
<1>3. /\ op' \in [Tasks -> Operation]
      /\ \A u \in Tasks : op'[u] = IF u = t THEN NoOperation ELSE op[u]
  BY <1>1, <1>2, Zenon
<1>4. ready \in Seq(Tasks) /\ Once(ready) /\ ~Queued(t) /\ ~Parked(t)
  BY <1>1, Zenon DEF TypeOK, WaitsTypeOK, Apart
<1>5. /\ Append(ready, t) \in Seq(Tasks) /\ Once(Append(ready, t))
      /\ \A x : Holds(Append(ready, t), x) <=> Holds(ready, x) \/ x = t
  BY <1>4, AppendOnce, Zenon DEF Queued
<1>6. /\ ready' \in Seq(Tasks) /\ Once(ready)'
      /\ \A x : Queued(x)' => Queued(x) \/ x = t
  <2>1. ready' \in Seq(Tasks) /\ Once(ready') /\ \A x : Holds(ready', x) => Holds(ready, x) \/ x = t
    BY <1>1, <1>4, <1>5, Zenon
  <2> QED BY <2>1, Zenon DEF Queued, Holds, Once
<1>7. TypeOK'
  BY <1>1, <1>3, <1>6, Zenon DEF TypeOK, WaitsTypeOK
<1>8. \A n \in Fds, e \in Event : slot[n][e] # None =>
         slot[n][e].cont \in Tasks /\ slot[n][e].cont # t
  BY <1>4, SlotType, Zenon DEF Parked
<1>9. OneOwner'
  BY <1>1, Zenon DEF OneOwner
<1>10. \A n \in Fds, e \in Event : SameWaiter(n, e)
  BY <1>1, <1>3, <1>8, Zenon DEF SameWaiter
<1>11. WaitersOwned' /\ DeadlineSpans'
  BY <1>1, <1>10, WaitersKept, SpansKept, Zenon
<1>12. \A x : Parked(x)' <=> Parked(x)
  BY <1>1, Zenon DEF Parked
<1>13. Apart'
  BY <1>1, <1>4, <1>6, <1>12, Constants, Zenon DEF Apart
<1>14. OpsRun'
  BY <1>1, <1>2, <1>3, Zenon DEF OpsRun
<1>15. WokenFor'
  BY <1>1, <1>2, <1>3, <1>12, Zenon DEF WokenFor
<1> QED BY <1>7, <1>9, <1>11, <1>13, <1>14, <1>15, Zenon

LEMMA TickKeeps ==
  ASSUME TcpInv, Tick
  PROVE  TcpInv'
<1> USE DEF TcpInv
<1>1. /\ UNCHANGED <<slot, ready, result, fd, file, gone, op, current, ops>>
      /\ clock \in Nat /\ clock' = clock + 1 /\ clock' \in Nat
  BY SMTT(30) DEF Tick, sockVars, TypeOK, WaitsTypeOK
<1>2. TypeOK' /\ OneOwner' /\ WaitersOwned' /\ OpsRun'
  <2>1. TypeOK'
    BY <1>1, Zenon DEF TypeOK, WaitsTypeOK
  <2>2. OneOwner' /\ OpsRun'
    BY <1>1, Zenon DEF OneOwner, OpsRun
  <2>3. \A n \in Fds, e \in Event : SameWaiter(n, e)
    BY <1>1, Zenon DEF SameWaiter
  <2>4. WaitersOwned'
    BY <1>1, <2>3, WaitersKept, Zenon
  <2> QED BY <2>1, <2>2, <2>4, Zenon
<1>3. \A x : (Parked(x)' <=> Parked(x)) /\ (Queued(x)' <=> Queued(x))
  BY <1>1, Zenon DEF Parked, Queued, Holds
<1>4. Apart'
  BY <1>1, <1>3, Zenon DEF Apart, Once
<1>5. DeadlineSpans'
  <2> SUFFICES ASSUME NEW n \in Fds, NEW e \in Event, slot[n][e] # None
               PROVE  LET w == slot[n][e]
                          due == op[w.cont].due
                      IN IF due < 0 THEN w.due = -1
                         ELSE \/ due <= w.due /\ w.due < due + TicksPerMs
                              \/ due < w.due /\ w.due <= clock + 1
    BY <1>1 DEF DeadlineSpans
  <2>1. slot[n][e].due \in Int
    BY SlotType, SMTT(30)
  <2>2. LET w == slot[n][e]
            due == op[w.cont].due
        IN IF due < 0 THEN w.due = -1
           ELSE \/ due <= w.due /\ w.due < due + TicksPerMs
                \/ due < w.due /\ w.due <= clock
    BY Zenon DEF DeadlineSpans
  <2>3. slot[n][e].due <= clock => slot[n][e].due <= clock + 1
    BY <1>1, <2>1
  <2> QED BY <2>2, <2>3, Zenon
<1>6. WokenFor'
  <2>1. \A t \in Tasks : op[t].due \in Int
    BY OpType
  <2>2. \A t \in Tasks : op[t].due <= clock => op[t].due <= clock + 1
    BY <1>1, <2>1
  <2> QED BY <1>1, <1>3, <2>2, Zenon DEF WokenFor
<1> QED BY <1>2, <1>4, <1>5, <1>6, Zenon

----------------------------------------------------------------------------

LEMMA AwaitKeeps ==
  ASSUME TcpInv, NEW t \in Tasks, NEW e \in Event, NEW kind \in {"read", "write", "accept"},
         Tries(t, kind), e = IF kind = "write" THEN "WRITE" ELSE "READ", Await(t, e)
  PROVE  TcpInv'
<1>1. current = t /\ op[t].kind = kind /\ kind # "none" /\ ~op[t].waiting
  BY Zenon DEF Tries
<1>2. CASE /\ Park(fd[op[t].sock], e, t, Deadline(remaining(op[t].due)))
           /\ op' = [op EXCEPT ![t].waiting = TRUE]
           /\ current' = None
  <2>1. UNCHANGED <<clock, sockVars, ops>>
    BY Zenon DEF Await
  <2> QED BY <1>1, <1>2, <2>1, ParkKeeps, Zenon
<1>3. CASE End(t, "Threw") /\ UNCHANGED <<slot, ready, result, current>>
  <2>1. UNCHANGED <<waitVars, sockVars, current, ops>>
    BY <1>3, Zenon DEF Await, waitVars
  <2> QED BY <1>1, <1>3, <2>1, EndKeeps, Zenon
<1> QED BY <1>2, <1>3, Zenon DEF Await

LEMMA EndEndsOp ==
  ASSUME TcpInv, NEW t \in Tasks, current = t,
         NEW status \in {"none", "Ok", "Eof", "Timeout", "Closed", "Error", "Threw"},
         End(t, status)
  PROVE  OpsEnd
<1> DEFINE o == [NoOperation EXCEPT !.status = status]
<1>1. o \in Operation /\ o.kind = "none" /\ ~o.waiting
  BY EndType, Zenon
<1>2. op' = [op EXCEPT ![t] = o] /\ op \in [Tasks -> Operation]
  BY Zenon DEF End, TcpInv, TypeOK
<1> HIDE DEF o
<1> QED BY <1>1, <1>2, Zenon DEF OpsEnd

LEMMA OpStepKeeps ==
  ASSUME TcpInv, NEW t \in Tasks, OpStep(t)
  PROVE  TcpInv'
<1> USE DEF Event
<1>1. CASE Recv(t)
  BY <1>1, EndKeeps, Zenon DEF Recv, Tries
<1>2. CASE RecvAgain(t)
  BY <1>2, AwaitKeeps, Zenon DEF RecvAgain
<1>3. CASE Send(t)
  BY <1>3, SendKeeps, Zenon
<1>4. CASE SendFails(t) \/ SendDone(t)
  BY <1>4, EndKeeps, Zenon DEF SendFails, SendDone, Tries
<1>5. CASE SendAgain(t)
  BY <1>5, AwaitKeeps, Zenon DEF SendAgain
<1>6. ASSUME NEW s \in Streams, Accept(t, s) PROVE TcpInv'
  <2>1. current = t /\ UNCHANGED <<waitVars, current, ops>> /\ (Adopt(s) \/ AdoptFails(s))
    BY <1>6, Zenon DEF Accept, Tries
  <2>2. OpsEnd
    BY <1>6, <2>1, EndEndsOp, Zenon DEF Accept
  <2> QED BY <2>1, <2>2, AdoptKeeps, Zenon
<1>7. CASE AcceptThrows(t)
  BY <1>7, EndKeeps, Zenon DEF AcceptThrows, Tries
<1>8. CASE AcceptAgain(t)
  BY <1>8, AwaitKeeps, Zenon DEF AcceptAgain
<1>9. CASE Resumed(t)
  BY <1>9, ResumedKeeps, Zenon
<1> QED BY <1>1, <1>2, <1>3, <1>4, <1>5, <1>6, <1>7, <1>8, <1>9, Zenon DEF OpStep

LEMMA UserStepKeeps ==
  ASSUME TcpInv, UserStep
  PROVE  TcpInv'
<1>1. ASSUME NEW s \in Streams, Construct(s) PROVE TcpInv'
  <2>1. OpsEnd /\ UNCHANGED <<waitVars, current, ops>> /\ (Adopt(s) \/ AdoptFails(s))
    BY <1>1, Zenon DEF Construct, OpsEnd, TcpInv, TypeOK
  <2> QED BY <2>1, AdoptKeeps, Zenon
<1>2. ASSUME NEW s \in Socks, Close(s) PROVE TcpInv'
  <2>1. fd[s] \in Fds
    BY <1>2, FdType, Zenon DEF Close, TcpInv
  <2> QED BY <1>2, <2>1, CloseKeeps, Zenon
<1>3. ASSUME NEW t \in Tasks, Yield(t) PROVE TcpInv'
  BY <1>3, YieldKeeps, Zenon
<1> QED BY <1>1, <1>2, <1>3, Zenon DEF UserStep

LEMMA CallStepKeeps ==
  ASSUME TcpInv, CallStep
  PROVE  TcpInv'
<1>1. PICK t \in Tasks, timeout \in Timeouts \cup {kNoTimeout} :
        \/ \E s \in Streams : read_some(t, s, timeout) \/ write_all(t, s, timeout)
        \/ accept(t, timeout)
  BY Zenon DEF CallStep
<1>2. ASSUME NEW s \in Socks, NEW kind \in {"read", "write", "accept"},
             Call(t, kind, s, timeout)
      PROVE  TcpInv'
  BY <1>2, CallKeeps, Zenon
<1>3. ASSUME NEW s, NothingAsked(t, s) PROVE TcpInv'
  BY <1>3, EndKeeps, Zenon DEF NothingAsked
<1> QED BY <1>1, <1>2, <1>3, Constants, Zenon DEF read_some, write_all, accept

LEMMA WakeStepKeeps ==
  ASSUME TcpInv, WakeStep
  PROVE  TcpInv'
<1>1. PICK n \in Fds, e \in Event : WakeReady(n, e) \/ Expire(n, e)
  BY Zenon DEF WakeStep
<1>2. PICK t \in Tasks : t = slot[n][e].cont
  BY <1>1, SlotType, Zenon DEF WakeReady, Expire, WakeDue, Wake, TcpInv
<1>3. CASE WakeReady(n, e)
  BY <1>2, <1>3, WakeKeeps, Zenon DEF WakeReady
<1>4. CASE Expire(n, e)
  BY <1>2, <1>4, WakeKeeps, Zenon DEF Expire, WakeDue
<1> QED BY <1>1, <1>3, <1>4, Zenon

LEMMA TcpInductive == TcpInv /\ [Next]_vars => TcpInv'
<1> SUFFICES ASSUME TcpInv, [Next]_vars PROVE TcpInv'
  BY Zenon
<1>1. CASE CallStep
  BY <1>1, CallStepKeeps, Zenon
<1>2. CASE UserStep
  BY <1>2, UserStepKeeps, Zenon
<1>3. CASE Resume
  BY <1>3, ResumeKeeps, Zenon
<1>4. CASE WakeStep
  BY <1>4, WakeStepKeeps, Zenon
<1>5. CASE Tick
  BY <1>5, TickKeeps, Zenon
<1>6. CASE \E t \in Tasks : OpStep(t)
  BY <1>6, OpStepKeeps, Zenon
<1>7. CASE UNCHANGED vars
  <2>1. UNCHANGED <<slot, ready, result, clock, fd, file, gone, op, current, ops>>
    BY <1>7, Zenon DEF vars, waitVars, sockVars
  <2>2. \A x : (Parked(x)' <=> Parked(x)) /\ (Queued(x)' <=> Queued(x))
    BY <2>1, Zenon DEF Parked, Queued, Holds
  <2>3. TypeOK' /\ OneOwner' /\ WaitersOwned' /\ DeadlineSpans'
    BY <2>1, SocketsSame, Zenon DEF TcpInv, TypeOK, WaitsTypeOK
  <2>4. Apart' /\ OpsRun' /\ WokenFor'
    BY <2>1, <2>2, Zenon DEF TcpInv, Apart, Once, OpsRun, WokenFor
  <2> QED BY <2>3, <2>4, Zenon DEF TcpInv
<1> QED BY <1>1, <1>2, <1>3, <1>4, <1>5, <1>6, <1>7, Zenon DEF Next

LEMMA TcpInitial == Init => TcpInv
<1> SUFFICES ASSUME Init PROVE TcpInv
  BY Zenon
<1> USE DEF Init
<1>1. \A n \in Fds, e \in Event : slot[n][e] = None
  BY Zenon DEF NoWaiters
<1>2. NoOperation \in Operation /\ NoOperation.kind = "none" /\ ~NoOperation.waiting
  BY Constants, Zenon DEF NoOperation, Operation
<1>3. TypeOK
  <2>1. WaitsTypeOK
    BY TcpStreamAssumption, Zenon DEF WaitsTypeOK, NoWaiters
  <2> QED BY <1>2, <2>1, Constants, Zenon DEF TypeOK
<1>4. OneOwner
  BY Constants, SMTT(30) DEF OneOwner, Socks
<1>5. WaitersOwned /\ DeadlineSpans
  BY <1>1, Zenon DEF WaitersOwned, DeadlineSpans
<1>6. Apart
  <2>1. \A u : ~Parked(u)
    BY <1>1, Zenon DEF Parked
  <2>2. Once(ready)
    <3>1. DOMAIN Spawned = 1..Len(Spawned)
      BY TcpStreamAssumption, SeqDomain, Zenon
    <3> QED BY <3>1, TcpStreamAssumption, Zenon DEF Once
  <2> QED BY <2>1, <2>2, Constants, Zenon DEF Apart
<1>7. OpsRun /\ WokenFor
  BY <1>2, Zenon DEF OpsRun, WokenFor
<1> QED BY <1>3, <1>4, <1>5, <1>6, <1>7, Zenon DEF TcpInv

LEMMA TcpInvariant == Spec => []TcpInv
  BY TcpInitial, TcpInductive, PTL DEF Spec

----------------------------------------------------------------------------
(* What holds in every state.                                              *)

\* Objects, descriptors, operations and waiters keep their types, for any
\* tasks, sockets, descriptor numbers, timeouts and bounds.
THEOREM TcpTypeCorrect == Spec => []TypeOK
  BY TcpInvariant, PTL DEF TcpInv

\* Every open number has exactly one owner, through failed accepts, failed
\* constructions and reuse of numbers.
THEOREM OwnersCorrect == Spec => []OneOwner
  BY TcpInvariant, PTL DEF TcpInv

\* A waiter is on the number its own open socket holds: close() leaves none
\* behind for the next connection with the same number.
THEOREM WaitersCorrect == Spec => []WaitersOwned
  BY TcpInvariant, PTL DEF TcpInv

\* The timer of every wait of an operation is at its one deadline, less than
\* a millisecond late, for any resolution of the clock.
THEOREM DeadlinesSpan == Spec => []DeadlineSpans
  BY TcpInvariant, PTL DEF TcpInv

----------------------------------------------------------------------------
(* How an operation may end.                                               *)

Truthful(t) ==
  op[t].kind # "none" /\ op'[t].kind = "none" =>
    /\ op'[t].status = "Closed" => fd[op[t].sock] = -1
    /\ fd[op[t].sock] = -1 => op'[t].status \in {"Closed", "Threw"}
    /\ op'[t].status = "Timeout" => 0 <= op[t].due /\ op[t].due <= clock

\* An operation that has the thread ends with its socket open.
LEMMA EndTruthful ==
  ASSUME TcpInv, NEW t \in Tasks, NEW u \in Tasks, current = t,
         op[t].kind = "none" \/ ~op[t].waiting,
         NEW status \in {"Ok", "Eof", "Error", "Threw"}, End(t, status)
  PROVE  Truthful(u)
<1> DEFINE o == [NoOperation EXCEPT !.status = status]
<1>1. o.kind = "none" /\ o.status = status
  BY EndType, Zenon
<1>2. op' = [op EXCEPT ![t] = o] /\ op \in [Tasks -> Operation]
  BY Zenon DEF End, TcpInv, TypeOK
<1> HIDE DEF o
<1>3. op[t].kind # "none" => fd[op[t].sock] # -1
  BY FdType, Constants, Zenon DEF TcpInv, OpsRun
<1> QED BY <1>1, <1>2, <1>3, Zenon DEF Truthful

LEMMA ResumedTruthful ==
  ASSUME TcpInv, NEW t \in Tasks, NEW u \in Tasks, Resumed(t)
  PROVE  Truthful(u)
<1>1. /\ current = t /\ op[t].waiting /\ op[t].kind # "none" /\ op[t].sock \in Socks
      /\ ~Parked(t) /\ op \in [Tasks -> Operation]
  BY Zenon DEF Resumed, TcpInv, OpsRun, Apart, TypeOK
<1>2. CASE u # t
  <2>1. op'[u] = op[u]
    BY <1>1, <1>2, Zenon DEF Resumed, End
  <2> QED BY <2>1, Zenon DEF Truthful
<1>3. CASE u = t
  <2>1. \/ result[t] \/ fd[op[t].sock] = -1
        \/ 0 <= op[t].due /\ op[t].due <= clock
    BY <1>1, Zenon DEF TcpInv, WokenFor
  <2>2. CASE fd[op[t].sock] < 0
    <3>1. fd[op[t].sock] = -1
      BY <1>1, <2>2, FdType, Zenon DEF TcpInv
    <3>2. PICK status \in {"Closed", "Threw"} : End(t, status)
      BY <2>2, Zenon DEF Resumed
    <3>3. op'[t].status = status
      BY <1>1, <3>2, EndType, Zenon DEF End
    <3> QED BY <1>3, <3>1, <3>3, Zenon DEF Truthful
  <2>3. CASE ~(fd[op[t].sock] < 0) /\ ~result[t]
    <3>1. fd[op[t].sock] # -1
      BY <2>3
    <3>2. End(t, "Timeout")
      BY <2>3, Zenon DEF Resumed
    <3>3. op'[t].status = "Timeout"
      BY <1>1, <3>2, EndType, Zenon DEF End
    <3> QED BY <1>3, <2>1, <2>3, <3>1, <3>3, Zenon DEF Truthful
  <2>4. CASE ~(fd[op[t].sock] < 0) /\ result[t]
    <3>1. op' = [op EXCEPT ![t].waiting = FALSE]
      BY <2>4, Zenon DEF Resumed
    <3>2. op'[t].kind = op[t].kind
      BY <1>1, <3>1, Zenon DEF Operation
    <3> QED BY <1>1, <1>3, <3>2, Zenon DEF Truthful
  <2> QED BY <2>2, <2>3, <2>4, Zenon
<1> QED BY <1>2, <1>3, Zenon

LEMMA AwaitTruthful ==
  ASSUME TcpInv, NEW t \in Tasks, NEW u \in Tasks, NEW e, NEW kind, Tries(t, kind),
         Await(t, e)
  PROVE  Truthful(u)
<1>1. CASE op' = [op EXCEPT ![t].waiting = TRUE]
  BY <1>1 DEF Truthful, TcpInv, TypeOK, Operation
<1>2. CASE End(t, "Threw")
  BY <1>2, EndTruthful, Zenon DEF Tries
<1> QED BY <1>1, <1>2, Zenon DEF Await

LEMMA StepTruthful ==
  ASSUME TcpInv, NEW u \in Tasks, [Next]_vars
  PROVE  Truthful(u)
<1>1. CASE UNCHANGED op
  BY <1>1, Zenon DEF Truthful
<1>2. ASSUME NEW t \in Tasks, op[t].kind = "none",
             \A x \in Tasks : x # t => op'[x] = op[x]
      PROVE  Truthful(u)
  BY <1>2, Zenon DEF Truthful
<1>3. CASE CallStep
  <2>1. PICK t \in Tasks : /\ op[t].kind = "none"
                           /\ \E o : op' = [op EXCEPT ![t] = o]
    BY <1>3, ZenonT(30) DEF CallStep, read_some, write_all, accept, Call, NothingAsked, End
  <2> QED BY <1>2, <2>1, Zenon DEF TcpInv, TypeOK
<1>4. CASE UserStep
  <2>1. CASE \E t \in Tasks : Yield(t)
    <3>1. PICK t \in Tasks : op[t].kind = "none" /\ op' = [op EXCEPT ![t] = NoOperation]
      BY <2>1, Zenon DEF Yield
    <3> QED BY <1>2, <3>1, Zenon DEF TcpInv, TypeOK
  <2> QED BY <1>1, <1>4, <2>1, Zenon DEF UserStep, Construct, Close
<1>5. CASE Resume \/ WakeStep \/ Tick \/ UNCHANGED vars
  BY <1>1, <1>5, Zenon DEF Resume, WakeStep, WakeReady, Expire, Tick, vars
<1>6. ASSUME NEW t \in Tasks, OpStep(t) PROVE Truthful(u)
  <2>1. CASE Recv(t) \/ SendFails(t) \/ SendDone(t) \/ AcceptThrows(t)
    BY <2>1, EndTruthful, Zenon DEF Recv, SendFails, SendDone, AcceptThrows, Tries
  <2>2. CASE RecvAgain(t) \/ SendAgain(t) \/ AcceptAgain(t)
    BY <2>2, AwaitTruthful, Zenon DEF RecvAgain, SendAgain, AcceptAgain
  <2>3. CASE Send(t)
    BY <2>3, SMTT(30) DEF Send, Truthful, TcpInv, TypeOK, Operation
  <2>4. CASE \E s \in Streams : Accept(t, s)
    BY <2>4, EndTruthful, Zenon DEF Accept, Tries
  <2>5. CASE Resumed(t)
    BY <2>5, ResumedTruthful, Zenon
  <2> QED BY <1>6, <2>1, <2>2, <2>3, <2>4, <2>5, Zenon DEF OpStep
<1> QED BY <1>3, <1>4, <1>5, <1>6, Zenon DEF Next

\* Every operation tells what happened: Timeout only after its deadline, and
\* Closed or the exception of accept() exactly for a socket that was closed
\* while the operation was suspended.
THEOREM OutcomesTrue == Spec => OutcomeTrue
<1>1. TcpInv /\ [Next]_vars => [\A t \in Tasks : Truthful(t)]_vars
  BY StepTruthful, Zenon
<1> QED BY <1>1, TcpInvariant, PTL DEF Spec, OutcomeTrue, Truthful

=============================================================================
