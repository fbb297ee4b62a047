------------------------------ MODULE Reactor ------------------------------
(***************************************************************************)
(* The callback reactor: a TcpServer and its TcpConnections on one          *)
(* EventLoop.  Everything runs on the thread that calls EventLoop::run();   *)
(* the user's connection, message and close callbacks run inside the        *)
(* handlers and may send on, close and keep any connection, or throw.       *)
(*                                                                          *)
(* A connection object holds its descriptor number until it is destroyed,   *)
(* so an object is identified with its number; the number of a destroyed    *)
(* one is given to the next connection, also while its old entry is still   *)
(* in the events[] array.  The bytes of a connection are numbered units.    *)
(***************************************************************************)
EXTENDS EventLoop, Sequences

CONSTANTS
  Listen,      \* listen_fd_
  None,        \* no callback is running
  MaxConns,    \* bound: connections that peers open
  MaxUnits,    \* bound: units that the user sends
  MaxInputs    \* bound: connections and units together

Conns == Fds \ {Listen}

ASSUME ReactorAssumption ==
  /\ Listen \in Fds
  /\ None \notin Fds
  /\ {MaxConns, MaxUnits, MaxInputs} \subseteq Nat

VARIABLES
  pc,           \* where the thread is
  cur,          \* the connection whose callback or construction is running
  running,      \* EventLoop::running_
  alive,        \* the TcpServer exists
  started,      \* TcpServer::started_
  connections,  \* connections_
  conn,         \* the TcpConnection object of each number
  unsent,       \* write_buffer_
  told,         \* close callbacks run for each connection
  used,         \* kernel: open descriptor numbers
  backlog,      \* kernel: connections not accepted yet
  sent,         \* kernel: units taken from each connection, in order
  given,        \* units that send() was given for each open connection
  opened,       \* connections opened by peers so far
  handed,       \* units the user has handed to send() so far
  leaked,       \* numbers accepted when the allocation of the object failed
  dropped       \* descriptors whose reported edge nobody handled

tableVars == <<connections, conn, told, used>>
bufferVars == <<unsent, sent, given>>
serverVars == <<running, alive, started>>
boundVars == <<opened, handed>>
vars == <<loopVars, pc, cur, tableVars, bufferVars, serverVars, backlog, boundVars,
          leaked, dropped>>

Units == 1..MaxUnits

\* Server, connections and kernel state have their types.
TypeOK ==
  /\ LoopTypeOK
  /\ pc \in {"idle", "poll", "dispatch", "accept", "made", "announce",
             "message", "closing", "unwind"}
  /\ cur \in Conns \cup {None}
  /\ {running, alive, started} \subseteq BOOLEAN
  /\ connections \in SUBSET Conns
  /\ conn \in [Conns -> {"none", "open", "closed"}]
  /\ unsent \in [Conns -> Seq(Units)]
  /\ told \in [Conns -> 0..1]
  /\ used \in SUBSET Fds
  /\ backlog \in 0..MaxConns
  /\ sent \in [Conns -> Seq(Units)]
  /\ given \in [Conns -> 0..MaxUnits]
  /\ opened \in 0..MaxConns
  /\ handed \in 0..MaxUnits
  /\ leaked \in SUBSET Conns
  /\ dropped \in SUBSET Fds

\* The server is constructed: its socket listens, start() is still to come.
Init ==
  /\ channels = {}
  /\ watched = {}
  /\ interest = NoEvents
  /\ cond = NoEvents
  /\ pend = {}
  /\ events = NoEvents
  /\ halfway = {}
  /\ pc = "idle"
  /\ cur = None
  /\ running = FALSE
  /\ alive = TRUE
  /\ started = FALSE
  /\ connections = {}
  /\ conn = [c \in Conns |-> "none"]
  /\ unsent = [c \in Conns |-> <<>>]
  /\ told = [c \in Conns |-> 0]
  /\ used = {Listen}
  /\ backlog = 0
  /\ sent = [c \in Conns |-> <<>>]
  /\ given = [c \in Conns |-> 0]
  /\ opened = 0
  /\ handed = 0
  /\ leaked = {}
  /\ dropped = {}

\* Where code of the user runs.
UserCode == pc \in {"idle", "announce", "message", "closing", "unwind"}

----------------------------------------------------------------------------
(* TcpConnection                                                           *)

\* ~TcpConnection(): the number is closed and free for the next accept().
destroyed(c) ==
  /\ conn' = [conn EXCEPT ![c] = "none"]
  /\ used' = used \ {c}
  /\ told' = [told EXCEPT ![c] = 0]

\* The server's part of close(): the table forgets the connection.
handle_close(c) == connections' = connections \ {c}

\* close() up to the user's close callback: the channel is removed, and what
\* is left to send or to read is dropped.
shut(c) ==
  /\ remove_channel(c)
  /\ cond' = [cond EXCEPT ![c] = {}]
  /\ handle_close(c)
  /\ unsent' = [unsent EXCEPT ![c] = <<>>]
  /\ sent' = [sent EXCEPT ![c] = <<>>]
  /\ given' = [given EXCEPT ![c] = 0]
  /\ dropped' = dropped \ {c}

\* close() in a handler: the user's close callback runs next.
CloseInHandler(c) ==
  /\ shut(c)
  /\ conn' = [conn EXCEPT ![c] = "closed"]
  /\ told' = [told EXCEPT ![c] = @ + 1]
  /\ pc' = "closing"
  /\ cur' = c
  /\ UNCHANGED used

\* close() in user code.  The object lives on if the user keeps it or if it is
\* the argument of the running callback.
CloseInUserCode(c) ==
  /\ shut(c)
  /\ \/ /\ conn' = [conn EXCEPT ![c] = "closed"]
        /\ told' = [told EXCEPT ![c] = @ + 1]
        /\ UNCHANGED used
     \/ /\ c # cur
        /\ destroyed(c)

Close(c) ==
  /\ UserCode
  /\ conn[c] = "open"
  /\ CloseInUserCode(c)
  /\ UNCHANGED <<dispatching, pc, cur, serverVars, backlog, boundVars, leaked>>

\* The user drops the last pointer to a closed connection.
Release(c) ==
  /\ UserCode
  /\ c # cur
  /\ conn[c] = "closed"
  /\ destroyed(c)
  /\ UNCHANGED <<loopVars, pc, cur, connections, bufferVars, serverVars, backlog,
                 boundVars, leaked, dropped>>

\* The kernel takes the first count units of data from c: all of them, or as
\* many as fit, and then it is full.
Takes(c, data, count) ==
  /\ count > 0 <=> "out" \in cond[c] /\ data # <<>>
  /\ sent' = [sent EXCEPT ![c] = @ \o SubSeq(data, 1, count)]
  /\ \/ cond' = [cond EXCEPT ![c] = @ \ {"out"}]
     \/ count = Len(data) /\ UNCHANGED cond

\* The next n units the user has for c, numbered after those given before.
NextUnits(c, n) == [i \in 1..n |-> given[c] + i]

GivenMore(c, n) == given' = [given EXCEPT ![c] = @ + n]

PartialIsAll(data, count) == IF count > 0 THEN <<>> ELSE data

\* data += count; length -= count: what send() has left to queue.
Untaken(data, count) == SubSeq(data, count + 1, Len(data))

\* send() goes straight to the kernel only past an empty write_buffer_.
NothingQueued(c) == unsent[c] = <<>>

QueueQuietly(c, rest) ==
  /\ unsent' = [unsent EXCEPT ![c] = @ \o rest]
  /\ UNCHANGED registration

\* What the kernel did not take is queued, with WRITE interest.
QueueRest(c, rest) ==
  /\ unsent' = [unsent EXCEPT ![c] = @ \o rest]
  /\ IF rest = <<>> THEN UNCHANGED registration ELSE update_channel(c, Event)

\* send(): interrupted it takes nothing, on a broken connection it closes.
Send(c, n) ==
  /\ UserCode
  /\ conn[c] = "open"
  /\ handed + n <= MaxUnits
  /\ opened + handed + n <= MaxInputs
  /\ handed' = handed + n
  /\ LET data == NextUnits(c, n) IN
     \/ /\ NothingQueued(c)
        /\ \E count \in 0..n :
             /\ \/ Takes(c, data, count)
                \/ count = 0 /\ UNCHANGED <<sent, cond>>
             /\ QueueRest(c, Untaken(data, count))
        /\ GivenMore(c, n)
        /\ UNCHANGED <<tableVars, dropped>>
     \/ /\ NothingQueued(c)
        /\ "hup" \in cond[c]
        /\ CloseInUserCode(c)
     \/ /\ ~NothingQueued(c)
        /\ QueueRest(c, data)
        /\ GivenMore(c, n)
        /\ UNCHANGED <<sent, cond, tableVars, dropped>>
  /\ UNCHANGED <<dispatching, pc, cur, serverVars, backlog, opened, leaked>>

ReadOnce(c) == cond' \in {cond, [cond EXCEPT ![c] = @ \ {"in"}]}

\* The recv() loop reads until there is nothing more.
ReadAll(c) == cond' = [cond EXCEPT ![c] = @ \ {"in"}]

EndReported(c) == "hup" \in cond[c] \cup events[c]

\* recv() returns 0 or an error.
Ended(c) == "hup" \in cond[c]

\* handle_read(): the end of the stream closes, whatever was read before it;
\* otherwise the message callback is called if the buffer holds bytes: new
\* ones, or some that an earlier callback left there.
handle_read(c) ==
  \/ /\ Ended(c)
     /\ CloseInHandler(c)
  \/ /\ ~Ended(c)
     /\ ReadAll(c)
     /\ \/ pc' = "message" /\ cur' = c
        \/ "in" \notin cond[c] /\ UNCHANGED <<pc, cur>>
     /\ UNCHANGED <<registration, tableVars, bufferVars, dropped>>

KeepWrite(c) == UNCHANGED registration

\* With nothing left to send, WRITE interest is given up.
GiveUpWrite(c) == update_channel(c, {"READ"})

\* handle_write(): as much as the kernel takes, or an error that closes.
handle_write(c) ==
  \/ /\ \E count \in 0..Len(unsent[c]) :
          /\ Takes(c, unsent[c], count)
          /\ unsent' = [unsent EXCEPT ![c] = SubSeq(@, count + 1, Len(@))]
          /\ IF unsent'[c] = <<>> THEN GiveUpWrite(c) ELSE UNCHANGED registration
     /\ UNCHANGED <<given, pc, cur, tableVars, dropped>>
  \/ /\ unsent[c] # <<>>
     /\ "hup" \in cond[c]
     /\ CloseInHandler(c)

----------------------------------------------------------------------------
(* EventLoop                                                               *)

\* run() and stop().  stop() may come at any time, also from a signal
\* handler; run() reads running_ only at the head of its loop.
Run ==
  /\ pc = "idle"
  /\ pc' = "poll"
  /\ running' = TRUE
  /\ UNCHANGED <<loopVars, cur, tableVars, bufferVars, alive, started, backlog,
                 boundVars, leaked, dropped>>

Stop ==
  /\ pc = "poll"
  /\ running
  /\ running' = FALSE
  /\ UNCHANGED <<loopVars, pc, cur, tableVars, bufferVars, alive, started, backlog,
                 boundVars, leaked, dropped>>

Poll(batch) ==
  /\ pc = "poll"
  /\ running
  /\ epoll_wait_events(batch)
  /\ pc' = "dispatch"
  /\ dropped' = dropped \ batch
  /\ UNCHANGED <<channels, watched, interest, cond, halfway, cur, tableVars,
                 bufferVars, serverVars, backlog, boundVars, leaked>>

RunReturns ==
  /\ pc = "poll"
  /\ ~running
  /\ pc' = "idle"
  /\ UNCHANGED <<loopVars, cur, tableVars, bufferVars, serverVars, backlog, boundVars,
                 leaked, dropped>>

\* The on_read() callback of an array entry: handle_accept() or handle_read().
DispatchRead(fd) ==
  /\ pc = "dispatch"
  /\ halfway = {}
  /\ events[fd] # {}
  /\ halfway' = {fd}
  /\ IF calls_on_read(fd)
       THEN IF fd = Listen
              THEN /\ pc' = "accept"
                   /\ UNCHANGED <<registration, cond, cur, tableVars, bufferVars,
                                  dropped>>
              ELSE handle_read(fd)
       ELSE UNCHANGED <<registration, cond, pc, cur, tableVars, bufferVars, dropped>>
  /\ UNCHANGED <<events, serverVars, backlog, boundVars, leaked>>

\* Its on_write() callback; the accept channel has none.
DispatchWrite(fd) ==
  /\ pc = "dispatch"
  /\ halfway = {fd}
  /\ halfway' = {}
  /\ events' = [events EXCEPT ![fd] = {}]
  /\ IF calls_on_write(fd) /\ fd # Listen
       THEN handle_write(fd)
       ELSE UNCHANGED <<registration, cond, pc, cur, tableVars, bufferVars, dropped>>
  /\ UNCHANGED <<serverVars, backlog, boundVars, leaked>>

DispatchDone ==
  /\ pc = "dispatch"
  /\ halfway = {}
  /\ events = NoEvents
  /\ pc' = "poll"
  /\ UNCHANGED <<loopVars, cur, tableVars, bufferVars, serverVars, backlog, boundVars,
                 leaked, dropped>>

\* An exception leaves dispatch_events() and run(); the rest of the array is
\* lost.
LeaveDispatch ==
  /\ pc' = "idle"
  /\ cur' = None
  /\ dropped' = dropped \cup {fd \in channels : events[fd] # {}}
  /\ events' = NoEvents
  /\ halfway' = {}

----------------------------------------------------------------------------
(* TcpServer                                                               *)

Start ==
  /\ pc = "idle"
  /\ alive
  /\ ~started
  /\ add_channel(Listen, {"READ"})
  /\ started' = TRUE
  /\ UNCHANGED <<cond, dispatching, pc, cur, tableVars, bufferVars, running, alive,
                 backlog, boundVars, leaked, dropped>>

\* accept() in handle_accept(), into any free number.
Accept(c) ==
  /\ pc = "accept"
  /\ backlog > 0
  /\ c \notin used
  /\ used' = used \cup {c}
  /\ backlog' = backlog - 1
  /\ \E first \in {{"out"}, {"in", "out"}} :
       cond' = [cond EXCEPT ![c] = first,
                            ![Listen] = IF backlog = 1 THEN {} ELSE @]
  /\ pc' = "made"
  /\ cur' = c
  /\ UNCHANGED <<registration, dispatching, connections, conn, told, bufferVars,
                 serverVars, boundVars, leaked, dropped>>

\* accept() has nothing more, or fails for want of a resource: the loop ends.
AcceptEnds(failed) ==
  /\ pc = "accept"
  /\ failed \/ backlog = 0
  /\ pc' = "dispatch"
  /\ dropped' = IF backlog > 0 THEN dropped \cup {Listen} ELSE dropped
  /\ UNCHANGED <<loopVars, cur, tableVars, bufferVars, serverVars, backlog, boundVars,
                 leaked>>

\* The object is made and started, watched for READ.
Open(c) ==
  /\ conn' = [conn EXCEPT ![c] = "open"]
  /\ add_channel(c, {"READ"})

\* The new TcpConnection is entered in the table, and the connection callback
\* is called.
Announce ==
  /\ pc = "made"
  /\ Open(cur)
  /\ connections' = connections \cup {cur}
  /\ pc' = "announce"
  /\ UNCHANGED <<cond, dispatching, cur, told, used, bufferVars, serverVars,
                 backlog, boundVars, leaked, dropped>>

KeepAccepted == UNCHANGED used

\* The catch block of set_nonblocking().
CloseAccepted == used' = used \ {cur}

\* set_nonblocking() throws and the number is closed, or the allocation
\* throws and it is not.
MakeThrows ==
  /\ pc = "made"
  /\ \/ CloseAccepted /\ UNCHANGED leaked
     \/ leaked' = leaked \cup {cur} /\ UNCHANGED used
  /\ cond' = [cond EXCEPT ![cur] = {}]
  /\ LeaveDispatch
  /\ UNCHANGED <<registration, connections, conn, told, bufferVars, serverVars,
                 backlog, boundVars>>

\* emplace() or start() throws: the connection is closed, which tells the
\* user of one that was never announced.
StartThrows ==
  /\ pc = "made"
  /\ conn' = [conn EXCEPT ![cur] = "closed"]
  /\ told' = [told EXCEPT ![cur] = @ + 1]
  /\ cond' = [cond EXCEPT ![cur] = {}]
  /\ pc' = "unwind"
  /\ UNCHANGED <<registration, dispatching, cur, connections, used, bufferVars, serverVars, backlog,
                 boundVars, leaked, dropped>>

\* The catch block closes a connection that is not closed yet.
StillOpen == conn[cur] = "open"

\* A connection callback throws: its connection is closed first.
CallbackThrows ==
  /\ pc = "announce"
  /\ StillOpen
  /\ shut(cur)
  /\ conn' = [conn EXCEPT ![cur] = "closed"]
  /\ told' = [told EXCEPT ![cur] = @ + 1]
  /\ pc' = "unwind"
  /\ UNCHANGED <<dispatching, cur, used, serverVars, backlog, boundVars, leaked>>

\* The pointer of the callback goes: the object too, unless the user keeps it.
Forget ==
  \/ conn[cur] = "closed" /\ destroyed(cur)
  \/ UNCHANGED <<conn, used, told>>

\* A callback returns to handle_accept() or to dispatch_events().
Return ==
  /\ pc \in {"announce", "message", "closing"}
  /\ pc' = IF pc = "announce" THEN "accept" ELSE "dispatch"
  /\ cur' = None
  /\ Forget
  /\ UNCHANGED <<loopVars, connections, bufferVars, serverVars, backlog, boundVars,
                 leaked, dropped>>

\* A callback throws, with nothing left to close, or handle_accept() rethrows.
Throw(from) ==
  /\ pc \in from
  /\ pc = "announce" => ~StillOpen
  /\ LeaveDispatch
  /\ Forget
  /\ UNCHANGED <<registration, cond, connections, bufferVars, serverVars, backlog,
                 boundVars, leaked>>

\* ~TcpServer(): every connection is closed without its close callback, then
\* the listening socket.  Objects that the user still holds stay.
DestroyServer ==
  /\ pc = "idle"
  /\ alive
  /\ alive' = FALSE
  /\ started' = FALSE
  /\ remove_channels(connections \cup {Listen})
  /\ cond' = NoEvents
  /\ \E held \in SUBSET connections :
       /\ conn' = [c \in Conns |-> IF c \in held THEN "closed"
                                   ELSE IF c \in connections THEN "none"
                                   ELSE conn[c]]
       /\ used' = used \ ((connections \ held) \cup {Listen})
  /\ connections' = {}
  /\ unsent' = [c \in Conns |-> <<>>]
  /\ sent' = [c \in Conns |-> <<>>]
  /\ given' = [c \in Conns |-> 0]
  /\ dropped' = {}
  /\ UNCHANGED <<dispatching, pc, cur, told, running, backlog, boundVars, leaked>>

----------------------------------------------------------------------------
(* The peers.                                                              *)

Connect ==
  /\ alive
  /\ opened < MaxConns
  /\ opened + handed < MaxInputs
  /\ opened' = opened + 1
  /\ backlog' = backlog + 1
  /\ Arrive(Listen, "in")
  /\ UNCHANGED <<handed, pc, cur, tableVars, bufferVars, serverVars, leaked, dropped>>

\* Data, space in the send buffer, or the end of the connection.
PeerActs(c, what) ==
  /\ conn[c] = "open"
  /\ what = "in" => "hup" \notin cond[c]
  /\ Arrive(c, what)
  /\ UNCHANGED <<pc, cur, tableVars, bufferVars, serverVars, backlog, boundVars,
                 leaked, dropped>>

----------------------------------------------------------------------------

UserStep ==
  \/ \E c \in Conns : Close(c) \/ Release(c)
  \/ \E c \in Conns, n \in Units : Send(c, n)
  \/ Throw({"announce", "message", "closing"}) \/ CallbackThrows
  \/ Run \/ Stop \/ Start \/ DestroyServer

LoopStep ==
  \/ RunReturns
  \/ \E fd \in Fds : DispatchRead(fd) \/ DispatchWrite(fd)
  \/ DispatchDone
  \/ \E c \in Conns : Accept(c)
  \/ \E failed \in BOOLEAN : AcceptEnds(failed)
  \/ Announce \/ MakeThrows \/ StartThrows
  \/ Return \/ Throw({"unwind"})

PollStep == \E batch \in SUBSET Deliverable : Poll(batch)

PeerStep == Connect \/ \E c \in Conns, what \in Condition : PeerActs(c, what)

Next == UserStep \/ LoopStep \/ PollStep \/ PeerStep

Spec == Init /\ [][Next]_vars

\* The thread keeps going, and callbacks return.
FairSpec == Spec /\ WF_vars(LoopStep)

----------------------------------------------------------------------------
(* Safety                                                                  *)

\* The table, the loop and the kernel agree in every state, also in the
\* middle of a callback: exactly the open connections are in connections_ and
\* registered, each watched for READ always and for WRITE exactly while bytes
\* are queued.
TableAgrees ==
  /\ connections = {c \in Conns : conn[c] = "open"}
  /\ channels = connections \cup (IF started THEN {Listen} ELSE {})
  /\ watched = channels
  /\ \A c \in connections :
       interest[c] = IF unsent[c] = <<>> THEN {"READ"} ELSE Event

\* Every open descriptor number belongs to the server, to one connection
\* object or to the accept in progress; the only one nobody will close is
\* that of a failed allocation in handle_accept().
NumbersOwned ==
  used = (IF alive THEN {Listen} ELSE {})
         \cup {c \in Conns : conn[c] # "none"}
         \cup (IF pc = "made" THEN {cur} ELSE {})
         \cup leaked

\* The user is told once of every closed connection, never of an open one,
\* and not at all by ~TcpServer().
ToldOnce ==
  \A c \in Conns : /\ conn[c] = "closed" => told[c] = 1 \/ ~alive
                   /\ conn[c] # "closed" => told[c] = 0

\* Through direct sends, partial sends and flushes, every unit that send()
\* was given for an open connection has been taken by the kernel or is still
\* queued, once, and in the order of the send() calls.
SendOrder ==
  \A c \in Conns : sent[c] \o unsent[c] = [i \in 1..given[c] |-> i]

\* The entry of fd in events[] is still to call the handler for e.
Upcoming(fd, e) ==
  /\ events[fd] \cap to_epoll_events({e}) # {}
  /\ e = "READ" => halfway # {fd}

\* With edge-triggered epoll nothing is forgotten: input, the end of a
\* connection, space for queued units and a waiting peer are on the ready
\* list or in the array until a handler has dealt with them, unless an
\* exception dropped the array or accept() failed.
NoLostEdge ==
  /\ \A c \in connections \ (pend \cup dropped) :
       /\ cond[c] \cap {"in", "hup"} # {} => Upcoming(c, "READ")
       /\ unsent[c] # <<>> /\ "out" \in cond[c] => Upcoming(c, "WRITE")
  /\ started /\ backlog > 0 /\ Listen \notin pend \cup dropped =>
       \/ Upcoming(Listen, "READ")
       \/ pc \in {"accept", "made", "announce", "unwind"}

\* dispatch_events() closes a connection only when this connection, and not
\* an earlier one with its number, has ended: an old entry in the array never
\* harms the new owner of a reused number.
HangupIsReal ==
  [][\A c \in Conns : pc = "dispatch" /\ conn[c] = "open" /\ conn'[c] # "open"
                        => "hup" \in cond[c]]_vars

\* No message is dropped: a handler that closes a connection has nothing of
\* it left to read.
EveryMessageEchoed ==
  [][\A c \in Conns : pc = "dispatch" /\ conn[c] = "open" /\ conn'[c] # "open"
                        => "in" \notin cond[c]]_vars

----------------------------------------------------------------------------
(* Liveness                                                                *)

\* One connection; the numbers are interchangeable.
Peer == CHOOSE c \in Conns : TRUE

\* epoll_wait serves its ready list in turn, and the peer keeps reading.
PeerFairness ==
  /\ SF_vars(\E batch \in SUBSET Deliverable : Peer \in batch /\ Poll(batch))
  /\ WF_vars(PeerActs(Peer, "out"))

\* What is queued on a connection whose peer keeps reading is sent, whatever
\* the other peers do, as long as the loop runs and no exception has dropped
\* an edge.
Flushed ==
  PeerFairness =>
    (unsent[Peer] # <<>> ~>
       unsent[Peer] = <<>> \/ Peer \in dropped \/ pc = "idle")

=============================================================================
