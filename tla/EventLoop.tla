----------------------------- MODULE EventLoop -----------------------------
(***************************************************************************)
(* EventLoop: the edge-triggered epoll wrapper shared by the coroutine      *)
(* executor (IoContext) and by the callback reactor (TcpServer,             *)
(* TcpConnection).                                                          *)
(*                                                                          *)
(* The state has two halves: channels_ and the events[] array of            *)
(* dispatch_events belong to the program; the interest list, the ready list *)
(* and the level conditions of the descriptors belong to the kernel and     *)
(* are modelled from the flags the code passes to epoll_ctl.  A Channel is  *)
(* identified with its descriptor.                                          *)
(***************************************************************************)
EXTENDS Integers, FiniteSets

CONSTANTS
  Fds,          \* descriptor numbers
  kMaxEvents    \* size of the events[] array of dispatch_events

ASSUME EventLoopAssumption == kMaxEvents \in Nat \ {0}

VARIABLES
  channels,     \* channels_: descriptors with a registered Channel
  watched,      \* kernel: descriptors in the interest list of poller_fd_
  interest,     \* kernel: the Event set given for a descriptor
  cond,         \* kernel: conditions that hold on a descriptor right now
  pend,         \* kernel: the ready list
  events,       \* dispatch_events: reported and not dispatched yet
  halfway       \* dispatch_events: on_read() has run, on_write() has not

registration == <<channels, watched, interest, pend>>
dispatching == <<events, halfway>>
loopVars == <<channels, watched, interest, cond, pend, events, halfway>>

Event == {"READ", "WRITE"}

\* EPOLLIN, EPOLLOUT, and EPOLLRDHUP | EPOLLHUP | EPOLLERR taken together.
Condition == {"in", "out", "hup"}

NoEvents == [fd \in Fds |-> {}]

LoopTypeOK ==
  /\ channels \in SUBSET Fds
  /\ watched \in SUBSET Fds
  /\ interest \in [Fds -> SUBSET Event]
  /\ cond \in [Fds -> SUBSET Condition]
  /\ pend \in SUBSET Fds
  /\ events \in [Fds -> SUBSET Condition]
  /\ halfway \in SUBSET Fds

LoopInit ==
  /\ channels = {}
  /\ watched = {}
  /\ interest = [fd \in Fds |-> {}]
  /\ cond \in [Fds -> SUBSET {"in", "out"}]
  /\ pend = {}
  /\ events = NoEvents
  /\ halfway = {}

\* The conditions that bear on a waiter for event e: the terminal ones bear
\* on both directions.
Wakes(e) == IF e = "READ" THEN {"in", "hup"} ELSE {"out", "hup"}

\* EPOLLRDHUP is part of every mask, EPOLLHUP and EPOLLERR are implied.
to_epoll_events(ev) == {"hup"} \cup UNION {Wakes(e) : e \in ev}

\* What epoll would report on fd for the interest ev.
Reported(fd, ev) == cond[fd] \cap to_epoll_events(ev)

----------------------------------------------------------------------------
(* epoll_ctl and the channel table.                                        *)

\* ADD and MOD check the descriptor at once: a condition that already holds
\* puts it on the ready list, also under EPOLLET.
ctl_arm(fd, ev) ==
  /\ interest' = [interest EXCEPT ![fd] = ev]
  /\ pend' = IF Reported(fd, ev) = {} THEN pend ELSE pend \cup {fd}

add_channel(fd, ev) ==
  /\ fd \notin channels
  /\ fd \notin watched
  /\ channels' = channels \cup {fd}
  /\ watched' = watched \cup {fd}
  /\ ctl_arm(fd, ev)

update_channel(fd, ev) ==
  /\ fd \in channels
  /\ fd \in watched
  /\ UNCHANGED <<channels, watched>>
  /\ ctl_arm(fd, ev)

\* Removing a descriptor that is not registered changes nothing.
remove_channels(fds) ==
  /\ channels' = channels \ fds
  /\ watched' = watched \ fds
  /\ interest' = [fd \in Fds |-> IF fd \in fds THEN {} ELSE interest[fd]]
  /\ pend' = pend \ fds

remove_channel(fd) == remove_channels({fd})

----------------------------------------------------------------------------
(* epoll_wait and dispatch_events.                                         *)

\* Ready-list entries that still have something to report.
Deliverable == {fd \in pend : Reported(fd, interest[fd]) # {}}

\* epoll_wait fills events[] with at most kMaxEvents descriptors; EPOLLET
\* takes a reported descriptor off the ready list.
epoll_wait_events(batch) ==
  /\ batch # {}
  /\ Cardinality(batch) <= kMaxEvents
  /\ batch = Deliverable \/ Cardinality(batch) = kMaxEvents
  /\ events' = [fd \in Fds |->
                  IF fd \in batch THEN Reported(fd, interest[fd]) ELSE {}]
  /\ pend' = pend \ batch

\* The two callbacks of one array entry; the channel is looked up again
\* before each of them.
calls_on_read(fd) == fd \in channels /\ events[fd] \cap {"in", "hup"} # {}

calls_on_write(fd) == fd \in channels /\ events[fd] \cap {"out", "hup"} # {}

----------------------------------------------------------------------------
(* The kernel's own steps.                                                 *)

\* Data, buffer space or a hang-up arrives: an edge, also when the condition
\* held before.
Arrive(fd, c) ==
  /\ cond' = [cond EXCEPT ![fd] = @ \cup {c}]
  /\ pend' = IF fd \in watched /\ c \in to_epoll_events(interest[fd])
               THEN pend \cup {fd} ELSE pend
  /\ UNCHANGED <<channels, watched, interest, events, halfway>>

\* A recv, accept4 or send leaves nothing more to read or no space to write.
Consume(fd, c) ==
  /\ c \in cond[fd]
  /\ cond' = [cond EXCEPT ![fd] = @ \ {c}]
  /\ UNCHANGED <<channels, watched, interest, pend, events, halfway>>

=============================================================================
