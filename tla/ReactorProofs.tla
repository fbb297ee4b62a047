--------------------------- MODULE ReactorProofs ---------------------------
(***************************************************************************)
(* The callback reactor, for any set of descriptor numbers and any bounds:  *)
(* table, loop and kernel agree, descriptors are owned once, bytes leave in *)
(* order, no edge is lost and an old event closes no new connection.        *)
(***************************************************************************)
EXTENDS Reactor, SequenceTheorems, TLAPS

----------------------------------------------------------------------------
(* The units of a connection: those the kernel has taken and those queued  *)
(* are numbered in one row.                                                *)

Numbered(s, u) ==
  /\ \A i \in 1..Len(s) : s[i] = i
  /\ \A i \in 1..Len(u) : u[i] = Len(s) + i

\* How many there are.
Total(s, u) == Len(s) + Len(u)

\* What the kernel has when it took the first k of the units u, and what is
\* left of them.
Taken(s, u, k) == s \o SubSeq(u, 1, k)
Rest(u, k) == SubSeq(u, k + 1, Len(u))

LEMMA TakeUnits ==
  ASSUME NEW s \in Seq(Nat), NEW u \in Seq(Nat), NEW k \in 0..Len(u),
         Numbered(s, u)
  PROVE  /\ Taken(s, u, k) \in Seq(Nat) /\ Rest(u, k) \in Seq(Nat)
         /\ Len(Taken(s, u, k)) + Len(Rest(u, k)) = Len(s) + Len(u)
         /\ Numbered(Taken(s, u, k), Rest(u, k))
         /\ Rest(u, k) = <<>> <=> k = Len(u)
<1> DEFINE h == SubSeq(u, 1, k)
           s2 == Taken(s, u, k)
           u2 == Rest(u, k)
<1>1. Len(s) \in Nat /\ Len(u) \in Nat /\ k \in Nat /\ k <= Len(u)
  BY LenProperties
<1>2. /\ h \in Seq(Nat) /\ Len(h) = k
      /\ \A i \in 1..k : h[i] = u[i]
  <2>1. \A i \in 1..k : u[i] \in Nat
    BY <1>1, ElementOfSeq
  <2> QED
    BY <1>1, <2>1, SubSeqProperties
<1>3. /\ u2 \in Seq(Nat) /\ Len(u2) = Len(u) - k
      /\ \A i \in 1..(Len(u) - k) : u2[i] = u[k + i]
  <2>1. \A i \in (k + 1)..Len(u) : u[i] \in Nat
    BY <1>1, ElementOfSeq
  <2> QED
    BY <1>1, <2>1, SubSeqProperties DEF Rest
<1>4. /\ s2 \in Seq(Nat) /\ Len(s2) = Len(s) + k
      /\ \A i \in 1..(Len(s) + k) : s2[i] = IF i <= Len(s) THEN s[i] ELSE h[i - Len(s)]
  <2> HIDE DEF h
  <2>1. s2 = s \o h
    BY Zenon DEF h, Taken
  <2>2. /\ s \o h \in Seq(Nat) /\ Len(s \o h) = Len(s) + Len(h)
        /\ \A i \in 1..(Len(s) + Len(h)) :
             (s \o h)[i] = IF i <= Len(s) THEN s[i] ELSE h[i - Len(s)]
    BY <1>2, ConcatProperties, Zenon
  <2> HIDE DEF s2
  <2> QED
    BY <1>2, <2>1, <2>2, Zenon
<1> HIDE DEF h, s2, u2
<1>0. /\ \A i \in 1..Len(s) : s[i] = i
      /\ \A i \in 1..Len(u) : u[i] = Len(s) + i
  BY Zenon DEF Numbered
<1>5. ASSUME NEW i \in 1..Len(s2) PROVE s2[i] = i
  <2>1. CASE i <= Len(s)
    <3>1. i \in 1..Len(s)
      BY <1>1, <2>1
    <3>2. s2[i] = s[i]
      BY <1>1, <1>4, <2>1, Zenon
    <3> QED
      BY <1>0, <3>1, <3>2, Zenon
  <2>2. CASE i > Len(s)
    <3>1. i - Len(s) \in 1..k /\ i - Len(s) \in 1..Len(u)
      BY <1>1, <1>4, <2>2, SMTT(30)
    <3>2. s2[i] = u[i - Len(s)]
      BY <1>1, <1>2, <1>4, <2>2, <3>1, SMTT(60)
    <3>3. u[i - Len(s)] = Len(s) + (i - Len(s))
      BY <1>0, <3>1, Zenon
    <3> QED
      BY <1>1, <1>4, <3>2, <3>3
  <2> QED
    BY <1>1, <1>4, <2>1, <2>2
<1>6. ASSUME NEW i \in 1..Len(u2) PROVE u2[i] = Len(s2) + i
  <2>1. i \in 1..(Len(u) - k) /\ k + i \in 1..Len(u)
    BY <1>1, <1>3
  <2>2. u2[i] = u[k + i] /\ u[k + i] = Len(s) + (k + i)
    BY <1>3, <2>1, Zenon DEF Numbered
  <2> QED
    BY <1>1, <1>4, <2>1, <2>2
<1>7. u2 = <<>> <=> k = Len(u)
  <2>1. u2 = <<>> <=> Len(u2) = 0
    BY <1>3, EmptySeq, Zenon
  <2> QED
    BY <1>1, <1>3, <2>1
<1>8. Len(s2) + Len(u2) = Len(s) + Len(u)
  BY <1>1, <1>3, <1>4
<1>9. Numbered(s2, u2)
  BY <1>5, <1>6, Zenon DEF Numbered
<1> QED
  BY <1>3, <1>4, <1>7, <1>8, <1>9, Zenon DEF s2, u2

\* The user adds n units.
LEMMA AddUnits ==
  ASSUME NEW s \in Seq(Nat), NEW u \in Seq(Nat), NEW n \in Nat, Numbered(s, u),
         NEW data, data = [i \in 1..n |-> Len(s) + Len(u) + i]
  PROVE  /\ data \in Seq(Nat) /\ Len(data) = n
         /\ u \o data \in Seq(Nat) /\ Len(u \o data) = Len(u) + n
         /\ Numbered(s, u \o data)
         /\ u = <<>> => Numbered(s, data)
<1> DEFINE v == u \o data
<1>1. Len(s) \in Nat /\ Len(u) \in Nat
  BY LenProperties, Zenon
<1>2. /\ data \in Seq(Nat) /\ Len(data) = n
      /\ \A i \in 1..n : data[i] = Len(s) + Len(u) + i
  BY <1>1, IsASeq
<1>3. /\ v \in Seq(Nat) /\ Len(v) = Len(u) + n
      /\ \A i \in 1..(Len(u) + n) : v[i] = IF i <= Len(u) THEN u[i] ELSE data[i - Len(u)]
  BY <1>1, <1>2, ConcatProperties
<1> HIDE DEF v
<1>4. ASSUME NEW i \in 1..Len(v) PROVE v[i] = Len(s) + i
  <2>1. CASE i <= Len(u)
    <3>1. i \in 1..Len(u) /\ v[i] = u[i]
      BY <1>1, <1>3, <2>1
    <3> QED
      BY <3>1, Zenon DEF Numbered
  <2>2. CASE i > Len(u)
    <3>0. i \in 1..(Len(u) + n) /\ ~(i <= Len(u)) /\ i - Len(u) \in 1..n
      BY <1>1, <1>3, <2>2
    <3>1. v[i] = data[i - Len(u)]
      BY <1>3, <3>0, Zenon
    <3>2. data[i - Len(u)] = Len(s) + Len(u) + (i - Len(u))
      BY <1>2, <3>0, Zenon
    <3> QED
      BY <1>1, <1>3, <3>1, <3>2
  <2> QED
    BY <1>1, <1>3, <2>1, <2>2
<1>5. u = <<>> => Len(u) = 0
  OBVIOUS
<1>6. u = <<>> => Numbered(s, data)
  BY <1>1, <1>2, <1>5 DEF Numbered
<1> QED
  <2>1. Numbered(s, v)
    BY <1>4, Zenon DEF Numbered
  <2> QED
    BY <1>2, <1>3, <1>6, <2>1, Zenon DEF v

----------------------------------------------------------------------------
(* The inductive invariant, in four parts.                                 *)

\* Table, loop and kernel.
RegInv ==
  /\ channels \in SUBSET Fds
  /\ interest \in [Fds -> SUBSET Event]
  /\ started \in BOOLEAN
  /\ TableAgrees
  /\ started => interest[Listen] = {"READ"}

\* The units of a connection are in order and as many as send() was given;
\* only an open connection has any.
BytesInv ==
  /\ sent \in [Conns -> Seq(Nat)]
  /\ unsent \in [Conns -> Seq(Nat)]
  /\ given \in [Conns -> Nat]
  /\ handed \in 0..MaxUnits
  /\ \A c \in Conns :
       /\ Numbered(sent[c], unsent[c])
       /\ Total(sent[c], unsent[c]) = given[c]
       /\ given[c] \in 0..handed
       /\ conn[c] # "open" => unsent[c] = <<>> /\ sent[c] = <<>>

\* Objects and descriptor numbers; the number being accepted, and a leaked
\* one, has no object.
OwnInv ==
  /\ conn \in [Conns -> {"none", "open", "closed"}]
  /\ told \in [Conns -> 0..1]
  /\ leaked \in SUBSET Conns
  /\ alive \in BOOLEAN
  /\ cur \in Conns \cup {None}
  /\ cur # None <=> pc \in {"made", "announce", "message", "closing", "unwind"}
  /\ pc = "made" => conn[cur] = "none" /\ cur \notin leaked
  /\ \A c \in leaked : conn[c] = "none"
  /\ NumbersOwned
  /\ ToldOnce

\* Places the thread can be in.
Places == {"idle", "poll", "dispatch", "accept", "made", "announce", "message",
           "closing", "unwind"}

\* The kernel's conditions and the array; handle_accept() runs for an entry of
\* the listening socket, and a waiting peer makes the socket readable.
KernelInv ==
  /\ pc \in Places
  /\ cond \in [Fds -> SUBSET Condition]
  /\ pend \in SUBSET Fds
  /\ events \in [Fds -> SUBSET Condition]
  /\ halfway \in SUBSET Fds
  /\ running \in BOOLEAN
  /\ dropped \in SUBSET Fds
  /\ opened \in 0..MaxConns
  /\ backlog \in 0..opened
  /\ pc \in {"idle", "poll"} => events = NoEvents /\ halfway = {}
  /\ pc \in {"accept", "made", "announce", "unwind"} => events[Listen] # {}
  /\ started => alive
  /\ alive /\ backlog > 0 => "in" \in cond[Listen]

TableInv == RegInv /\ BytesInv /\ OwnInv /\ KernelInv

EdgeInv == TableInv /\ NoLostEdge

LEMMA Numbers ==
  /\ Listen \in Fds /\ Conns \subseteq Fds /\ Listen \notin Conns
  /\ None \notin Fds /\ None \notin Conns
  /\ MaxConns \in Nat /\ MaxUnits \in Nat
BY ReactorAssumption, Zenon DEF Conns

----------------------------------------------------------------------------
(* Table, loop and kernel.                                                 *)

\* Most steps change neither the registrations nor which connections are open
\* and have units queued.
LEMMA RegQuiet ==
  ASSUME TableInv, UNCHANGED <<channels, watched, interest, connections, started>>,
         \A c \in Conns : conn'[c] = "open" <=> conn[c] = "open",
         \A c \in Conns : unsent'[c] = <<>> <=> unsent[c] = <<>>
  PROVE  RegInv'
<1>1. connections \subseteq Conns
  BY Zenon DEF TableInv, RegInv, TableAgrees
<1> QED
  BY <1>1, Zenon DEF TableInv, RegInv, TableAgrees

\* close() takes the connection out of the table, the loop and the kernel.
LEMMA RegShut ==
  ASSUME TableInv, NEW c \in Conns, shut(c), UNCHANGED started,
         NEW k \in {"closed", "none"}, conn' = [conn EXCEPT ![c] = k]
  PROVE  RegInv'
<1>1. /\ channels' = channels \ {c} /\ watched' = watched \ {c}
      /\ connections' = connections \ {c}
      /\ interest' = [fd \in Fds |-> IF fd = c THEN {} ELSE interest[fd]]
      /\ \A d \in Conns : d # c => unsent'[d] = unsent[d]
  BY Zenon DEF shut, remove_channel, remove_channels, handle_close, TableInv, BytesInv
<1>2. \A d \in Conns : conn'[d] = "open" <=> conn[d] = "open" /\ d # c
  BY Zenon DEF TableInv, OwnInv
<1>3. connections' = {d \in Conns : conn'[d] = "open"}
  BY <1>1, <1>2, Zenon DEF TableInv, RegInv, TableAgrees
<1>4. channels' = connections' \cup (IF started' THEN {Listen} ELSE {})
  BY <1>1, Numbers, Zenon DEF TableInv, RegInv, TableAgrees
<1>5. /\ interest' \in [Fds -> SUBSET Event]
      /\ \A d \in connections' : interest'[d] = interest[d] /\ d # c /\ d \in Conns /\ d \in connections
      /\ interest'[Listen] = interest[Listen]
  BY <1>1, Numbers, Zenon DEF TableInv, RegInv, TableAgrees
<1>6. \A d \in connections' :
        interest'[d] = IF unsent'[d] = <<>> THEN {"READ"} ELSE Event
  BY <1>1, <1>5 DEF TableInv, RegInv, TableAgrees
<1> QED
  BY <1>1, <1>3, <1>4, <1>5, <1>6, Zenon DEF TableInv, RegInv, TableAgrees

\* The interest of one connection is set to what its queue asks for.
LEMMA RegUpdate ==
  ASSUME TableInv, NEW c \in connections, NEW ev,
         update_channel(c, ev), UNCHANGED <<connections, started>>,
         \A d \in Conns : conn'[d] = "open" <=> conn[d] = "open",
         \A d \in Conns : d # c => unsent'[d] = unsent[d],
         ev = IF unsent'[c] = <<>> THEN {"READ"} ELSE Event
  PROVE  RegInv'
<1>1. c \in Conns /\ c # Listen /\ c \in Fds /\ connections \subseteq Conns
  BY Numbers, Zenon DEF TableInv, RegInv, TableAgrees
<1>2. /\ UNCHANGED <<channels, watched>>
      /\ interest' = [interest EXCEPT ![c] = ev]
      /\ ev \in SUBSET Event
  BY Zenon DEF update_channel, ctl_arm, Event
<1>3. /\ interest' \in [Fds -> SUBSET Event]
      /\ interest'[c] = ev /\ interest'[Listen] = interest[Listen]
      /\ \A d \in connections : d # c => interest'[d] = interest[d]
  BY <1>1, <1>2, Numbers, Zenon DEF TableInv, RegInv
<1>4. \A d \in connections' :
        interest'[d] = IF unsent'[d] = <<>> THEN {"READ"} ELSE Event
  BY <1>1, <1>3, ZenonT(30) DEF TableInv, RegInv, TableAgrees
<1> QED
  BY <1>1, <1>2, <1>3, <1>4 DEF TableInv, RegInv, TableAgrees

----------------------------------------------------------------------------
(* What send() and handle_write() do to the units of a connection.         *)

LEMMA TakeNone ==
  ASSUME NEW t \in Seq(Nat), NEW u
  PROVE  Taken(t, u, 0) = t
<1>1. SubSeq(u, 1, 0) = <<>>
  BY SubSeqEmpty
<1> QED
  BY <1>1, ConcatEmptySeq, Zenon DEF Taken

\* The units of c become t and u, in order, with n new ones.
UnitsBecome(c, t, u, n) ==
  /\ t \in Seq(Nat) /\ u \in Seq(Nat)
  /\ Numbered(t, u)
  /\ Total(t, u) = Total(sent[c], unsent[c]) + n
  /\ sent' = [sent EXCEPT ![c] = t]
  /\ unsent' = [unsent EXCEPT ![c] = u]
  /\ given' \in [Conns -> Nat] /\ given'[c] = given[c] + n
  /\ \A d \in Conns : d # c => given'[d] = given[d]

LEMMA SendEffect ==
  ASSUME TableInv, NEW c \in Conns, NEW n \in Units, Send(c, n)
  PROVE  \/ CloseInUserCode(c)
         \/ /\ \E t, u : /\ UnitsBecome(c, t, u, n)
                         /\ \/ u = <<>> /\ unsent[c] = <<>> /\ UNCHANGED registration
                            \/ u # <<>> /\ update_channel(c, Event)
            /\ cond' \in {cond, [cond EXCEPT ![c] = @ \ {"out"}]}
            /\ UNCHANGED <<tableVars, dropped>>
<1> DEFINE data == NextUnits(c, n)
           s == sent[c]
           q == unsent[c]
<1>1. /\ s \in Seq(Nat) /\ q \in Seq(Nat) /\ Numbered(s, q) /\ n \in Nat
      /\ sent \in [Conns -> Seq(Nat)] /\ unsent \in [Conns -> Seq(Nat)]
      /\ n > 0 /\ Len(s) \in Nat /\ Len(q) \in Nat
      /\ given \in [Conns -> Nat] /\ given[c] = Len(s) + Len(q)
  BY Numbers DEF TableInv, BytesInv, Units, Total
<1>2. /\ data \in Seq(Nat) /\ Len(data) = n
      /\ q \o data \in Seq(Nat) /\ Len(q \o data) = Len(q) + n
      /\ Numbered(s, q \o data)
      /\ q = <<>> => Numbered(s, data)
  <2> HIDE DEF s, q
  <2>1. data = [i \in 1..n |-> Len(s) + Len(q) + i]
    BY <1>1, Zenon DEF NextUnits, s, q
  <2> HIDE DEF data
  <2> QED
    BY <1>1, <2>1, AddUnits
<1>0. ASSUME GivenMore(c, n)
      PROVE  /\ given' \in [Conns -> Nat] /\ given'[c] = given[c] + n
             /\ \A d \in Conns : d # c => given'[d] = given[d]
  <2> HIDE DEF data, s, q
  <2>1. given \in [Conns -> Nat] /\ given[c] + n \in Nat
    BY <1>1
  <2> QED
    BY <1>0, <2>1, Zenon DEF GivenMore
<1>3. ASSUME NothingQueued(c), NEW count \in 0..n,
             \/ Takes(c, data, count)
             \/ count = 0 /\ UNCHANGED <<sent, cond>>,
             QueueRest(c, Untaken(data, count)), GivenMore(c, n)
      PROVE  /\ \E t, u : /\ UnitsBecome(c, t, u, n)
                          /\ \/ u = <<>> /\ unsent[c] = <<>> /\ UNCHANGED registration
                             \/ u # <<>> /\ update_channel(c, Event)
             /\ cond' \in {cond, [cond EXCEPT ![c] = @ \ {"out"}]}
  <2> DEFINE t == Taken(s, data, count)
             u == Rest(data, count)
  <2>1. q = <<>> /\ Len(q) = 0
    BY <1>3, Zenon DEF NothingQueued
  <2> HIDE DEF data, s, q
  <2>2. /\ t \in Seq(Nat) /\ u \in Seq(Nat) /\ Numbered(t, u)
        /\ Len(t) + Len(u) = Len(s) + n
    <3>1. count \in 0..Len(data) /\ Numbered(s, data)
      BY <1>2, <2>1, Zenon
    <3>2. s \in Seq(Nat) /\ data \in Seq(Nat)
      BY <1>1, <1>2, Zenon
    <3>3. /\ t \in Seq(Nat) /\ u \in Seq(Nat) /\ Numbered(t, u)
          /\ Len(t) + Len(u) = Len(s) + Len(data)
      BY <3>1, <3>2, TakeUnits
    <3> HIDE DEF t, u
    <3> QED
      BY <1>2, <3>3, Zenon
  <2>3. Untaken(data, count) = u
    BY Zenon DEF Untaken, Rest
  <2>4. q \o u = u
    BY <2>1, <2>2, ConcatEmptySeq, Zenon
  <2>5. unsent' = [unsent EXCEPT ![c] = u]
    <3>1. unsent' = [unsent EXCEPT ![c] = q \o Untaken(data, count)]
      BY <1>3, Zenon DEF QueueRest, q
    <3> HIDE DEF u
    <3> QED
      BY <2>3, <2>4, <3>1, Zenon
  <2>6. sent' = [sent EXCEPT ![c] = t]
    <3>1. CASE Takes(c, data, count)
      BY <3>1, Zenon DEF Takes, Taken, s
    <3>2. CASE count = 0 /\ UNCHANGED sent
      <4>1. t = s
        BY <1>1, <3>2, TakeNone, Zenon
      <4> HIDE DEF t
      <4> QED
        BY <1>1, <3>2, <4>1, Zenon DEF s
    <3> QED
      BY <1>3, <3>1, <3>2, Zenon
  <2>7. cond' \in {cond, [cond EXCEPT ![c] = @ \ {"out"}]}
    BY <1>3, Zenon DEF Takes
  <2>8. \/ u = <<>> /\ UNCHANGED registration
        \/ u # <<>> /\ update_channel(c, Event)
    <3> HIDE DEF u
    <3> QED
      BY <1>3, <2>3, Zenon DEF QueueRest
  <2> HIDE DEF t, u
  <2>9. UnitsBecome(c, t, u, n)
    <3>1. Total(t, u) = Total(s, q) + n
      BY <1>1, <2>1, <2>2 DEF Total
    <3> QED
      BY <1>0, <1>3, <2>2, <2>5, <2>6, <3>1, Zenon DEF UnitsBecome, s, q
  <2> QED
    BY <2>1, <2>7, <2>8, <2>9 DEF q
<1>4. ASSUME ~NothingQueued(c), QueueRest(c, data), GivenMore(c, n), UNCHANGED sent
      PROVE  \E t, u : UnitsBecome(c, t, u, n) /\ u # <<>> /\ update_channel(c, Event)
  <2> DEFINE u == q \o data
  <2> HIDE DEF data, s, q
  <2>1. data # <<>>
    BY <1>1, <1>2, EmptySeq
  <2>2. unsent' = [unsent EXCEPT ![c] = u] /\ update_channel(c, Event)
    BY <1>4, <2>1, Zenon DEF QueueRest, q
  <2>3. sent' = [sent EXCEPT ![c] = s]
    BY <1>1, <1>4, Zenon DEF s
  <2> HIDE DEF u
  <2>4. Len(u) = Len(q) + n /\ u \in Seq(Nat) /\ Numbered(s, u)
    BY <1>2, Zenon DEF u
  <2>5. u # <<>>
    BY <1>1, <2>4, EmptySeq
  <2>6. UnitsBecome(c, s, u, n)
    <3>1. Total(s, u) = Total(s, q) + n
      BY <1>1, <2>4 DEF Total
    <3> QED
      BY <1>0, <1>1, <1>4, <2>2, <2>3, <2>4, <3>1, Zenon DEF UnitsBecome, s, q
  <2> QED
    BY <2>2, <2>5, <2>6, Zenon
<1> HIDE DEF data
<1> QED
  BY <1>3, <1>4 DEF Send, data

\* handle_write() sends from the head of the queue, until it or the space in
\* the kernel is used up.
LEMMA WriteEffect ==
  ASSUME TableInv, NEW c \in Conns, handle_write(c)
  PROVE  \/ "hup" \in cond[c] /\ CloseInHandler(c)
         \/ /\ \E t, u : /\ UnitsBecome(c, t, u, 0)
                         /\ \/ u = <<>> /\ update_channel(c, {"READ"})
                            \/ u # <<>> /\ unsent[c] # <<>> /\ UNCHANGED registration
                         /\ \/ cond' = [cond EXCEPT ![c] = @ \ {"out"}]
                            \/ u = <<>> /\ UNCHANGED cond
            /\ UNCHANGED <<pc, cur, tableVars, dropped>>
<1> DEFINE s == sent[c]
           q == unsent[c]
<1>1. /\ s \in Seq(Nat) /\ q \in Seq(Nat) /\ Numbered(s, q)
      /\ sent \in [Conns -> Seq(Nat)] /\ unsent \in [Conns -> Seq(Nat)]
      /\ Len(s) \in Nat /\ Len(q) \in Nat
      /\ given \in [Conns -> Nat] /\ given[c] = given[c] + 0
  BY DEF TableInv, BytesInv
<1>2. ASSUME NEW count \in 0..Len(q), Takes(c, q, count), UNCHANGED given,
             unsent' = [unsent EXCEPT ![c] = SubSeq(@, count + 1, Len(@))],
             IF unsent'[c] = <<>> THEN GiveUpWrite(c) ELSE UNCHANGED registration
      PROVE  \E t, u : /\ UnitsBecome(c, t, u, 0)
                       /\ \/ u = <<>> /\ update_channel(c, {"READ"})
                          \/ u # <<>> /\ q # <<>> /\ UNCHANGED registration
                       /\ \/ cond' = [cond EXCEPT ![c] = @ \ {"out"}]
                          \/ u = <<>> /\ UNCHANGED cond
  <2> DEFINE t == Taken(s, q, count)
             u == Rest(q, count)
  <2>1. unsent' = [unsent EXCEPT ![c] = u] /\ sent' = [sent EXCEPT ![c] = t]
    BY <1>2, Zenon DEF Takes, Taken, Rest
  <2> HIDE DEF s, q
  <2>2. /\ t \in Seq(Nat) /\ u \in Seq(Nat) /\ Numbered(t, u)
        /\ Len(t) + Len(u) = Len(s) + Len(q)
        /\ u = <<>> <=> count = Len(q)
    BY <1>1, TakeUnits, Zenon
  <2> HIDE DEF t, u
  <2>3. unsent'[c] = u
    BY <1>1, <2>1, Zenon
  <2>4. q = <<>> => u = <<>>
    <3>1. q = <<>> => Len(q) = 0
      OBVIOUS
    <3> QED
      BY <2>2, <3>1
  <2>5. UnitsBecome(c, t, u, 0)
    <3>1. Total(t, u) = Total(s, q) + 0
      BY <1>1, <2>2 DEF Total
    <3> QED
      BY <1>1, <1>2, <2>1, <2>2, <3>1, Zenon DEF UnitsBecome, s, q
  <2>6. \/ cond' = [cond EXCEPT ![c] = @ \ {"out"}]
        \/ u = <<>> /\ UNCHANGED cond
    BY <1>2, <2>2, Zenon DEF Takes
  <2>7. \/ u = <<>> /\ update_channel(c, {"READ"})
        \/ u # <<>> /\ q # <<>> /\ UNCHANGED registration
    BY <1>2, <2>3, <2>4, Zenon DEF GiveUpWrite
  <2> QED
    BY <2>5, <2>6, <2>7, Zenon
<1> QED
  BY <1>2, Zenon DEF handle_write

----------------------------------------------------------------------------
(* The units of the connections.                                           *)

LEMMA BytesQuiet ==
  ASSUME TableInv, UNCHANGED <<bufferVars, handed>>,
         \A c \in Conns : conn[c] = "open" => conn'[c] = "open"
  PROVE  BytesInv'
BY Zenon DEF TableInv, BytesInv, bufferVars, Numbered

LEMMA BytesShut ==
  ASSUME TableInv, NEW c \in Conns, shut(c),
         \A d \in Conns : d # c => conn'[d] = conn[d],
         handed' \in 0..MaxUnits, handed' >= handed
  PROVE  BytesInv'
<1>1. /\ sent' = [sent EXCEPT ![c] = <<>>] /\ unsent' = [unsent EXCEPT ![c] = <<>>]
      /\ given' = [given EXCEPT ![c] = 0] /\ 0 \in Nat
  BY Zenon DEF shut
<1>2. <<>> \in Seq(Nat) /\ Numbered(<<>>, <<>>) /\ Total(<<>>, <<>>) = 0
  BY EmptySeq DEF Numbered, Total
<1>3. handed \in Nat /\ handed' \in Nat
  BY Numbers DEF TableInv, BytesInv
<1>4. ASSUME NEW d \in Conns
      PROVE  /\ Numbered(sent'[d], unsent'[d])
             /\ Total(sent'[d], unsent'[d]) = given'[d]
             /\ given'[d] \in 0..handed'
             /\ conn'[d] # "open" => unsent'[d] = <<>> /\ sent'[d] = <<>>
  <2>1. CASE d = c
    <3>1. sent'[d] = <<>> /\ unsent'[d] = <<>> /\ given'[d] = 0
      BY <1>1, <2>1, Zenon DEF TableInv, BytesInv
    <3> QED
      BY <1>2, <1>3, <3>1
  <2>2. CASE d # c
    <3>1. /\ sent'[d] = sent[d] /\ unsent'[d] = unsent[d] /\ given'[d] = given[d]
          /\ conn'[d] = conn[d]
      BY <1>1, <2>2, Zenon DEF TableInv, BytesInv
    <3>2. /\ Numbered(sent[d], unsent[d])
          /\ Total(sent[d], unsent[d]) = given[d] /\ given[d] \in 0..handed
          /\ conn[d] # "open" => unsent[d] = <<>> /\ sent[d] = <<>>
      BY Zenon DEF TableInv, BytesInv
    <3> QED
      BY <1>3, <3>1, <3>2
  <2> QED
    BY <2>1, <2>2, Zenon
<1> QED
  BY <1>1, <1>2, <1>4, Zenon DEF TableInv, BytesInv

LEMMA BytesUpdate ==
  ASSUME TableInv, NEW c \in Conns, NEW t, NEW u, NEW n \in Nat,
         UnitsBecome(c, t, u, n), UNCHANGED conn, conn[c] = "open",
         handed' \in 0..MaxUnits, handed' = handed + n
  PROVE  BytesInv'
<1>1. handed \in Nat /\ handed' \in Nat /\ t \in Seq(Nat) /\ u \in Seq(Nat)
  BY Numbers DEF TableInv, BytesInv, UnitsBecome
<1>2. ASSUME NEW d \in Conns
      PROVE  /\ Numbered(sent'[d], unsent'[d])
             /\ Total(sent'[d], unsent'[d]) = given'[d]
             /\ given'[d] \in 0..handed'
             /\ conn'[d] # "open" => unsent'[d] = <<>> /\ sent'[d] = <<>>
  <2>1. /\ Numbered(sent[d], unsent[d])
        /\ Total(sent[d], unsent[d]) = given[d] /\ given[d] \in 0..handed
        /\ conn[d] # "open" => unsent[d] = <<>> /\ sent[d] = <<>>
    BY Zenon DEF TableInv, BytesInv
  <2>2. CASE d = c
    <3>1. sent'[d] = t /\ unsent'[d] = u
      BY <2>2, Zenon DEF TableInv, BytesInv, UnitsBecome
    <3>2. /\ Numbered(t, u) /\ Total(t, u) = Total(sent[d], unsent[d]) + n
          /\ given'[d] = given[d] + n
      BY <2>2, Zenon DEF UnitsBecome
    <3> QED
      BY <1>1, <2>1, <2>2, <3>1, <3>2
  <2>3. CASE d # c
    <3>1. sent'[d] = sent[d] /\ unsent'[d] = unsent[d] /\ given'[d] = given[d]
      BY <2>3, Zenon DEF TableInv, BytesInv, UnitsBecome
    <3> QED
      BY <1>1, <2>1, <3>1
  <2> QED
    BY <2>2, <2>3, Zenon
<1>3. /\ sent' \in [Conns -> Seq(Nat)] /\ unsent' \in [Conns -> Seq(Nat)]
      /\ given' \in [Conns -> Nat]
  BY <1>1, Zenon DEF TableInv, BytesInv, UnitsBecome
<1> QED
  BY <1>2, <1>3, Zenon DEF BytesInv

----------------------------------------------------------------------------
(* Every step keeps both.                                                  *)

\* A step that touches neither registrations nor units, nor which connections
\* are open.
Quiet ==
  /\ UNCHANGED <<channels, watched, interest, connections, started, unsent, sent, given,
                 handed>>
  /\ \A c \in Conns : conn'[c] = "open" <=> conn[c] = "open"

LEMMA QuietKeeps ==
  ASSUME TableInv, Quiet
  PROVE  RegInv' /\ BytesInv'
<1>1. RegInv'
  BY RegQuiet, Zenon DEF Quiet
<1>2. BytesInv'
  BY BytesQuiet, Zenon DEF Quiet, bufferVars
<1> QED
  BY <1>1, <1>2, Zenon

LEMMA ShutKeeps ==
  ASSUME TableInv, NEW c \in Conns, shut(c), UNCHANGED started,
         NEW k \in {"closed", "none"}, conn' = [conn EXCEPT ![c] = k],
         handed' \in 0..MaxUnits, handed' >= handed
  PROVE  RegInv' /\ BytesInv'
<1>1. RegInv'
  BY RegShut, Zenon
<1>2. \A d \in Conns : d # c => conn'[d] = conn[d]
  BY Zenon DEF TableInv, OwnInv
<1>3. BytesInv'
  BY <1>2, BytesShut, Zenon
<1> QED
  BY <1>1, <1>3, Zenon

LEMMA CloseKeeps ==
  ASSUME TableInv, NEW c \in Conns, CloseInUserCode(c) \/ CloseInHandler(c),
         UNCHANGED started, handed' \in 0..MaxUnits, handed' >= handed
  PROVE  RegInv' /\ BytesInv'
<1>1. /\ shut(c)
      /\ \E k \in {"closed", "none"} : conn' = [conn EXCEPT ![c] = k]
  BY Zenon DEF CloseInUserCode, CloseInHandler, destroyed
<1> QED
  BY <1>1, ShutKeeps, Zenon

LEMMA UpdateKeeps ==
  ASSUME TableInv, NEW c \in Conns, NEW t, NEW u, NEW n \in Nat,
         conn[c] = "open", UnitsBecome(c, t, u, n), UNCHANGED <<conn, connections, started>>,
         handed' \in 0..MaxUnits, handed' = handed + n,
         \/ u = <<>> /\ unsent[c] = <<>> /\ UNCHANGED registration
         \/ u # <<>> /\ unsent[c] # <<>> /\ UNCHANGED registration
         \/ u = <<>> /\ update_channel(c, {"READ"})
         \/ u # <<>> /\ update_channel(c, Event)
  PROVE  RegInv' /\ BytesInv'
<1>1. BytesInv'
  BY BytesUpdate, Zenon
<1>2. c \in connections
  BY Zenon DEF TableInv, RegInv, TableAgrees
<1>3. unsent'[c] = u /\ \A d \in Conns : d # c => unsent'[d] = unsent[d]
  BY Zenon DEF UnitsBecome, TableInv, BytesInv
<1>4. CASE UNCHANGED registration /\ (u = <<>> <=> unsent[c] = <<>>)
  <2>1. \A d \in Conns : unsent'[d] = <<>> <=> unsent[d] = <<>>
    BY <1>3, <1>4, Zenon
  <2>2. RegInv'
    BY <1>4, <2>1, RegQuiet, Zenon DEF registration
  <2> QED
    BY <1>1, <2>2, Zenon
<1>5. CASE u = <<>> /\ update_channel(c, {"READ"})
  <2>1. RegInv'
    BY <1>2, <1>3, <1>5, RegUpdate, Zenon
  <2> QED
    BY <1>1, <2>1, Zenon
<1>6. CASE u # <<>> /\ update_channel(c, Event)
  <2>1. RegInv'
    BY <1>2, <1>3, <1>6, RegUpdate, Zenon
  <2> QED
    BY <1>1, <2>1, Zenon
<1> QED
  BY <1>4, <1>5, <1>6, Zenon

\* handle_read() and handle_write() for an entry of the array.
LEMMA HandlersKeep ==
  ASSUME TableInv, NEW c \in connections, handle_read(c) \/ handle_write(c),
         UNCHANGED <<started, handed>>
  PROVE  RegInv' /\ BytesInv'
<1>1. /\ c \in Conns /\ conn[c] = "open" /\ handed \in 0..MaxUnits
      /\ handed' \in 0..MaxUnits /\ handed' >= handed /\ handed' = handed + 0
  BY Numbers DEF TableInv, RegInv, TableAgrees, BytesInv
<1>2. CASE CloseInHandler(c)
  BY <1>1, <1>2, CloseKeeps, Zenon
<1>3. CASE /\ ~CloseInHandler(c)
           /\ handle_read(c)
  <2>1. Quiet
    BY <1>3, Zenon DEF handle_read, Quiet, registration, tableVars, bufferVars
  <2> QED
    BY <2>1, QuietKeeps, Zenon
<1>4. CASE /\ ~CloseInHandler(c)
           /\ handle_write(c)
  <2>1. PICK t, u : /\ UnitsBecome(c, t, u, 0)
                    /\ \/ u = <<>> /\ update_channel(c, {"READ"})
                       \/ u # <<>> /\ unsent[c] # <<>> /\ UNCHANGED registration
    BY <1>1, <1>4, WriteEffect
  <2>2. UNCHANGED <<conn, connections>>
    BY <1>1, <1>4, WriteEffect, Zenon DEF tableVars
  <2> QED
    BY <1>1, <2>1, <2>2, UpdateKeeps, Zenon
<1> QED
  BY <1>2, <1>3, <1>4, Zenon

LEMMA TableStep ==
  ASSUME TableInv, Next
  PROVE  RegInv' /\ BytesInv'
<1>0. /\ handed \in 0..MaxUnits /\ handed \in Nat /\ Listen \notin Conns
      /\ connections \subseteq Conns
      /\ pc \in {"made", "announce", "message", "closing", "unwind"} => cur \in Conns
  BY Numbers DEF TableInv, BytesInv, OwnInv, RegInv, TableAgrees
<1>1. ASSUME NEW c \in Conns, Close(c) PROVE RegInv' /\ BytesInv'
  BY <1>0, <1>1, CloseKeeps DEF Close, serverVars, boundVars
<1>2. ASSUME NEW c \in Conns, Release(c) PROVE RegInv' /\ BytesInv'
  <2>1. Quiet
    BY <1>2, Zenon DEF Release, destroyed, Quiet, TableInv, OwnInv, loopVars, serverVars,
      boundVars, bufferVars
  <2> QED
    BY <2>1, QuietKeeps, Zenon
<1>3. ASSUME NEW c \in Conns, NEW n \in Units, Send(c, n) PROVE RegInv' /\ BytesInv'
  <2>1. /\ n \in Nat /\ conn[c] = "open" /\ UNCHANGED started
        /\ handed' = handed + n /\ handed' <= MaxUnits
    BY <1>3, Numbers DEF Send, Units, serverVars
  <2>2. handed' \in 0..MaxUnits /\ handed' >= handed
    BY <1>0, <2>1, Numbers
  <2>3. CASE CloseInUserCode(c)
    BY <2>1, <2>2, <2>3, CloseKeeps, Zenon
  <2>4. CASE ~CloseInUserCode(c)
    <3>1. PICK t, u : /\ UnitsBecome(c, t, u, n)
                      /\ \/ u = <<>> /\ unsent[c] = <<>> /\ UNCHANGED registration
                         \/ u # <<>> /\ update_channel(c, Event)
      BY <1>3, <2>4, SendEffect, Zenon
    <3>2. UNCHANGED <<conn, connections>>
      BY <1>3, <2>4, SendEffect, Zenon DEF tableVars
    <3> QED
      BY <2>1, <2>2, <3>1, <3>2, UpdateKeeps, Zenon
  <2> QED
    BY <2>3, <2>4, Zenon
<1>4. ASSUME cur \in Conns, Forget
      PROVE  \A c \in Conns : conn'[c] = "open" <=> conn[c] = "open"
  BY <1>4, Zenon DEF Forget, destroyed, TableInv, OwnInv
<1>5. ASSUME NEW from, from \subseteq {"announce", "message", "closing", "unwind"}, Throw(from)
      PROVE  RegInv' /\ BytesInv'
  <2>1. Quiet
    BY <1>0, <1>4, <1>5, Zenon DEF Throw, Quiet, registration, serverVars, boundVars, bufferVars
  <2> QED
    BY <2>1, QuietKeeps, Zenon
<1>6. ASSUME Return PROVE RegInv' /\ BytesInv'
  <2>1. Quiet
    BY <1>0, <1>4, <1>6, Zenon DEF Return, Quiet, loopVars, serverVars, boundVars, bufferVars
  <2> QED
    BY <2>1, QuietKeeps, Zenon
<1>7. ASSUME CallbackThrows PROVE RegInv' /\ BytesInv'
  <2>1. /\ cur \in Conns /\ shut(cur) /\ conn' = [conn EXCEPT ![cur] = "closed"]
        /\ UNCHANGED <<started, handed>>
    BY <1>0, <1>7, Zenon DEF CallbackThrows, serverVars, boundVars
  <2>2. handed' \in 0..MaxUnits /\ handed' >= handed
    BY <1>0, <2>1
  <2>3. PICK c \in Conns : c = cur
    BY <2>1, Zenon
  <2> QED
    BY <2>1, <2>2, <2>3, ShutKeeps, Zenon
<1>8. ASSUME Run \/ Stop \/ RunReturns \/ DispatchDone PROVE RegInv' /\ BytesInv'
  <2>1. Quiet
    BY <1>8, Zenon DEF Run, Stop, RunReturns, DispatchDone, Quiet, loopVars, tableVars,
      serverVars, boundVars, bufferVars
  <2> QED
    BY <2>1, QuietKeeps, Zenon
<1>9. ASSUME NEW c \in Conns, Accept(c) PROVE RegInv' /\ BytesInv'
  <2>1. Quiet
    BY <1>9, Zenon DEF Accept, Quiet, registration, serverVars, boundVars, bufferVars
  <2> QED
    BY <2>1, QuietKeeps, Zenon
<1>10. ASSUME NEW failed \in BOOLEAN, AcceptEnds(failed) PROVE RegInv' /\ BytesInv'
  <2>1. Quiet
    BY <1>10, Zenon DEF AcceptEnds, Quiet, loopVars, tableVars, serverVars, boundVars, bufferVars
  <2> QED
    BY <2>1, QuietKeeps, Zenon
<1>11. ASSUME MakeThrows PROVE RegInv' /\ BytesInv'
  <2>1. Quiet
    BY <1>11, Zenon DEF MakeThrows, Quiet, registration, serverVars, boundVars, bufferVars
  <2> QED
    BY <2>1, QuietKeeps, Zenon
<1>12. ASSUME StartThrows PROVE RegInv' /\ BytesInv'
  <2>1. Quiet
    BY <1>0, <1>12, Zenon DEF StartThrows, Quiet, registration, serverVars, boundVars, bufferVars,
      TableInv, OwnInv
  <2> QED
    BY <2>1, QuietKeeps, Zenon
<1>13. ASSUME NEW batch, Poll(batch) PROVE RegInv' /\ BytesInv'
  <2>1. Quiet
    BY <1>13, Zenon DEF Poll, Quiet, tableVars, serverVars, boundVars, bufferVars
  <2> QED
    BY <2>1, QuietKeeps, Zenon
<1>14. ASSUME Connect \/ \E c \in Conns, what \in Condition : PeerActs(c, what)
       PROVE  RegInv' /\ BytesInv'
  <2>1. Quiet
    BY <1>14, Zenon DEF Connect, PeerActs, Arrive, Quiet, tableVars, serverVars, boundVars,
      bufferVars
  <2> QED
    BY <2>1, QuietKeeps, Zenon
<1>15. ASSUME NEW fd \in Fds, DispatchRead(fd) \/ DispatchWrite(fd)
       PROVE  RegInv' /\ BytesInv'
  <2>1. UNCHANGED <<started, handed>>
    BY <1>15, Zenon DEF DispatchRead, DispatchWrite, serverVars, boundVars
  <2>2. CASE /\ fd \in channels /\ fd # Listen
             /\ handle_read(fd) \/ handle_write(fd)
    <3>1. fd \in connections
      BY <2>2, Zenon DEF TableInv, RegInv, TableAgrees
    <3> QED
      BY <2>1, <2>2, <3>1, HandlersKeep, Zenon
  <2>3. CASE ~(/\ fd \in channels /\ fd # Listen
               /\ handle_read(fd) \/ handle_write(fd))
    <3>1. UNCHANGED <<registration, tableVars, bufferVars>>
      BY <1>15, <2>3, Zenon DEF DispatchRead, DispatchWrite, calls_on_read, calls_on_write
    <3>2. Quiet
      BY <2>1, <3>1, Zenon DEF Quiet, registration, tableVars, bufferVars
    <3> QED
      BY <3>2, QuietKeeps, Zenon
  <2> QED
    BY <2>2, <2>3, Zenon
<1>16. ASSUME Start PROVE RegInv' /\ BytesInv'
  <2>1. /\ channels' = channels \cup {Listen} /\ watched' = watched \cup {Listen}
        /\ interest' = [interest EXCEPT ![Listen] = {"READ"}]
        /\ started' = TRUE /\ UNCHANGED <<connections, conn, unsent, sent, given, handed>>
    BY <1>16, Zenon DEF Start, add_channel, ctl_arm, tableVars, bufferVars, boundVars
  <2>2. /\ interest' \in [Fds -> SUBSET Event] /\ interest'[Listen] = {"READ"}
        /\ \A c \in connections : interest'[c] = interest[c]
    BY <1>0, <2>1, Numbers, Zenon DEF TableInv, RegInv, Event
  <2>3. RegInv'
    BY <2>1, <2>2, Numbers, Zenon DEF TableInv, RegInv, TableAgrees
  <2>4. BytesInv'
    BY <2>1, BytesQuiet, Zenon DEF bufferVars
  <2> QED
    BY <2>3, <2>4, Zenon
<1>17. ASSUME Announce PROVE RegInv' /\ BytesInv'
  <2>1. /\ cur \in Conns /\ cur \in Fds /\ cur # Listen /\ unsent[cur] = <<>>
    BY <1>0, <1>17, Numbers, Zenon DEF Announce, TableInv, OwnInv, BytesInv
  <2>2. /\ channels' = channels \cup {cur} /\ watched' = watched \cup {cur}
        /\ interest' = [interest EXCEPT ![cur] = {"READ"}]
        /\ connections' = connections \cup {cur}
        /\ conn' = [conn EXCEPT ![cur] = "open"]
        /\ UNCHANGED <<started, unsent, sent, given, handed>>
    BY <1>17, Zenon DEF Announce, Open, add_channel, ctl_arm, bufferVars, serverVars, boundVars
  <2>3. /\ interest' \in [Fds -> SUBSET Event] /\ interest'[cur] = {"READ"}
        /\ \A fd \in Fds : fd # cur => interest'[fd] = interest[fd]
    BY <2>1, <2>2, Zenon DEF TableInv, RegInv, Event
  <2>4. \A c \in Conns : conn'[c] = "open" <=> conn[c] = "open" \/ c = cur
    BY <2>1, <2>2, Zenon DEF TableInv, OwnInv
  <2>5. connections' = {c \in Conns : conn'[c] = "open"}
    BY <2>1, <2>2, <2>4, Zenon DEF TableInv, RegInv, TableAgrees
  <2>6. \A c \in connections' :
          interest'[c] = IF unsent'[c] = <<>> THEN {"READ"} ELSE Event
    BY <1>0, <2>1, <2>2, <2>3, Numbers, Zenon DEF TableInv, RegInv, TableAgrees
  <2>7. RegInv'
    BY <2>1, <2>2, <2>3, <2>5, <2>6, Numbers DEF TableInv, RegInv, TableAgrees
  <2>8. BytesInv'
    BY <2>2, <2>4, BytesQuiet, Zenon DEF bufferVars
  <2> QED
    BY <2>7, <2>8, Zenon
<1>18. ASSUME DestroyServer PROVE RegInv' /\ BytesInv'
  <2>1. /\ channels' = channels \ (connections \cup {Listen})
        /\ watched' = watched \ (connections \cup {Listen})
        /\ interest' = [fd \in Fds |-> IF fd \in connections \cup {Listen} THEN {}
                                       ELSE interest[fd]]
        /\ connections' = {} /\ started' = FALSE /\ UNCHANGED handed
        /\ unsent' = [c \in Conns |-> <<>>] /\ sent' = [c \in Conns |-> <<>>]
        /\ given' = [c \in Conns |-> 0]
    BY <1>18, Zenon DEF DestroyServer, remove_channels, boundVars
  <2>2. channels' = {} /\ watched' = {}
    BY <2>1, Zenon DEF TableInv, RegInv, TableAgrees
  <2>3. \A c \in Conns : conn'[c] # "open"
    <3>1. PICK held \in SUBSET connections :
            conn' = [c \in Conns |-> IF c \in held THEN "closed"
                                    ELSE IF c \in connections THEN "none"
                                    ELSE conn[c]]
      BY <1>18, Zenon DEF DestroyServer
    <3> QED
      BY <3>1, Zenon DEF TableInv, RegInv, TableAgrees
  <2>4. interest' \in [Fds -> SUBSET Event]
    BY <2>1, Zenon DEF TableInv, RegInv
  <2>5. RegInv'
    BY <2>1, <2>2, <2>3, <2>4, Zenon DEF RegInv, TableAgrees
  <2>6. <<>> \in Seq(Nat) /\ Numbered(<<>>, <<>>) /\ Total(<<>>, <<>>) = 0
    BY EmptySeq DEF Numbered, Total
  <2>7. \A c \in Conns : unsent'[c] = <<>> /\ sent'[c] = <<>> /\ given'[c] = 0
    BY <2>1, Zenon
  <2>8. BytesInv'
    BY <1>0, <2>1, <2>6, <2>7 DEF BytesInv
  <2> QED
    BY <2>5, <2>8, Zenon
<1>19. CASE UserStep
  BY <1>1, <1>2, <1>3, <1>5, <1>7, <1>8, <1>16, <1>18, <1>19, Zenon DEF UserStep
<1>20. CASE LoopStep
  BY <1>5, <1>6, <1>8, <1>9, <1>10, <1>11, <1>12, <1>15, <1>17, <1>20, Zenon DEF LoopStep
<1> QED
  BY <1>13, <1>14, <1>19, <1>20, Zenon DEF Next, PollStep, PeerStep

----------------------------------------------------------------------------
(* Objects and descriptor numbers.                                         *)

InCallback == {"made", "announce", "message", "closing", "unwind"}

\* The thread goes on to a place where no number is being accepted.
Goes ==
  /\ pc # "made" /\ pc' # "made"
  /\ cur' \in Conns \cup {None}
  /\ cur' # None <=> pc' \in InCallback

LEMMA OwnSame ==
  ASSUME TableInv, Goes, UNCHANGED <<conn, told, used, leaked, alive>>
  PROVE  OwnInv'
BY Zenon DEF TableInv, OwnInv, Goes, InCallback, NumbersOwned, ToldOnce

\* A connection is closed, and the user told.
LEMMA OwnClosed ==
  ASSUME TableInv, Goes, NEW c \in Conns, conn[c] = "open",
         conn' = [conn EXCEPT ![c] = "closed"], told' = [told EXCEPT ![c] = @ + 1],
         UNCHANGED <<used, leaked, alive>>
  PROVE  OwnInv'
<1>1. conn \in [Conns -> {"none", "open", "closed"}] /\ told \in [Conns -> 0..1]
  BY Zenon DEF TableInv, OwnInv
<1>2. told[c] = 0
  BY Zenon DEF TableInv, OwnInv, ToldOnce
<1>3. /\ conn' \in [Conns -> {"none", "open", "closed"}] /\ told' \in [Conns -> 0..1]
      /\ conn'[c] = "closed" /\ told'[c] = 1
      /\ \A d \in Conns : d # c => conn'[d] = conn[d] /\ told'[d] = told[d]
  BY <1>1, <1>2
<1>4. ToldOnce'
  BY <1>3, Zenon DEF TableInv, OwnInv, ToldOnce
<1>5. \A d \in Conns : conn'[d] = "none" <=> conn[d] = "none"
  BY <1>3, Zenon
<1>6. NumbersOwned'
  BY <1>5, Zenon DEF TableInv, OwnInv, NumbersOwned, Goes
<1> QED
  BY <1>3, <1>4, <1>5, <1>6, Zenon DEF TableInv, OwnInv, Goes, InCallback

\* An object is destroyed, and its number closed.
LEMMA OwnDestroyed ==
  ASSUME TableInv, Goes, NEW c \in Conns, conn[c] # "none", destroyed(c),
         UNCHANGED <<leaked, alive>>
  PROVE  OwnInv'
<1>1. conn \in [Conns -> {"none", "open", "closed"}] /\ told \in [Conns -> 0..1]
  BY Zenon DEF TableInv, OwnInv
<1>2. /\ conn' \in [Conns -> {"none", "open", "closed"}] /\ told' \in [Conns -> 0..1]
      /\ conn'[c] = "none" /\ told'[c] = 0
      /\ \A d \in Conns : d # c => conn'[d] = conn[d] /\ told'[d] = told[d]
  BY <1>1 DEF destroyed
<1>3. ToldOnce'
  BY <1>2, Zenon DEF TableInv, OwnInv, ToldOnce
<1>4. c \notin leaked /\ c # Listen
  BY Numbers, Zenon DEF TableInv, OwnInv
<1>5. {d \in Conns : conn'[d] # "none"} = {d \in Conns : conn[d] # "none"} \ {c}
  BY <1>2, Zenon
<1>6. NumbersOwned'
  BY <1>4, <1>5, Zenon DEF TableInv, OwnInv, NumbersOwned, Goes, destroyed
<1>7. \A d \in leaked : conn'[d] = "none"
  BY <1>2, <1>4, Zenon DEF TableInv, OwnInv
<1> QED
  BY <1>2, <1>3, <1>6, <1>7, Zenon DEF TableInv, OwnInv, Goes, InCallback

LEMMA OwnForget ==
  ASSUME TableInv, Goes, cur \in Conns, Forget, UNCHANGED <<leaked, alive>>
  PROVE  OwnInv'
<1>1. PICK c \in Conns : c = cur
  BY Zenon
<1>2. CASE conn[c] = "closed" /\ destroyed(c)
  BY <1>2, OwnDestroyed, Zenon
<1>3. CASE UNCHANGED <<conn, used, told>>
  BY <1>3, OwnSame, Zenon
<1> QED
  BY <1>1, <1>2, <1>3, Zenon DEF Forget

LEMMA OwnClose ==
  ASSUME TableInv, Goes, NEW c \in Conns, conn[c] = "open",
         CloseInUserCode(c) \/ CloseInHandler(c), UNCHANGED <<leaked, alive>>
  PROVE  OwnInv'
<1>1. CASE /\ conn' = [conn EXCEPT ![c] = "closed"] /\ UNCHANGED used
           /\ told' = [told EXCEPT ![c] = @ + 1]
  BY <1>1, OwnClosed, Zenon
<1>2. CASE destroyed(c)
  BY <1>2, OwnDestroyed, Zenon
<1> QED
  BY <1>1, <1>2, Zenon DEF CloseInUserCode, CloseInHandler

LEMMA OwnStep ==
  ASSUME TableInv, Next
  PROVE  OwnInv'
<1>0. /\ cur \in Conns \cup {None} /\ None \notin Conns
      /\ cur # None <=> pc \in InCallback
      /\ pc \in Places
  BY Numbers, Zenon DEF TableInv, OwnInv, KernelInv, InCallback
<1>1. ASSUME NEW c \in Conns, Close(c) PROVE OwnInv'
  <2>1. Goes
    BY <1>0, <1>1, Zenon DEF Close, UserCode, Goes
  <2> QED
    BY <1>1, <2>1, OwnClose, Zenon DEF Close, serverVars
<1>2. ASSUME NEW c \in Conns, Release(c) PROVE OwnInv'
  <2>1. Goes
    BY <1>0, <1>2, Zenon DEF Release, UserCode, Goes
  <2> QED
    BY <1>2, <2>1, OwnDestroyed, Zenon DEF Release, serverVars
<1>3. ASSUME NEW c \in Conns, NEW n \in Units, Send(c, n) PROVE OwnInv'
  <2>1. Goes /\ UNCHANGED <<leaked, alive>> /\ conn[c] = "open"
    BY <1>0, <1>3, Zenon DEF Send, UserCode, Goes, serverVars
  <2>2. CASE CloseInUserCode(c)
    BY <2>1, <2>2, OwnClose, Zenon
  <2>3. CASE UNCHANGED tableVars
    BY <2>1, <2>3, OwnSame, Zenon DEF tableVars
  <2> QED
    BY <1>3, <2>2, <2>3, Zenon DEF Send
<1>4. ASSUME NEW from, from \subseteq {"announce", "message", "closing", "unwind"}, Throw(from)
      PROVE  OwnInv'
  <2>1. Goes /\ cur \in Conns /\ Forget /\ UNCHANGED <<leaked, alive>>
    BY <1>0, <1>4, Zenon DEF Throw, LeaveDispatch, Goes, InCallback, serverVars
  <2> QED
    BY <2>1, OwnForget, Zenon
<1>5. ASSUME Return PROVE OwnInv'
  <2>1. Goes /\ cur \in Conns /\ Forget /\ UNCHANGED <<leaked, alive>>
    BY <1>0, <1>5, Zenon DEF Return, Goes, InCallback, serverVars
  <2> QED
    BY <2>1, OwnForget, Zenon
<1>6. ASSUME CallbackThrows PROVE OwnInv'
  <2>1. PICK c \in Conns : c = cur
    BY <1>0, <1>6, Zenon DEF CallbackThrows, InCallback
  <2>2. /\ Goes /\ conn[c] = "open" /\ conn' = [conn EXCEPT ![c] = "closed"]
        /\ told' = [told EXCEPT ![c] = @ + 1] /\ UNCHANGED <<used, leaked, alive>>
    BY <1>0, <1>6, <2>1, Zenon DEF CallbackThrows, StillOpen, Goes, InCallback, serverVars
  <2> QED
    BY <2>2, OwnClosed, Zenon
<1>7. ASSUME Run \/ Stop \/ Start \/ RunReturns \/ DispatchDone PROVE OwnInv'
  <2>1. Goes /\ UNCHANGED <<conn, told, used, leaked, alive>>
    BY <1>0, <1>7, Zenon DEF Run, Stop, Start, RunReturns, DispatchDone, Goes, InCallback,
      tableVars, serverVars
  <2> QED
    BY <2>1, OwnSame, Zenon
<1>8. ASSUME NEW failed \in BOOLEAN, AcceptEnds(failed) PROVE OwnInv'
  <2>1. Goes /\ UNCHANGED <<conn, told, used, leaked, alive>>
    BY <1>0, <1>8, Zenon DEF AcceptEnds, Goes, InCallback, tableVars, serverVars
  <2> QED
    BY <2>1, OwnSame, Zenon
<1>9. ASSUME NEW batch, Poll(batch) PROVE OwnInv'
  <2>1. Goes /\ UNCHANGED <<conn, told, used, leaked, alive>>
    BY <1>0, <1>9, Zenon DEF Poll, Goes, InCallback, tableVars, serverVars
  <2> QED
    BY <2>1, OwnSame, Zenon
<1>10. ASSUME Connect \/ \E c \in Conns, what \in Condition : PeerActs(c, what)
       PROVE  OwnInv'
  <2>1. UNCHANGED <<conn, told, used, leaked, alive, pc, cur>>
    BY <1>10, Zenon DEF Connect, PeerActs, tableVars, serverVars
  <2> QED
    BY <2>1, Zenon DEF TableInv, OwnInv, NumbersOwned, ToldOnce
<1>11. ASSUME NEW fd \in Fds, DispatchRead(fd) \/ DispatchWrite(fd)
       PROVE  OwnInv'
  <2>1. pc = "dispatch" /\ cur = None /\ UNCHANGED <<leaked, alive>>
    BY <1>0, <1>11, Zenon DEF DispatchRead, DispatchWrite, InCallback, serverVars
  <2>2. CASE /\ fd \in channels /\ fd # Listen
             /\ CloseInHandler(fd)
    <3>1. fd \in Conns /\ conn[fd] = "open"
      BY <2>2, Zenon DEF TableInv, RegInv, TableAgrees
    <3>2. Goes
      BY <2>1, <2>2, <3>1, <1>0, Zenon DEF CloseInHandler, Goes, InCallback
    <3> QED
      BY <2>1, <2>2, <3>1, <3>2, OwnClose, Zenon
  <2>3. CASE ~(/\ fd \in channels /\ fd # Listen
               /\ CloseInHandler(fd))
    <3>1. UNCHANGED tableVars
      BY <1>11, <2>3, Zenon
      DEF DispatchRead, DispatchWrite, calls_on_read, calls_on_write, handle_read,
        handle_write
    <3>2. \/ UNCHANGED cur /\ pc' \in {"dispatch", "accept"}
          \/ fd \in Conns /\ cur' = fd /\ pc' = "message"
      <4>1. fd \in channels /\ fd # Listen => fd \in Conns
        BY <1>11, Zenon DEF Conns
      <4> QED
        BY <1>11, <2>1, <2>3, <4>1, Zenon
        DEF DispatchRead, DispatchWrite, calls_on_read, calls_on_write, handle_read,
          handle_write
    <3>3. Goes
      BY <1>0, <2>1, <3>2, Zenon DEF Goes, InCallback
    <3> QED
      BY <2>1, <3>1, <3>3, OwnSame, Zenon DEF tableVars
  <2> QED
    BY <2>2, <2>3, Zenon
<1>12. ASSUME NEW c \in Conns, Accept(c) PROVE OwnInv'
  <2>1. /\ c \notin used /\ used' = used \cup {c} /\ pc = "accept" /\ pc' = "made"
        /\ cur' = c /\ UNCHANGED <<conn, told, leaked, alive>>
    BY <1>12, Zenon DEF Accept, serverVars
  <2>2. conn[c] = "none" /\ c \notin leaked
    BY <2>1, Zenon DEF TableInv, OwnInv, NumbersOwned
  <2>3. NumbersOwned'
    BY <2>1, Zenon DEF TableInv, OwnInv, NumbersOwned
  <2> QED
    BY <1>0, <2>1, <2>2, <2>3, Zenon DEF TableInv, OwnInv, ToldOnce
<1>13. ASSUME Announce PROVE OwnInv'
  <2>1. /\ pc = "made" /\ pc' = "announce" /\ cur' = cur /\ cur \in Conns
        /\ conn[cur] = "none" /\ cur \notin leaked
        /\ conn' = [conn EXCEPT ![cur] = "open"] /\ UNCHANGED <<told, used, leaked, alive>>
    BY <1>0, <1>13, Zenon DEF Announce, Open, InCallback, TableInv, OwnInv, serverVars
  <2>2. /\ conn' \in [Conns -> {"none", "open", "closed"}] /\ conn'[cur] = "open"
        /\ \A d \in Conns : d # cur => conn'[d] = conn[d]
    BY <2>1, Zenon DEF TableInv, OwnInv
  <2>3. NumbersOwned'
    <3>1. {d \in Conns : conn'[d] # "none"} = {d \in Conns : conn[d] # "none"} \cup {cur}
      BY <2>1, <2>2, Zenon
    <3> QED
      BY <2>1, <3>1, Zenon DEF TableInv, OwnInv, NumbersOwned
  <2>4. ToldOnce'
    BY <2>1, <2>2, Zenon DEF TableInv, OwnInv, ToldOnce
  <2>5. \A d \in leaked : conn'[d] = "none"
    BY <2>1, <2>2, Zenon DEF TableInv, OwnInv
  <2> QED
    BY <1>0, <2>1, <2>2, <2>3, <2>4, <2>5, Zenon DEF TableInv, OwnInv
<1>14. ASSUME MakeThrows PROVE OwnInv'
  <2>1. /\ pc = "made" /\ pc' = "idle" /\ cur' = None /\ cur \in Conns /\ cur # Listen
        /\ conn[cur] = "none" /\ cur \notin leaked /\ UNCHANGED <<conn, told, alive>>
        /\ \/ used' = used \ {cur} /\ UNCHANGED leaked
           \/ leaked' = leaked \cup {cur} /\ UNCHANGED used
    BY <1>0, <1>14, Numbers, Zenon
    DEF MakeThrows, CloseAccepted, LeaveDispatch, InCallback, TableInv, OwnInv, serverVars
  <2>2. NumbersOwned'
    BY <2>1, Zenon DEF TableInv, OwnInv, NumbersOwned
  <2> QED
    BY <1>0, <2>1, <2>2, Zenon DEF TableInv, OwnInv, ToldOnce
<1>15. ASSUME StartThrows PROVE OwnInv'
  <2>1. /\ pc = "made" /\ pc' = "unwind" /\ cur' = cur /\ cur \in Conns
        /\ conn[cur] = "none" /\ cur \notin leaked
        /\ conn' = [conn EXCEPT ![cur] = "closed"]
        /\ told' = [told EXCEPT ![cur] = @ + 1] /\ UNCHANGED <<used, leaked, alive>>
    BY <1>0, <1>15, Zenon DEF StartThrows, InCallback, TableInv, OwnInv, serverVars
  <2>2. told[cur] = 0
    BY <2>1, Zenon DEF TableInv, OwnInv, ToldOnce
  <2>3. /\ conn' \in [Conns -> {"none", "open", "closed"}] /\ conn'[cur] = "closed"
        /\ told' \in [Conns -> 0..1] /\ told'[cur] = 1
        /\ \A d \in Conns : d # cur => conn'[d] = conn[d] /\ told'[d] = told[d]
    BY <2>1, <2>2 DEF TableInv, OwnInv
  <2>4. NumbersOwned'
    <3>1. {d \in Conns : conn'[d] # "none"} = {d \in Conns : conn[d] # "none"} \cup {cur}
      BY <2>1, <2>3, Zenon
    <3> QED
      BY <2>1, <3>1, Zenon DEF TableInv, OwnInv, NumbersOwned
  <2>5. ToldOnce'
    BY <2>1, <2>3, Zenon DEF TableInv, OwnInv, ToldOnce
  <2>6. \A d \in leaked : conn'[d] = "none"
    BY <2>1, <2>3, Zenon DEF TableInv, OwnInv
  <2> QED
    BY <1>0, <2>1, <2>3, <2>4, <2>5, <2>6, Zenon DEF TableInv, OwnInv
<1>16. ASSUME DestroyServer PROVE OwnInv'
  <2>1. PICK held \in SUBSET connections :
          /\ conn' = [c \in Conns |-> IF c \in held THEN "closed"
                                     ELSE IF c \in connections THEN "none"
                                     ELSE conn[c]]
          /\ used' = used \ ((connections \ held) \cup {Listen})
    BY <1>16, Zenon DEF DestroyServer
  <2>2. /\ pc = "idle" /\ alive' = FALSE /\ UNCHANGED <<pc, cur, told, leaked>>
        /\ alive
    BY <1>16, Zenon DEF DestroyServer
  <2>3. connections = {c \in Conns : conn[c] = "open"} /\ Listen \notin Conns
    BY Numbers, Zenon DEF TableInv, RegInv, TableAgrees
  <2>4. conn' \in [Conns -> {"none", "open", "closed"}]
    BY <2>1, Zenon DEF TableInv, OwnInv
  <2>5. {c \in Conns : conn'[c] # "none"}
          = {c \in Conns : conn[c] # "none"} \ (connections \ held)
    BY <2>1, <2>3, Zenon
  <2>6. leaked \cap connections = {} /\ Listen \notin leaked
    BY <2>3, Zenon DEF TableInv, OwnInv
  <2>7. NumbersOwned'
    BY <2>1, <2>2, <2>3, <2>5, <2>6, SMTT(30) DEF TableInv, OwnInv, NumbersOwned
  <2>8. ToldOnce'
    BY <2>1, <2>2, <2>3, Zenon DEF TableInv, OwnInv, ToldOnce
  <2>9. \A c \in leaked : conn'[c] = "none"
    BY <2>1, <2>3, Zenon DEF TableInv, OwnInv
  <2> QED
    BY <2>2, <2>4, <2>7, <2>8, <2>9, Zenon DEF TableInv, OwnInv
<1>17. CASE UserStep
  BY <1>1, <1>2, <1>3, <1>4, <1>6, <1>7, <1>16, <1>17, Zenon DEF UserStep
<1>18. CASE LoopStep
  BY <1>4, <1>5, <1>7, <1>8, <1>11, <1>12, <1>13, <1>14, <1>15, <1>18, Zenon DEF LoopStep
<1> QED
  BY <1>9, <1>10, <1>17, <1>18, Zenon DEF Next, PollStep, PeerStep

----------------------------------------------------------------------------
(* The kernel's conditions and the array.                                  *)

\* Most steps leave the array and the listening socket alone, and go from
\* handle_accept(), or from outside dispatch_events(), nowhere else.
KernelQuiet ==
  /\ pc' \in Places
  /\ pc' \in {"idle", "poll"} => pc \in {"idle", "poll"}
  /\ pc' \in {"accept", "made", "announce", "unwind"}
       => pc \in {"accept", "made", "announce", "unwind"}
  /\ pend' \in SUBSET Fds /\ dropped' \in SUBSET Fds
  /\ running' \in BOOLEAN
  /\ UNCHANGED <<events, halfway, opened, backlog, alive>>
  /\ started' => alive'

LEMMA KernelSame ==
  ASSUME TableInv, KernelQuiet, UNCHANGED cond
  PROVE  KernelInv'
BY Zenon DEF TableInv, KernelInv, KernelQuiet

LEMMA KernelSet ==
  ASSUME TableInv, KernelQuiet, NEW c \in Conns, NEW k \in SUBSET Condition,
         cond' = [cond EXCEPT ![c] = k]
  PROVE  KernelInv'
<1>1. cond' \in [Fds -> SUBSET Condition] /\ cond'[Listen] = cond[Listen]
  BY Numbers, Zenon DEF TableInv, KernelInv
<1> QED
  BY <1>1, Zenon DEF TableInv, KernelInv, KernelQuiet

\* close() takes one descriptor out.
LEMMA KernelShut ==
  ASSUME TableInv, NEW c \in Conns, shut(c)
  PROVE  /\ cond' = [cond EXCEPT ![c] = {}]
         /\ pend' \in SUBSET Fds /\ dropped' \in SUBSET Fds
BY Zenon DEF shut, remove_channel, remove_channels, TableInv, KernelInv

\* epoll_ctl only adds to the ready list.
LEMMA KernelArm ==
  ASSUME TableInv, NEW fd \in Fds, NEW ev, ctl_arm(fd, ev)
  PROVE  pend' \in SUBSET Fds /\ pend \subseteq pend'
BY Zenon DEF ctl_arm, TableInv, KernelInv

LEMMA KernelStep ==
  ASSUME TableInv, Next
  PROVE  KernelInv'
<1>0. /\ pc \in Places /\ pend \in SUBSET Fds /\ dropped \in SUBSET Fds
      /\ running \in BOOLEAN /\ (started => alive) /\ {} \in SUBSET Condition
      /\ \A fd \in Fds : cond[fd] \in SUBSET Condition
      /\ pc \in InCallback => cur \in Conns
      /\ Conns \subseteq Fds /\ Listen \in Fds
  BY Numbers, Zenon DEF TableInv, KernelInv, OwnInv, InCallback
<1>1. ASSUME NEW c \in Conns, Close(c) PROVE KernelInv'
  <2>1. shut(c) /\ UNCHANGED <<dispatching, pc, serverVars, backlog, boundVars>>
    BY <1>1, Zenon DEF Close, CloseInUserCode
  <2>2. KernelQuiet
    BY <1>0, <2>1, KernelShut, Zenon DEF KernelQuiet, dispatching, serverVars, boundVars
  <2> QED
    BY <1>0, <2>1, <2>2, KernelShut, KernelSet, Zenon
<1>2. ASSUME NEW c \in Conns, Release(c) PROVE KernelInv'
  <2>1. KernelQuiet /\ UNCHANGED cond
    BY <1>0, <1>2, Zenon DEF Release, KernelQuiet, loopVars, serverVars, boundVars
  <2> QED
    BY <2>1, KernelSame, Zenon
<1>3. ASSUME NEW c \in Conns, NEW n \in Units, Send(c, n) PROVE KernelInv'
  <2>1. UNCHANGED <<dispatching, pc, serverVars, backlog, opened>>
    BY <1>3, Zenon DEF Send
  <2>2. CASE CloseInUserCode(c)
    <3>1. shut(c)
      BY <2>2, Zenon DEF CloseInUserCode
    <3>2. KernelQuiet
      BY <1>0, <2>1, <3>1, KernelShut, Zenon DEF KernelQuiet, dispatching, serverVars
    <3> QED
      BY <1>0, <3>1, <3>2, KernelShut, KernelSet, Zenon
  <2>3. CASE ~CloseInUserCode(c)
    <3>1. /\ UNCHANGED registration \/ update_channel(c, Event)
          /\ cond' \in {cond, [cond EXCEPT ![c] = @ \ {"out"}]}
          /\ UNCHANGED dropped
      BY <1>3, <2>3, SendEffect, Zenon
    <3>2. pend' \in SUBSET Fds
      BY <1>0, <3>1, KernelArm, Zenon DEF registration, update_channel
    <3>3. KernelQuiet
      BY <1>0, <2>1, <3>1, <3>2, Zenon DEF KernelQuiet, dispatching, serverVars
    <3>4. cond[c] \ {"out"} \in SUBSET Condition
      BY <1>0, Zenon
    <3> QED
      BY <3>1, <3>3, <3>4, KernelSame, KernelSet, Zenon
  <2> QED
    BY <2>2, <2>3, Zenon
<1>4. ASSUME LeaveDispatch, UNCHANGED <<pend, running, opened, backlog, alive, started>>,
             \/ UNCHANGED cond
             \/ \E c \in Conns : cond' = [cond EXCEPT ![c] = {}]
      PROVE  KernelInv'
  <2>1. cond' \in [Fds -> SUBSET Condition] /\ cond'[Listen] = cond[Listen]
    BY <1>4, Numbers, Zenon DEF TableInv, KernelInv
  <2>2. events' = NoEvents /\ halfway' = {} /\ pc' = "idle" /\ dropped' \in SUBSET Fds
        /\ NoEvents \in [Fds -> SUBSET Condition]
    BY <1>4, Zenon DEF LeaveDispatch, NoEvents, TableInv, KernelInv, RegInv
  <2> QED
    BY <1>4, <2>1, <2>2, Zenon DEF TableInv, KernelInv, Places
<1>5. ASSUME NEW from, Throw(from) PROVE KernelInv'
  BY <1>4, <1>5, Zenon DEF Throw, registration, serverVars, boundVars
<1>6. ASSUME MakeThrows PROVE KernelInv'
  <2>1. cur \in Conns
    BY <1>0, <1>6, Zenon DEF MakeThrows, InCallback
  <2> QED
    BY <1>4, <1>6, <2>1, Zenon DEF MakeThrows, registration, serverVars, boundVars
<1>7. ASSUME Return PROVE KernelInv'
  <2>1. KernelQuiet /\ UNCHANGED cond
    BY <1>0, <1>7, Zenon DEF Return, KernelQuiet, loopVars, serverVars, boundVars, Places
  <2> QED
    BY <2>1, KernelSame, Zenon
<1>8. ASSUME CallbackThrows \/ StartThrows PROVE KernelInv'
  <2>1. PICK c \in Conns : c = cur
    BY <1>0, <1>8, Zenon DEF CallbackThrows, StartThrows, InCallback
  <2>2. /\ pc \in {"announce", "made"} /\ pc' = "unwind"
        /\ UNCHANGED <<dispatching, serverVars, backlog, boundVars>>
        /\ shut(c) \/ (UNCHANGED <<registration, dropped>> /\ cond' = [cond EXCEPT ![c] = {}])
    BY <1>8, <2>1, Zenon DEF CallbackThrows, StartThrows
  <2>3. /\ pend' \in SUBSET Fds /\ dropped' \in SUBSET Fds
        /\ cond' = [cond EXCEPT ![c] = {}]
    BY <1>0, <2>2, KernelShut, Zenon DEF registration
  <2>4. KernelQuiet
    BY <1>0, <2>2, <2>3, Zenon DEF KernelQuiet, dispatching, serverVars, boundVars, Places
  <2> QED
    BY <1>0, <2>3, <2>4, KernelSet, Zenon
<1>9. ASSUME Run \/ Stop \/ RunReturns PROVE KernelInv'
  <2>1. /\ pc \in {"idle", "poll"} /\ pc' \in {"idle", "poll"}
        /\ running' \in BOOLEAN
        /\ UNCHANGED <<loopVars, alive, started, backlog, boundVars, dropped>>
    BY <1>0, <1>9, Zenon DEF Run, Stop, RunReturns, serverVars
  <2>2. KernelQuiet /\ UNCHANGED cond
    BY <1>0, <2>1, Zenon DEF KernelQuiet, loopVars, boundVars, Places
  <2> QED
    BY <2>2, KernelSame, Zenon
<1>10. ASSUME Start PROVE KernelInv'
  <2>1. pend' \in SUBSET Fds
    BY <1>0, <1>10, KernelArm, Zenon DEF Start, add_channel
  <2>2. KernelQuiet /\ UNCHANGED cond
    BY <1>0, <1>10, <2>1, Zenon DEF Start, KernelQuiet, dispatching, boundVars
  <2> QED
    BY <2>2, KernelSame, Zenon
<1>11. ASSUME Announce PROVE KernelInv'
  <2>1. pend' \in SUBSET Fds
    BY <1>0, <1>11, KernelArm, Zenon DEF Announce, Open, add_channel, InCallback
  <2>2. KernelQuiet /\ UNCHANGED cond
    BY <1>0, <1>11, <2>1, Zenon
    DEF Announce, KernelQuiet, dispatching, serverVars, boundVars, Places
  <2> QED
    BY <2>2, KernelSame, Zenon
<1>12. ASSUME NEW failed \in BOOLEAN, AcceptEnds(failed) PROVE KernelInv'
  <2>1. KernelQuiet /\ UNCHANGED cond
    BY <1>0, <1>12, Zenon
    DEF AcceptEnds, KernelQuiet, loopVars, serverVars, boundVars, Places
  <2> QED
    BY <2>1, KernelSame, Zenon
<1>13. ASSUME DispatchDone PROVE KernelInv'
  BY <1>13, Zenon
  DEF DispatchDone, TableInv, KernelInv, loopVars, serverVars, boundVars, Places
<1>14. ASSUME NEW c \in Conns, NEW what \in Condition, PeerActs(c, what) PROVE KernelInv'
  <2>1. /\ cond' = [cond EXCEPT ![c] = @ \cup {what}] /\ cond[c] \cup {what} \in SUBSET Condition
        /\ UNCHANGED <<events, halfway, pc, serverVars, backlog, boundVars, dropped>>
        /\ pend' \in SUBSET Fds
    BY <1>0, <1>14, Zenon DEF PeerActs, Arrive
  <2>2. KernelQuiet
    BY <1>0, <2>1, Zenon DEF KernelQuiet, serverVars, boundVars
  <2> QED
    BY <2>1, <2>2, KernelSet, Zenon
<1>15. ASSUME Connect PROVE KernelInv'
  <2>1. /\ cond' = [cond EXCEPT ![Listen] = @ \cup {"in"}]
        /\ opened < MaxConns /\ opened' = opened + 1 /\ backlog' = backlog + 1
        /\ UNCHANGED <<events, halfway, pc, serverVars, dropped>>
        /\ pend' \in SUBSET Fds
    BY <1>0, <1>15, Zenon DEF Connect, Arrive
  <2>2. cond' \in [Fds -> SUBSET Condition] /\ "in" \in cond'[Listen]
    BY <1>0, <2>1, Zenon DEF TableInv, KernelInv, Condition
  <2>3. opened' \in 0..MaxConns /\ backlog' \in 0..opened'
    BY <2>1, Numbers, SMTT(30) DEF TableInv, KernelInv
  <2> QED
    BY <2>1, <2>2, <2>3, Zenon DEF TableInv, KernelInv, serverVars
<1>16. ASSUME NEW batch, Poll(batch) PROVE KernelInv'
  <2>1. /\ pc = "poll" /\ pc' = "dispatch" /\ pend' \in SUBSET Fds /\ dropped' \in SUBSET Fds
        /\ UNCHANGED <<cond, halfway, serverVars, backlog, boundVars>>
        /\ events' = [fd \in Fds |->
                         IF fd \in batch THEN Reported(fd, interest[fd]) ELSE {}]
    BY <1>0, <1>16, Zenon DEF Poll, epoll_wait_events
  <2>2. events' \in [Fds -> SUBSET Condition]
    BY <1>0, <2>1, Zenon DEF Reported
  <2> QED
    BY <2>1, <2>2, Zenon DEF TableInv, KernelInv, Places, serverVars, boundVars
<1>17. ASSUME NEW c \in Conns, Accept(c) PROVE KernelInv'
  <2>1. PICK first \in {{"out"}, {"in", "out"}} :
          cond' = [cond EXCEPT ![c] = first, ![Listen] = IF backlog = 1 THEN {} ELSE @]
    BY <1>17, Zenon DEF Accept
  <2>2. /\ pc = "accept" /\ pc' = "made" /\ backlog > 0 /\ backlog' = backlog - 1
        /\ UNCHANGED <<registration, dispatching, serverVars, boundVars, dropped>>
    BY <1>17, Zenon DEF Accept
  <2>3. first \in SUBSET Condition
    BY Zenon DEF Condition
  <2>4. /\ cond' \in [Fds -> SUBSET Condition]
        /\ backlog # 1 => cond'[Listen] = cond[Listen]
    BY <1>0, <2>1, <2>3, Numbers, Zenon DEF TableInv, KernelInv
  <2>5. backlog' \in 0..opened /\ (backlog' > 0 => backlog # 1 /\ backlog > 0)
    BY <2>2, Numbers DEF TableInv, KernelInv
  <2> QED
    BY <2>2, <2>4, <2>5, Zenon
    DEF TableInv, KernelInv, Places, registration, dispatching, serverVars, boundVars
<1>18. ASSUME DestroyServer PROVE KernelInv'
  <2>1. /\ pc = "idle" /\ alive' = FALSE /\ started' = FALSE /\ dropped' = {}
        /\ cond' = NoEvents /\ pend' \in SUBSET Fds
        /\ UNCHANGED <<dispatching, pc, running, backlog, boundVars>>
    BY <1>0, <1>18, Zenon DEF DestroyServer, remove_channels
  <2>2. NoEvents \in [Fds -> SUBSET Condition]
    BY Zenon DEF NoEvents
  <2> QED
    BY <2>1, <2>2, Zenon DEF TableInv, KernelInv, dispatching, boundVars
<1>19. ASSUME NEW fd \in Fds, DispatchRead(fd) \/ DispatchWrite(fd) PROVE KernelInv'
  <2>1. /\ pc = "dispatch" /\ UNCHANGED <<serverVars, backlog, boundVars>>
        /\ halfway' \in SUBSET Fds
        /\ events' \in [Fds -> SUBSET Condition]
    BY <1>19, Zenon DEF DispatchRead, DispatchWrite, TableInv, KernelInv
  <2>2. pc' \in {"dispatch", "message", "closing"} \/ (pc' = "accept" /\ events'[Listen] # {})
    BY <1>19, <2>1, Zenon
    DEF DispatchRead, DispatchWrite, calls_on_read, handle_read, handle_write,
      CloseInHandler
  <2>3. /\ cond' \in [Fds -> SUBSET Condition] /\ cond'[Listen] = cond[Listen]
        /\ pend' \in SUBSET Fds /\ dropped' \in SUBSET Fds
    <3>1. CASE UNCHANGED <<registration, cond, dropped>>
      BY <1>0, <3>1, Zenon DEF registration, TableInv, KernelInv
    <3>2. CASE ~UNCHANGED <<registration, cond, dropped>>
      <4>1. fd \in Conns /\ (handle_read(fd) \/ handle_write(fd))
        BY <1>19, <3>2, Zenon DEF DispatchRead, DispatchWrite, Conns
      <4>2. PICK k \in SUBSET Condition : cond' = [cond EXCEPT ![fd] = k]
        <5>1. cond[fd] \in SUBSET Condition /\ cond = [cond EXCEPT ![fd] = cond[fd]]
          BY Zenon DEF TableInv, KernelInv
        <5>2. \/ cond' = [cond EXCEPT ![fd] = {}]
              \/ cond' = [cond EXCEPT ![fd] = @ \ {"in"}]
              \/ cond' = [cond EXCEPT ![fd] = @ \ {"out"}]
              \/ cond' = cond
          BY <4>1, Zenon DEF handle_read, handle_write, CloseInHandler, shut, ReadAll, Takes
        <5>3. /\ {} \in SUBSET Condition /\ cond[fd] \ {"in"} \in SUBSET Condition
              /\ cond[fd] \ {"out"} \in SUBSET Condition
          BY <5>1, Zenon
        <5> QED
          BY <5>1, <5>2, <5>3, Zenon
      <4>3. pend' \in SUBSET Fds /\ dropped' \in SUBSET Fds
        <5>1. CASE CloseInHandler(fd)
          BY <4>1, <5>1, KernelShut, Zenon DEF CloseInHandler
        <5>2. CASE ~CloseInHandler(fd)
          <6>1. /\ UNCHANGED dropped
                /\ UNCHANGED registration \/ update_channel(fd, {"READ"})
            BY <4>1, <5>2, WriteEffect, Zenon DEF handle_read
          <6> QED
            BY <1>0, <6>1, KernelArm, Zenon DEF registration, update_channel
        <5> QED
          BY <5>1, <5>2, Zenon
      <4> QED
        BY <4>1, <4>2, <4>3, Numbers, Zenon DEF TableInv, KernelInv
    <3> QED
      BY <3>1, <3>2, Zenon
  <2> QED
    BY <2>1, <2>2, <2>3, Zenon DEF TableInv, KernelInv, Places, serverVars, boundVars
<1>20. CASE UserStep
  BY <1>1, <1>2, <1>3, <1>5, <1>8, <1>9, <1>10, <1>18, <1>20, Zenon DEF UserStep
<1>21. CASE LoopStep
  BY <1>5, <1>6, <1>7, <1>8, <1>9, <1>11, <1>12, <1>13, <1>17, <1>19, <1>21, Zenon DEF LoopStep
<1> QED
  BY <1>14, <1>15, <1>16, <1>20, <1>21, Zenon DEF Next, PollStep, PeerStep

----------------------------------------------------------------------------
(* No edge is lost.                                                        *)

\* NoLostEdge for one connection, and for the listening socket.
EdgeAt(c) ==
  c \in connections /\ c \notin pend \cup dropped =>
    /\ cond[c] \cap {"in", "hup"} # {} => Upcoming(c, "READ")
    /\ unsent[c] # <<>> /\ "out" \in cond[c] => Upcoming(c, "WRITE")

ListenEdge ==
  started /\ backlog > 0 /\ Listen \notin pend \cup dropped =>
    \/ Upcoming(Listen, "READ")
    \/ pc \in {"accept", "made", "announce", "unwind"}

LEMMA EdgeParts ==
  ASSUME TableInv
  PROVE  NoLostEdge <=> ListenEdge /\ \A c \in Conns : EdgeAt(c)
<1>1. connections \subseteq Conns
  BY Zenon DEF TableInv, RegInv, TableAgrees
<1> QED
  BY <1>1, Zenon DEF NoLostEdge, EdgeAt, ListenEdge

\* The masks passed to epoll_ctl.
LEMMA Masks ==
  /\ to_epoll_events({"READ"}) = {"in", "hup"}
  /\ to_epoll_events({"WRITE"}) = {"out", "hup"}
  /\ to_epoll_events(Event) = {"in", "out", "hup"}
<1>1. Wakes("READ") = {"in", "hup"} /\ Wakes("WRITE") = {"out", "hup"}
  BY Zenon DEF Wakes
<1>2. /\ {Wakes(e) : e \in {"READ"}} = {{"in", "hup"}}
      /\ {Wakes(e) : e \in {"WRITE"}} = {{"out", "hup"}}
      /\ {Wakes(e) : e \in Event} = {{"in", "hup"}, {"out", "hup"}}
  BY <1>1, SMTT(30) DEF Event
<1> QED
  BY <1>2 DEF to_epoll_events

\* A step that brings connection c no condition, no queue and no new listing,
\* and that takes it off no list.
EdgeSame(c) ==
  /\ c \in connections' => c \in connections
  /\ c \in pend \cup dropped => c \in pend' \cup dropped'
  /\ cond'[c] \subseteq cond[c]
  /\ unsent[c] = <<>> => unsent'[c] = <<>>
  /\ events'[c] = events[c]
  /\ halfway' = {c} => halfway = {c}

LEMMA EdgeFrame ==
  ASSUME NEW c \in Conns, EdgeAt(c), EdgeSame(c)
  PROVE  EdgeAt(c)'
BY Zenon DEF EdgeAt, EdgeSame, Upcoming

ListenSame ==
  /\ started' => started
  /\ backlog' > 0 => backlog > 0
  /\ Listen \in pend \cup dropped => Listen \in pend' \cup dropped'
  /\ events'[Listen] = events[Listen]
  /\ halfway' = {Listen} => halfway = {Listen}
  /\ pc \in {"accept", "made", "announce", "unwind"}
       => pc' \in {"accept", "made", "announce", "unwind"}

LEMMA ListenFrame ==
  ASSUME ListenEdge, ListenSame
  PROVE  ListenEdge'
BY Zenon DEF ListenEdge, ListenSame, Upcoming

\* close() concerns the closed connection alone.
LEMMA EdgeShut ==
  ASSUME EdgeInv, NEW c \in Conns, shut(c), UNCHANGED <<events, started, backlog>>,
         halfway' = halfway \/ halfway' = {c},
         pc \in {"accept", "made", "announce", "unwind"}
           => pc' \in {"accept", "made", "announce", "unwind"}
  PROVE  ListenEdge' /\ \A d \in Conns : EdgeAt(d)'
<1>1. /\ connections' = connections \ {c} /\ pend' = pend \ {c} /\ dropped' = dropped \ {c}
      /\ \A fd \in Fds : fd # c => cond'[fd] = cond[fd]
      /\ \A d \in Conns : d # c => unsent'[d] = unsent[d]
  BY Zenon DEF shut, remove_channel, remove_channels, handle_close, EdgeInv, TableInv, KernelInv,
    BytesInv
<1>2. ListenEdge /\ \A d \in Conns : EdgeAt(d)
  BY EdgeParts, Zenon DEF EdgeInv
<1>3. ListenSame
  BY <1>1, Numbers, Zenon DEF ListenSame
<1>4. ASSUME NEW d \in Conns PROVE EdgeAt(d)'
  <2>1. CASE d = c
    BY <1>1, <2>1, Zenon DEF EdgeAt
  <2>2. CASE d # c
    <3>1. EdgeSame(d)
      BY <1>1, <2>2, Numbers, Zenon DEF EdgeSame
    <3> QED
      BY <1>2, <3>1, EdgeFrame, Zenon
  <2> QED
    BY <2>1, <2>2, Zenon
<1> QED
  BY <1>2, <1>3, <1>4, ListenFrame, Zenon

\* An exception that leaves dispatch_events() is counted against every entry
\* it drops.
LEMMA EdgeLeave ==
  ASSUME EdgeInv, LeaveDispatch,
         UNCHANGED <<registration, connections, unsent, started, backlog>>,
         \A fd \in Fds : cond'[fd] \subseteq cond[fd]
  PROVE  ListenEdge' /\ \A d \in Conns : EdgeAt(d)'
<1>1. ListenEdge /\ \A d \in Conns : EdgeAt(d)
  BY EdgeParts, Zenon DEF EdgeInv
<1>2. /\ connections \subseteq channels /\ (started => Listen \in channels)
      /\ Conns \subseteq Fds /\ Listen \in Fds
  BY Numbers, Zenon DEF EdgeInv, TableInv, RegInv, TableAgrees
<1>3. dropped' = dropped \cup {fd \in channels : events[fd] # {}} /\ UNCHANGED pend
  BY Zenon DEF LeaveDispatch, registration
<1>4. ASSUME NEW d \in Conns PROVE EdgeAt(d)'
  BY <1>1, <1>2, <1>3, Zenon DEF EdgeAt, Upcoming
<1>5. ListenEdge'
  BY <1>1, <1>2, <1>3, Zenon DEF ListenEdge, Upcoming, EdgeInv, TableInv, KernelInv
<1> QED
  BY <1>4, <1>5, Zenon

\* A connection whose interest is set anew is on the ready list if anything
\* it is watched for holds.
LEMMA EdgeArm ==
  ASSUME NEW c \in Conns, NEW ev \in {{"READ"}, Event}, ctl_arm(c, ev),
         cond'[c] \subseteq cond[c],
         ev = {"READ"} => unsent'[c] = <<>>
  PROVE  EdgeAt(c)'
<1>1. CASE Reported(c, ev) # {}
  BY <1>1, Zenon DEF ctl_arm, EdgeAt
<1>2. CASE Reported(c, ev) = {}
  <2>1. cond[c] \cap {"in", "hup"} = {} /\ (ev # {"READ"} => "out" \notin cond[c])
    BY <1>2, Masks, Zenon DEF Reported
  <2> QED
    BY <2>1, Zenon DEF EdgeAt
<1> QED
  BY <1>1, <1>2, Zenon

\* Steps that leave the connections' edges alone.
EdgesSame == ListenSame /\ \A c \in Conns : EdgeSame(c)

LEMMA EdgesFrame ==
  ASSUME EdgeInv, EdgesSame
  PROVE  ListenEdge' /\ \A c \in Conns : EdgeAt(c)'
<1>1. ListenEdge /\ \A c \in Conns : EdgeAt(c)
  BY EdgeParts, Zenon DEF EdgeInv
<1>2. ListenEdge'
  BY <1>1, ListenFrame, Zenon DEF EdgesSame
<1>3. ASSUME NEW c \in Conns PROVE EdgeAt(c)'
  BY <1>1, EdgeFrame, Zenon DEF EdgesSame
<1> QED
  BY <1>2, <1>3, Zenon

\* send() and handle_write() on c: its queue and its interest change together.
LEMMA EdgeUnits ==
  ASSUME EdgeInv, NEW c \in Conns, NEW d \in Conns, d # c, NEW t, NEW u, NEW n,
         UnitsBecome(c, t, u, n), UNCHANGED <<connections, dropped>>,
         pend' = pend \/ pend' = pend \cup {c},
         cond' \in {cond, [cond EXCEPT ![c] = @ \ {"out"}]},
         events'[d] = events[d], halfway' = {d} => halfway = {d}
  PROVE  EdgeAt(d)'
<1>1. EdgeAt(d)
  BY EdgeParts, Zenon DEF EdgeInv
<1>2. unsent'[d] = unsent[d]
  BY Zenon DEF UnitsBecome, EdgeInv, TableInv, BytesInv
<1>3. cond'[d] = cond[d]
  BY Numbers, Zenon DEF EdgeInv, TableInv, KernelInv
<1>4. EdgeSame(d)
  BY <1>2, <1>3, Zenon DEF EdgeSame
<1> QED
  BY <1>1, <1>4, EdgeFrame, Zenon

LEMMA EdgeSend ==
  ASSUME EdgeInv, NEW c \in Conns, NEW n \in Units, Send(c, n)
  PROVE  ListenEdge' /\ \A d \in Conns : EdgeAt(d)'
<1>0. TableInv /\ ListenEdge /\ \A d \in Conns : EdgeAt(d)
  BY EdgeParts, Zenon DEF EdgeInv
<1>1. UNCHANGED <<events, halfway, pc, started, backlog>>
  BY Zenon DEF Send, dispatching, serverVars
<1>2. CASE CloseInUserCode(c)
  BY <1>1, <1>2, EdgeShut, Zenon DEF CloseInUserCode
<1>3. CASE ~CloseInUserCode(c)
  <2>1. PICK t, u : /\ UnitsBecome(c, t, u, n)
                    /\ \/ u = <<>> /\ unsent[c] = <<>> /\ UNCHANGED registration
                       \/ u # <<>> /\ update_channel(c, Event)
    BY <1>0, <1>3, SendEffect, Zenon
  <2>2. /\ cond' \in {cond, [cond EXCEPT ![c] = @ \ {"out"}]}
        /\ UNCHANGED <<connections, dropped>>
    BY <1>0, <1>3, SendEffect, Zenon DEF tableVars
  <2>3. pend' = pend \/ pend' = pend \cup {c}
    BY <2>1, Zenon DEF registration, update_channel, ctl_arm
  <2>4. cond'[c] \subseteq cond[c] /\ unsent'[c] = u
    BY <2>1, <2>2, Numbers, SMTT(30) DEF UnitsBecome, EdgeInv, TableInv, BytesInv, KernelInv
  <2>5. ListenSame
    BY <1>1, <2>2, <2>3, Zenon DEF ListenSame
  <2>6. EdgeAt(c)'
    <3>1. CASE u = <<>> /\ UNCHANGED registration
      <4>1. EdgeSame(c)
        BY <1>1, <2>2, <2>4, <3>1, Zenon DEF EdgeSame, registration
      <4> QED
        BY <1>0, <4>1, EdgeFrame, Zenon
    <3>2. CASE u # <<>> /\ update_channel(c, Event)
      <4>1. Event # {"READ"} /\ ctl_arm(c, Event)
        BY <3>2, SMTT(30) DEF Event, update_channel
      <4> QED
        BY <2>4, <4>1, EdgeArm, Zenon
    <3> QED
      BY <2>1, <3>1, <3>2, Zenon
  <2>7. ASSUME NEW d \in Conns, d # c PROVE EdgeAt(d)'
    BY <1>1, <2>1, <2>2, <2>3, <2>7, EdgeUnits, Zenon
  <2> QED
    BY <1>0, <2>5, <2>6, <2>7, ListenFrame, Zenon
<1> QED
  BY <1>2, <1>3, Zenon

\* The read half of an array entry.
LEMMA EdgeRead ==
  ASSUME EdgeInv, NEW fd \in Fds, DispatchRead(fd)
  PROVE  ListenEdge' /\ \A d \in Conns : EdgeAt(d)'
<1>0. TableInv /\ ListenEdge /\ \A d \in Conns : EdgeAt(d)
  BY EdgeParts, Zenon DEF EdgeInv
<1>1. /\ pc = "dispatch" /\ halfway = {} /\ halfway' = {fd}
      /\ UNCHANGED <<events, started, backlog>>
  BY Zenon DEF DispatchRead, serverVars
<1>2. /\ connections \subseteq channels /\ (started => Listen \in channels)
      /\ Conns \subseteq Fds /\ Listen \in Fds /\ Listen \notin Conns
  BY Numbers, Zenon DEF EdgeInv, TableInv, RegInv, TableAgrees
<1>3. CASE UNCHANGED <<registration, cond, tableVars, bufferVars, dropped>>
           /\ (calls_on_read(fd) => fd = Listen /\ pc' = "accept")
  <2>1. UNCHANGED <<pend, dropped, cond, connections, unsent>>
    BY <1>3, Zenon DEF registration, tableVars, bufferVars
  <2>2. ASSUME NEW d \in Conns PROVE EdgeAt(d)'
    BY <1>0, <1>1, <1>2, <1>3, <2>1, Masks, Zenon DEF EdgeAt, Upcoming, calls_on_read
  <2>3. ListenEdge'
    BY <1>0, <1>1, <1>2, <1>3, <2>1, Masks, Zenon DEF ListenEdge, Upcoming, calls_on_read
  <2> QED
    BY <2>2, <2>3, Zenon
<1>4. CASE fd # Listen /\ handle_read(fd)
  <2>1. fd \in Conns
    BY <1>4, Zenon DEF Conns
  <2>2. CASE CloseInHandler(fd)
    BY <1>1, <2>1, <2>2, EdgeShut, Zenon DEF CloseInHandler
  <2>3. CASE ~CloseInHandler(fd)
    <3>1. /\ "hup" \notin cond[fd] /\ cond' = [cond EXCEPT ![fd] = @ \ {"in"}]
          /\ UNCHANGED <<pend, connections, unsent, dropped>>
      BY <1>4, <2>3, Zenon DEF handle_read, Ended, ReadAll, registration, tableVars, bufferVars
    <3>2. /\ cond'[fd] = cond[fd] \ {"in"}
          /\ \A d \in Conns : d # fd => cond'[d] = cond[d]
      BY <1>2, <3>1, Zenon DEF TableInv, EdgeInv, KernelInv
    <3>3. EdgeAt(fd)'
      BY <1>0, <1>1, <2>1, <3>1, <3>2, Zenon DEF EdgeAt, Upcoming
    <3>4. ASSUME NEW d \in Conns, d # fd PROVE EdgeAt(d)'
      <4>1. EdgeSame(d)
        BY <1>1, <3>1, <3>2, <3>4, Zenon DEF EdgeSame
      <4> QED
        BY <1>0, <4>1, EdgeFrame, Zenon
    <3>5. ListenSame
      BY <1>1, <1>4, <3>1, Zenon DEF ListenSame
    <3> QED
      BY <1>0, <3>3, <3>4, <3>5, ListenFrame, Zenon
  <2> QED
    BY <2>2, <2>3, Zenon
<1> QED
  BY <1>3, <1>4, Zenon DEF DispatchRead

\* The write half: whatever the entry was for has been dealt with.
LEMMA EdgeWrite ==
  ASSUME EdgeInv, NEW fd \in Fds, DispatchWrite(fd)
  PROVE  ListenEdge' /\ \A d \in Conns : EdgeAt(d)'
<1>0. TableInv /\ ListenEdge /\ \A d \in Conns : EdgeAt(d)
  BY EdgeParts, Zenon DEF EdgeInv
<1>1. /\ pc = "dispatch" /\ halfway = {fd} /\ halfway' = {}
      /\ events' = [events EXCEPT ![fd] = {}]
      /\ UNCHANGED <<started, backlog>>
  BY Zenon DEF DispatchWrite, serverVars
<1>2. /\ connections \subseteq channels /\ (started => Listen \in channels)
      /\ Conns \subseteq Fds /\ Listen \in Fds /\ Listen \notin Conns
  BY Numbers, Zenon DEF EdgeInv, TableInv, RegInv, TableAgrees
<1>3. \A d \in Fds : d # fd => events'[d] = events[d]
  BY <1>1, Zenon DEF TableInv, KernelInv, EdgeInv
<1>4. /\ fd = Listen => ~(started /\ backlog > 0 /\ Listen \notin pend \cup dropped)
      /\ fd \in Conns /\ fd \in connections /\ fd \notin pend \cup dropped
           => cond[fd] \cap {"in", "hup"} = {}
  BY <1>0, <1>1, Zenon DEF ListenEdge, EdgeAt, Upcoming
<1>5. CASE UNCHANGED <<registration, cond, tableVars, bufferVars, dropped>>
           /\ (calls_on_write(fd) => fd = Listen)
  <2>1. UNCHANGED <<pend, dropped, cond, connections, unsent>>
    BY <1>5, Zenon DEF registration, tableVars, bufferVars
  <2>2. ASSUME NEW d \in Conns PROVE EdgeAt(d)'
    <3>1. CASE d # fd
      <4>1. EdgeSame(d)
        BY <1>1, <1>2, <1>3, <2>1, <3>1, Zenon DEF EdgeSame
      <4> QED
        BY <1>0, <4>1, EdgeFrame, Zenon
    <3>2. CASE d = fd
      BY <1>0, <1>2, <1>4, <1>5, <2>1, <3>2, Masks, Zenon DEF EdgeAt, Upcoming, calls_on_write
    <3> QED
      BY <3>1, <3>2, Zenon
  <2>3. ListenEdge'
    <3>1. CASE fd # Listen
      <4>1. ListenSame
        BY <1>1, <1>2, <1>3, <2>1, <3>1, Zenon DEF ListenSame
      <4> QED
        BY <1>0, <4>1, ListenFrame, Zenon
    <3>2. CASE fd = Listen
      BY <1>1, <1>4, <2>1, <3>2, Zenon DEF ListenEdge
    <3> QED
      BY <3>1, <3>2, Zenon
  <2> QED
    BY <2>2, <2>3, Zenon
<1>6. CASE fd # Listen /\ handle_write(fd)
  <2>1. fd \in Conns
    BY <1>6, Zenon DEF Conns
  <2>2. CASE CloseInHandler(fd)
    <3>1. shut(fd)
      BY <2>2, Zenon DEF CloseInHandler
    <3>2. /\ connections' = connections \ {fd} /\ pend' = pend \ {fd}
          /\ dropped' = dropped \ {fd}
          /\ \A d \in Fds : d # fd => cond'[d] = cond[d]
          /\ \A d \in Conns : d # fd => unsent'[d] = unsent[d]
      BY <3>1, Zenon DEF shut, remove_channel, remove_channels, handle_close, TableInv, EdgeInv,
        KernelInv, BytesInv
    <3>3. ASSUME NEW d \in Conns PROVE EdgeAt(d)'
      <4>1. CASE d = fd
        BY <3>2, <4>1, Zenon DEF EdgeAt
      <4>2. CASE d # fd
        <5>1. EdgeSame(d)
          BY <1>1, <1>2, <1>3, <3>2, <4>2, Zenon DEF EdgeSame
        <5> QED
          BY <1>0, <5>1, EdgeFrame, Zenon
      <4> QED
        BY <4>1, <4>2, Zenon
    <3>4. ListenSame
      BY <1>1, <1>2, <1>3, <1>6, <3>2, Zenon DEF ListenSame
    <3> QED
      BY <1>0, <3>3, <3>4, ListenFrame, Zenon
  <2>3. CASE ~CloseInHandler(fd)
    <3>1. PICK t, u : /\ UnitsBecome(fd, t, u, 0)
                      /\ \/ u = <<>> /\ update_channel(fd, {"READ"})
                         \/ u # <<>> /\ unsent[fd] # <<>> /\ UNCHANGED registration
                      /\ \/ cond' = [cond EXCEPT ![fd] = @ \ {"out"}]
                         \/ u = <<>> /\ UNCHANGED cond
      BY <1>0, <1>6, <2>1, <2>3, WriteEffect, Zenon
    <3>2. UNCHANGED <<connections, dropped>>
      BY <1>0, <1>6, <2>1, <2>3, WriteEffect, Zenon DEF tableVars
    <3>3. pend' = pend \/ pend' = pend \cup {fd}
      BY <3>1, Zenon DEF registration, update_channel, ctl_arm
    <3>4. /\ cond' \in {cond, [cond EXCEPT ![fd] = @ \ {"out"}]}
          /\ cond'[fd] \subseteq cond[fd] /\ unsent'[fd] = u
          /\ u = <<>> \/ "out" \notin cond'[fd]
      BY <2>1, <3>1, Zenon DEF UnitsBecome, TableInv, EdgeInv, BytesInv, KernelInv
    <3>5. EdgeAt(fd)'
      BY <1>4, <2>1, <3>2, <3>3, <3>4, Zenon DEF EdgeAt
    <3>6. ASSUME NEW d \in Conns, d # fd PROVE EdgeAt(d)'
      <4>1. events'[d] = events[d] /\ halfway' # {d}
        BY <1>1, <1>2, <1>3, <3>6, Zenon
      <4> QED
        BY <2>1, <3>1, <3>2, <3>3, <3>4, <3>6, <4>1, EdgeUnits, Zenon
    <3>7. ListenSame
      BY <1>1, <1>2, <1>3, <1>6, <3>2, <3>3, Zenon DEF ListenSame
    <3> QED
      BY <1>0, <3>5, <3>6, <3>7, ListenFrame, Zenon
  <2> QED
    BY <2>2, <2>3, Zenon
<1> QED
  BY <1>5, <1>6, Zenon DEF DispatchWrite

\* epoll_wait moves what it reports from the ready list to the array.
LEMMA EdgePoll ==
  ASSUME EdgeInv, NEW batch \in SUBSET Deliverable, Poll(batch)
  PROVE  ListenEdge' /\ \A d \in Conns : EdgeAt(d)'
<1>0. TableInv /\ ListenEdge /\ \A d \in Conns : EdgeAt(d)
  BY EdgeParts, Zenon DEF EdgeInv
<1>1. /\ pc = "poll" /\ events = NoEvents /\ halfway' = {}
      /\ events' = [fd \in Fds |->
                      IF fd \in batch THEN Reported(fd, interest[fd]) ELSE {}]
      /\ pend' = pend \ batch /\ dropped' = dropped \ batch
      /\ UNCHANGED <<cond, connections, unsent, started, backlog>>
  BY Zenon DEF Poll, epoll_wait_events, EdgeInv, TableInv, KernelInv, tableVars, bufferVars,
    serverVars
<1>2. Conns \subseteq Fds /\ Listen \in Fds /\ \A fd \in Fds : events[fd] = {}
  BY <1>1, Numbers, Zenon DEF NoEvents
<1>3. ASSUME NEW d \in Conns PROVE EdgeAt(d)'
  <2>1. CASE d \notin batch
    BY <1>0, <1>1, <1>2, <2>1, Zenon DEF EdgeAt, Upcoming
  <2>2. CASE d \in batch /\ d \in connections
    <3>1. /\ events'[d] = cond[d] \cap to_epoll_events(interest[d])
          /\ interest[d] = IF unsent[d] = <<>> THEN {"READ"} ELSE Event
          /\ halfway' # {d}
      BY <1>1, <1>2, <2>2, Zenon DEF Reported, TableInv, EdgeInv, RegInv, TableAgrees
    <3>2. cond[d] \cap {"in", "hup"} # {} => events'[d] \cap to_epoll_events({"READ"}) # {}
      BY <3>1, Masks, Zenon
    <3>3. unsent[d] # <<>> /\ "out" \in cond[d]
            => events'[d] \cap to_epoll_events({"WRITE"}) # {}
      BY <3>1, Masks, Zenon
    <3> QED
      BY <1>1, <3>1, <3>2, <3>3, Zenon DEF EdgeAt, Upcoming
  <2> QED
    BY <1>1, <2>1, <2>2, Zenon DEF EdgeAt
<1>4. ListenEdge'
  <2>1. CASE Listen \notin batch
    BY <1>0, <1>1, <1>2, <2>1, Zenon DEF ListenEdge, Upcoming
  <2>2. CASE Listen \in batch /\ started /\ backlog > 0
    <3>1. /\ events'[Listen] = cond[Listen] \cap to_epoll_events({"READ"})
          /\ "in" \in cond[Listen]
      BY <1>1, <1>2, <2>2, Zenon DEF Reported, TableInv, EdgeInv, RegInv, KernelInv
    <3> QED
      BY <1>1, <3>1, Masks, Zenon DEF ListenEdge, Upcoming
  <2> QED
    BY <1>1, <2>1, <2>2, Zenon DEF ListenEdge
<1> QED
  BY <1>3, <1>4, Zenon

\* Arrivals go on the ready list when the descriptor is watched for them.
LEMMA EdgeArrive ==
  ASSUME EdgeInv, Connect \/ \E c \in Conns, what \in Condition : PeerActs(c, what)
  PROVE  ListenEdge' /\ \A d \in Conns : EdgeAt(d)'
<1>0. TableInv /\ ListenEdge /\ \A d \in Conns : EdgeAt(d)
  BY EdgeParts, Zenon DEF EdgeInv
<1>1. Conns \subseteq Fds /\ Listen \in Fds /\ Listen \notin Conns
  BY Numbers, Zenon
<1>2. ASSUME Connect PROVE ListenEdge' /\ \A d \in Conns : EdgeAt(d)'
  <2>1. /\ cond' = [cond EXCEPT ![Listen] = @ \cup {"in"}]
        /\ pend' = IF Listen \in watched /\ "in" \in to_epoll_events(interest[Listen])
                     THEN pend \cup {Listen} ELSE pend
        /\ UNCHANGED <<events, halfway, connections, unsent, dropped, started>>
    BY <1>2, Zenon DEF Connect, Arrive, tableVars, bufferVars, serverVars
  <2>2. started => Listen \in pend'
    BY <2>1, Masks, Zenon DEF TableInv, EdgeInv, RegInv, TableAgrees
  <2>3. ASSUME NEW d \in Conns PROVE EdgeAt(d)'
    <3>1. cond'[d] = cond[d]
      BY <1>1, <2>1, Zenon DEF TableInv, EdgeInv, KernelInv
    <3>2. EdgeSame(d)
      BY <1>1, <2>1, <3>1, Zenon DEF EdgeSame
    <3> QED
      BY <1>0, <3>2, EdgeFrame, Zenon
  <2> QED
    BY <2>1, <2>2, <2>3, Zenon DEF ListenEdge
<1>3. ASSUME NEW c \in Conns, NEW what \in Condition, PeerActs(c, what)
      PROVE  ListenEdge' /\ \A d \in Conns : EdgeAt(d)'
  <2>1. /\ cond' = [cond EXCEPT ![c] = @ \cup {what}]
        /\ pend' = IF c \in watched /\ what \in to_epoll_events(interest[c])
                     THEN pend \cup {c} ELSE pend
        /\ UNCHANGED <<events, halfway, connections, unsent, dropped, started, backlog, pc>>
    BY <1>3, Zenon DEF PeerActs, Arrive, tableVars, bufferVars, serverVars
  <2>2. /\ c \in watched /\ c \in connections
        /\ interest[c] = IF unsent[c] = <<>> THEN {"READ"} ELSE Event
    BY <1>3, Zenon DEF PeerActs, TableInv, EdgeInv, RegInv, TableAgrees
  <2>3. cond'[c] = cond[c] \cup {what} /\ \A d \in Conns : d # c => cond'[d] = cond[d]
    BY <1>1, <2>1, Zenon DEF TableInv, EdgeInv, KernelInv
  <2>4. c \in pend' \/ (what = "out" /\ unsent[c] = <<>> /\ pend' = pend)
    BY <2>1, <2>2, Masks, Zenon DEF Condition
  <2>5. EdgeAt(c)'
    <3>1. CASE c \in pend'
      BY <3>1, Zenon DEF EdgeAt
    <3>2. CASE what = "out" /\ unsent[c] = <<>> /\ pend' = pend
      <4>1. cond'[c] \cap {"in", "hup"} = cond[c] \cap {"in", "hup"}
        BY <2>3, <3>2, Zenon
      <4> QED
        BY <1>0, <2>1, <3>2, <4>1, Zenon DEF EdgeAt, Upcoming
    <3> QED
      BY <2>4, <3>1, <3>2, Zenon
  <2>6. ASSUME NEW d \in Conns, d # c PROVE EdgeAt(d)'
    <3>1. EdgeSame(d)
      BY <2>1, <2>3, <2>6, Zenon DEF EdgeSame
    <3> QED
      BY <1>0, <3>1, EdgeFrame, Zenon
  <2>7. ListenSame
    BY <2>1, Zenon DEF ListenSame
  <2> QED
    BY <1>0, <2>5, <2>6, <2>7, ListenFrame, Zenon
<1> QED
  BY <1>2, <1>3, Zenon

KeepsEdges == ListenEdge' /\ \A c \in Conns : EdgeAt(c)'

LEMMA EdgeStep ==
  ASSUME EdgeInv, Next
  PROVE  KeepsEdges
<1>0. /\ TableInv /\ ListenEdge /\ \A c \in Conns : EdgeAt(c)
      /\ Conns \subseteq Fds /\ Listen \in Fds /\ Listen \notin Conns
      /\ pc \in InCallback => cur \in Conns
      /\ connections \subseteq Conns
  BY EdgeParts, Numbers, Zenon DEF EdgeInv, TableInv, OwnInv, InCallback, RegInv, TableAgrees
<1>1. ASSUME NEW c \in Conns, Close(c) PROVE KeepsEdges
  BY <1>1, EdgeShut, Zenon DEF KeepsEdges, Close, CloseInUserCode, dispatching, serverVars
<1>2. ASSUME NEW c \in Conns, Release(c) PROVE KeepsEdges
  <2>1. EdgesSame
    BY <1>2, Zenon DEF Release, EdgesSame, EdgeSame, ListenSame, loopVars, bufferVars, serverVars
  <2> QED
    BY <2>1, EdgesFrame, Zenon DEF KeepsEdges
<1>3. ASSUME CallbackThrows PROVE KeepsEdges
  <2>1. PICK c \in Conns : c = cur
    BY <1>0, <1>3, Zenon DEF CallbackThrows, InCallback
  <2>2. /\ shut(c) /\ pc' = "unwind" /\ UNCHANGED <<events, halfway, started, backlog>>
    BY <1>3, <2>1, Zenon DEF CallbackThrows, dispatching, serverVars
  <2> QED
    BY <2>2, EdgeShut, Zenon DEF KeepsEdges
<1>4. ASSUME NEW from, Throw(from) PROVE KeepsEdges
  BY <1>4, EdgeLeave, Zenon DEF KeepsEdges, Throw, bufferVars, serverVars
<1>5. ASSUME MakeThrows PROVE KeepsEdges
  <2>1. cur \in Conns /\ cond' = [cond EXCEPT ![cur] = {}]
    BY <1>0, <1>5, Zenon DEF MakeThrows, InCallback
  <2>2. \A fd \in Fds : cond'[fd] \subseteq cond[fd]
    BY <2>1, Zenon DEF EdgeInv, TableInv, KernelInv
  <2> QED
    BY <1>5, <2>2, EdgeLeave, Zenon DEF KeepsEdges, MakeThrows, bufferVars, serverVars
<1>6. ASSUME Run \/ Stop \/ RunReturns \/ DispatchDone \/ Return PROVE KeepsEdges
  <2>1. /\ UNCHANGED <<loopVars, connections, bufferVars, started, backlog, dropped>>
        /\ pc \in {"accept", "made", "announce", "unwind"} => pc' = "accept"
    BY <1>6, Zenon DEF Run, Stop, RunReturns, DispatchDone, Return, tableVars, serverVars
  <2>2. EdgesSame
    BY <2>1, Zenon DEF EdgesSame, EdgeSame, ListenSame, loopVars, bufferVars
  <2> QED
    BY <2>2, EdgesFrame, Zenon DEF KeepsEdges
<1>7. ASSUME StartThrows PROVE KeepsEdges
  <2>1. cur \in Conns /\ cond' = [cond EXCEPT ![cur] = {}]
    BY <1>0, <1>7, Zenon DEF StartThrows, InCallback
  <2>2. \A fd \in Fds : cond'[fd] \subseteq cond[fd]
    BY <2>1, Zenon DEF EdgeInv, TableInv, KernelInv
  <2>3. EdgesSame
    BY <1>0, <1>7, <2>2, Zenon
    DEF StartThrows, EdgesSame, EdgeSame, ListenSame, registration, dispatching,
      bufferVars, serverVars
  <2> QED
    BY <2>3, EdgesFrame, Zenon DEF KeepsEdges
<1>8. ASSUME Start PROVE KeepsEdges
  <2>1. /\ pend' = IF Reported(Listen, {"READ"}) = {} THEN pend ELSE pend \cup {Listen}
        /\ UNCHANGED <<cond, events, halfway, pc, connections, unsent, backlog, dropped>>
        /\ alive
    BY <1>8, Zenon DEF Start, add_channel, ctl_arm, dispatching, tableVars, bufferVars
  <2>2. backlog > 0 => Listen \in pend'
    BY <2>1, Masks, Zenon DEF Reported, EdgeInv, TableInv, KernelInv
  <2>3. ListenEdge'
    BY <2>1, <2>2, Zenon DEF ListenEdge
  <2>4. ASSUME NEW c \in Conns PROVE EdgeAt(c)'
    <3>1. EdgeSame(c)
      BY <1>0, <2>1, Zenon DEF EdgeSame
    <3> QED
      BY <1>0, <3>1, EdgeFrame, Zenon
  <2> QED
    BY <2>3, <2>4, Zenon DEF KeepsEdges
<1>9. ASSUME NEW failed \in BOOLEAN, AcceptEnds(failed) PROVE KeepsEdges
  <2>1. /\ UNCHANGED <<pend, cond, events, halfway, connections, unsent, backlog, started>>
        /\ dropped' = IF backlog > 0 THEN dropped \cup {Listen} ELSE dropped
    BY <1>9, Zenon DEF AcceptEnds, loopVars, tableVars, bufferVars, serverVars
  <2>2. ListenEdge'
    BY <2>1, Zenon DEF ListenEdge
  <2>3. ASSUME NEW c \in Conns PROVE EdgeAt(c)'
    <3>1. EdgeSame(c)
      BY <1>0, <2>1, Zenon DEF EdgeSame
    <3> QED
      BY <1>0, <3>1, EdgeFrame, Zenon
  <2> QED
    BY <2>2, <2>3, Zenon DEF KeepsEdges
<1>10. ASSUME NEW c \in Conns, Accept(c) PROVE KeepsEdges
  <2>1. PICK first : cond' = [cond EXCEPT ![c] = first,
                                          ![Listen] = IF backlog = 1 THEN {} ELSE @]
    BY <1>10, Zenon DEF Accept
  <2>2. /\ pc' = "made" /\ c \notin used
        /\ UNCHANGED <<pend, events, halfway, connections, unsent, dropped>>
    BY <1>10, Zenon DEF Accept, registration, dispatching, bufferVars
  <2>3. c \notin connections
    BY <2>2, Zenon DEF EdgeInv, TableInv, RegInv, TableAgrees, OwnInv, NumbersOwned
  <2>4. \A d \in Conns : d # c => cond'[d] = cond[d]
    BY <1>0, <2>1, Zenon DEF EdgeInv, TableInv, KernelInv
  <2>5. ASSUME NEW d \in Conns PROVE EdgeAt(d)'
    <3>1. CASE d = c
      BY <2>2, <2>3, <3>1, Zenon DEF EdgeAt
    <3>2. CASE d # c
      <4>1. EdgeSame(d)
        BY <2>2, <2>4, <3>2, Zenon DEF EdgeSame
      <4> QED
        BY <1>0, <4>1, EdgeFrame, Zenon
    <3> QED
      BY <3>1, <3>2, Zenon
  <2> QED
    BY <2>2, <2>5, Zenon DEF KeepsEdges, ListenEdge
<1>11. ASSUME Announce PROVE KeepsEdges
  <2>1. PICK c \in Conns : c = cur
    BY <1>0, <1>11, Zenon DEF Announce, InCallback
  <2>2. /\ pc = "made" /\ pc' = "announce" /\ ctl_arm(c, {"READ"})
        /\ connections' = connections \cup {c}
        /\ UNCHANGED <<cond, events, halfway, unsent, dropped>>
    BY <1>11, <2>1, Zenon DEF Announce, Open, add_channel, dispatching, bufferVars
  <2>3. unsent'[c] = <<>>
    BY <2>1, <2>2, Zenon DEF EdgeInv, TableInv, OwnInv, BytesInv
  <2>4. EdgeAt(c)'
    BY <2>2, <2>3, EdgeArm, Zenon
  <2>5. ASSUME NEW d \in Conns, d # c PROVE EdgeAt(d)'
    <3>1. EdgeSame(d)
      BY <2>2, <2>5, Zenon DEF EdgeSame, ctl_arm
    <3> QED
      BY <1>0, <3>1, EdgeFrame, Zenon
  <2> QED
    BY <2>2, <2>4, <2>5, Zenon DEF KeepsEdges, ListenEdge
<1>12. ASSUME DestroyServer PROVE KeepsEdges
  BY <1>12, Zenon DEF KeepsEdges, DestroyServer, ListenEdge, EdgeAt
<1>13. CASE UserStep
  <2>1. ASSUME NEW c \in Conns, NEW n \in Units, Send(c, n) PROVE KeepsEdges
    BY <2>1, EdgeSend, Zenon DEF KeepsEdges
  <2> QED
    BY <1>1, <1>2, <1>3, <1>4, <1>6, <1>8, <1>12, <1>13, <2>1, Zenon DEF UserStep
<1>14. CASE LoopStep
  <2>1. ASSUME NEW fd \in Fds, DispatchRead(fd) \/ DispatchWrite(fd) PROVE KeepsEdges
    BY <2>1, EdgeRead, EdgeWrite, Zenon DEF KeepsEdges
  <2> QED
    BY <1>4, <1>5, <1>6, <1>7, <1>9, <1>10, <1>11, <1>14, <2>1, Zenon DEF LoopStep
<1>15. CASE PollStep
  BY <1>15, EdgePoll, Zenon DEF PollStep, KeepsEdges
<1>16. CASE PeerStep
  BY <1>16, EdgeArrive, Zenon DEF PeerStep, KeepsEdges
<1> QED
  BY <1>13, <1>14, <1>15, <1>16, Zenon DEF Next

----------------------------------------------------------------------------
(* The invariant holds.                                                    *)

LEMMA EdgeInit ==
  ASSUME Init
  PROVE  EdgeInv
<1>1. Listen \in Fds /\ MaxConns \in Nat /\ MaxUnits \in Nat /\ Listen \notin Conns
  BY Numbers, Zenon
<1>2. RegInv
  BY Zenon DEF Init, RegInv, TableAgrees, NoEvents
<1>3. BytesInv
  <2>1. <<>> \in Seq(Nat) /\ Numbered(<<>>, <<>>) /\ Total(<<>>, <<>>) = 0
    BY EmptySeq DEF Numbered, Total
  <2>2. \A c \in Conns : unsent[c] = <<>> /\ sent[c] = <<>>
    BY Zenon DEF Init
  <2> QED
    BY <1>1, <2>1, <2>2 DEF Init, BytesInv
<1>4. OwnInv
  <2>1. /\ conn = [c \in Conns |-> "none"] /\ told = [c \in Conns |-> 0]
        /\ used = {Listen} /\ leaked = {} /\ alive = TRUE /\ pc = "idle" /\ cur = None
    BY Zenon DEF Init
  <2>2. NumbersOwned /\ ToldOnce
    BY <2>1, Zenon DEF NumbersOwned, ToldOnce
  <2>3. conn \in [Conns -> {"none", "open", "closed"}] /\ told \in [Conns -> 0..1]
    BY <2>1
  <2> QED
    BY <2>1, <2>2, <2>3, Zenon DEF OwnInv
<1>5. KernelInv
  <2>1. /\ cond = NoEvents /\ events = NoEvents /\ halfway = {} /\ pend = {} /\ dropped = {}
        /\ pc = "idle" /\ running = FALSE /\ started = FALSE /\ opened = 0 /\ backlog = 0
    BY Zenon DEF Init
  <2>2. NoEvents \in [Fds -> SUBSET Condition]
    BY Zenon DEF NoEvents
  <2>3. opened \in 0..MaxConns /\ backlog \in 0..opened
    BY <1>1, <2>1
  <2>4. ~(backlog > 0)
    BY <2>1
  <2>5. running \in BOOLEAN /\ ~started
    BY <2>1, Zenon
  <2>6. /\ pc \in Places /\ pc \notin {"accept", "made", "announce", "unwind"}
        /\ pend \in SUBSET Fds /\ halfway \in SUBSET Fds /\ dropped \in SUBSET Fds
        /\ cond \in [Fds -> SUBSET Condition] /\ events \in [Fds -> SUBSET Condition]
    BY <2>1, <2>2, Zenon DEF Places
  <2>7. events = NoEvents /\ halfway = {}
    BY <2>1, Zenon
  <2> QED
    BY <2>3, <2>4, <2>5, <2>6, <2>7, Zenon DEF KernelInv
<1>6. NoLostEdge
  BY Zenon DEF Init, NoLostEdge
<1> QED
  BY <1>2, <1>3, <1>4, <1>5, <1>6, Zenon DEF EdgeInv, TableInv

LEMMA EdgeStutter ==
  ASSUME EdgeInv, UNCHANGED vars
  PROVE  EdgeInv'
<1>1. UNCHANGED <<channels, watched, interest, cond, pend, events, halfway, pc, cur>>
  BY Zenon DEF vars, loopVars
<1>2. UNCHANGED <<connections, conn, told, used, unsent, sent, given, running, alive,
               started>>
  BY Zenon DEF vars, tableVars, bufferVars, serverVars
<1>3. UNCHANGED <<backlog, opened, handed, leaked, dropped>>
  BY Zenon DEF vars, boundVars
<1>4. RegInv' /\ BytesInv'
  <2>1. Quiet
    BY <1>1, <1>2, <1>3, Zenon DEF Quiet
  <2> QED
    BY <2>1, QuietKeeps, Zenon DEF EdgeInv
<1>5. OwnInv'
  BY <1>1, <1>2, <1>3, Zenon DEF EdgeInv, TableInv, OwnInv, NumbersOwned, ToldOnce
<1>6. KernelInv'
  BY <1>1, <1>2, <1>3, Zenon DEF EdgeInv, TableInv, KernelInv
<1>7. NoLostEdge'
  BY <1>1, <1>2, <1>3, Zenon DEF EdgeInv, NoLostEdge, Upcoming
<1> QED
  BY <1>4, <1>5, <1>6, <1>7, Zenon DEF EdgeInv, TableInv

LEMMA EdgeNext ==
  ASSUME EdgeInv, Next
  PROVE  EdgeInv'
<1>1. TableInv'
  BY TableStep, OwnStep, KernelStep, Zenon DEF EdgeInv, TableInv
<1>2. KeepsEdges
  BY EdgeStep, Zenon
<1>3. connections' \subseteq Conns
  BY <1>1, Zenon DEF TableInv, RegInv, TableAgrees
<1>4. NoLostEdge'
  BY <1>2, <1>3, Zenon DEF KeepsEdges, NoLostEdge, ListenEdge, EdgeAt
<1> QED
  BY <1>1, <1>4, Zenon DEF EdgeInv

LEMMA EdgeInvariant == Spec => []EdgeInv
<1>1. Init => EdgeInv
  BY EdgeInit, Zenon
<1>2. EdgeInv /\ [Next]_vars => EdgeInv'
  BY EdgeNext, EdgeStutter, Zenon
<1> QED
  BY <1>1, <1>2, PTL DEF Spec

----------------------------------------------------------------------------
(* What it shows.                                                          *)

\* Numbered units, no more than were handed over, are all within the bound.
LEMMA UnitsBounded ==
  ASSUME NEW s \in Seq(Nat), NEW u \in Seq(Nat), Numbered(s, u),
         Total(s, u) \in 0..MaxUnits
  PROVE  s \in Seq(Units) /\ u \in Seq(Units)
<1>1. /\ Len(s) \in Nat /\ s \in [1..Len(s) -> Nat]
      /\ Len(u) \in Nat /\ u \in [1..Len(u) -> Nat]
      /\ MaxUnits \in Nat /\ Len(s) + Len(u) <= MaxUnits
  BY LenProperties, Numbers DEF Total
<1>2. \A i \in 1..Len(s) : s[i] \in Units
  BY <1>1 DEF Numbered, Units
<1>3. \A i \in 1..Len(u) : u[i] \in Units
  BY <1>1 DEF Numbered, Units
<1>4. s \in [1..Len(s) -> Units] /\ u \in [1..Len(u) -> Units]
  BY <1>1, <1>2, <1>3, Zenon
<1>5. \A n \in Nat : \A f \in [1..n -> Units] : f \in Seq(Units)
  BY SeqDef
<1> QED
  BY <1>1, <1>4, <1>5, Zenon

\* The state of the server, its connections and the kernel keeps its types;
\* in particular no unit is made up: all those queued or taken were handed to
\* send().
THEOREM ReactorTypeCorrect == Spec => []TypeOK
<1>1. EdgeInv => TypeOK
  <2> SUFFICES ASSUME EdgeInv PROVE TypeOK
    BY Zenon
  <2>1. LoopTypeOK
    BY Zenon DEF LoopTypeOK, EdgeInv, TableInv, RegInv, TableAgrees, KernelInv
  <2>2. /\ unsent \in [Conns -> Seq(Units)]
        /\ sent \in [Conns -> Seq(Units)]
        /\ given \in [Conns -> 0..MaxUnits]
        /\ handed \in 0..MaxUnits
    <3>1. ASSUME NEW c \in Conns
          PROVE  /\ sent[c] \in Seq(Units) /\ unsent[c] \in Seq(Units)
                 /\ given[c] \in 0..MaxUnits
      <4>1. /\ sent[c] \in Seq(Nat) /\ unsent[c] \in Seq(Nat)
            /\ Numbered(sent[c], unsent[c]) /\ Total(sent[c], unsent[c]) = given[c]
            /\ given[c] \in 0..handed /\ handed \in 0..MaxUnits
        BY Zenon DEF EdgeInv, TableInv, BytesInv
      <4>2. given[c] \in 0..MaxUnits
        BY <4>1, Numbers, SMTT(30)
      <4> QED
        BY <4>1, <4>2, UnitsBounded, Zenon
    <3> QED
      BY <3>1, Zenon DEF EdgeInv, TableInv, BytesInv
  <2>3. /\ connections \in SUBSET Conns /\ used \in SUBSET Fds
        /\ pc = "made" => cur \in Conns
    BY Numbers, Zenon DEF EdgeInv, TableInv, RegInv, TableAgrees, OwnInv, NumbersOwned
  <2>4. backlog \in 0..MaxConns
    BY Numbers DEF EdgeInv, TableInv, KernelInv
  <2> QED
    BY <2>1, <2>2, <2>3, <2>4, Zenon
    DEF TypeOK, EdgeInv, TableInv, RegInv, OwnInv, KernelInv, Places
<1> QED
  BY <1>1, EdgeInvariant, PTL

\* connections_, channels_ and the epoll interest list hold the same
\* connections in every state, and WRITE is watched exactly while units are
\* queued.
THEOREM TableCorrect == Spec => []TableAgrees
<1>1. EdgeInv => TableAgrees
  BY Zenon DEF EdgeInv, TableInv, RegInv
<1> QED
  BY <1>1, EdgeInvariant, PTL

\* Every open descriptor has exactly the owners the code gives it: the only
\* number that is lost is that of a failed allocation in handle_accept().
THEOREM NumbersCorrect == Spec => []NumbersOwned
<1>1. EdgeInv => NumbersOwned
  BY Zenon DEF EdgeInv, TableInv, OwnInv
<1> QED
  BY <1>1, EdgeInvariant, PTL

\* handle_close() tells the user once of every connection that is closed.
THEOREM ToldOnceCorrect == Spec => []ToldOnce
<1>1. EdgeInv => ToldOnce
  BY Zenon DEF EdgeInv, TableInv, OwnInv
<1> QED
  BY <1>1, EdgeInvariant, PTL

\* send() and handle_write() keep every unit that send() was given for an open
\* connection, with the kernel or in the queue, once and in order: a partial
\* write loses none.
THEOREM OrderKept == Spec => []SendOrder
<1>1. ASSUME NEW s \in Seq(Nat), NEW u \in Seq(Nat), Numbered(s, u)
      PROVE  s \o u = [i \in 1..Total(s, u) |-> i]
  <2>1. Len(s) \in Nat /\ Len(u) \in Nat
    BY LenProperties, Zenon
  <2>2. /\ s \o u \in Seq(Nat) /\ Len(s \o u) = Len(s) + Len(u)
        /\ \A i \in 1..(Len(s) + Len(u)) :
             (s \o u)[i] = IF i <= Len(s) THEN s[i] ELSE u[i - Len(s)]
    BY ConcatProperties, Zenon
  <2>3. ASSUME NEW i \in 1..(Len(s) + Len(u)) PROVE (s \o u)[i] = i
    <3>1. CASE i <= Len(s)
      BY <1>1, <2>1, <2>2, <3>1 DEF Numbered
    <3>2. CASE ~(i <= Len(s))
      <4>1. i - Len(s) \in 1..Len(u)
        BY <2>1, <3>2
      <4>2. u[i - Len(s)] = Len(s) + (i - Len(s))
        BY <1>1, <4>1, Zenon DEF Numbered
      <4> QED
        BY <2>1, <2>2, <3>2, <4>2
    <3> QED
      BY <3>1, <3>2, Zenon
  <2>4. DOMAIN (s \o u) = 1..Len(s \o u)
        /\ s \o u \in [1..Len(s \o u) -> Nat]
    BY <2>2, LenProperties, Zenon
  <2> DEFINE v == s \o u
             w == [i \in 1..Total(s, u) |-> i]
  <2>5. Len(v) = Total(s, u) /\ \A i \in 1..Len(v) : v[i] = w[i]
    BY <2>2, <2>3, Zenon DEF Total
  <2> HIDE DEF v
  <2> QED
    BY <2>4, <2>5, Zenon DEF v
<1>2. EdgeInv => SendOrder
  <2> SUFFICES ASSUME EdgeInv, NEW c \in Conns
               PROVE  sent[c] \o unsent[c] = [i \in 1..given[c] |-> i]
    BY Zenon DEF SendOrder
  <2>1. /\ sent[c] \in Seq(Nat) /\ unsent[c] \in Seq(Nat)
        /\ Numbered(sent[c], unsent[c]) /\ Total(sent[c], unsent[c]) = given[c]
    BY Zenon DEF EdgeInv, TableInv, BytesInv
  <2> QED
    BY <1>1, <2>1, Zenon
<1> QED
  BY <1>2, EdgeInvariant, PTL

\* With edge-triggered epoll no input, hang-up, writable queue or waiting peer
\* is forgotten, except by an exception or a failing accept().
THEOREM ReactorEdgesKept == Spec => []NoLostEdge
<1>1. EdgeInv => NoLostEdge
  BY Zenon DEF EdgeInv
<1> QED
  BY <1>1, EdgeInvariant, PTL

\* dispatch_events() closes a connection only if it has ended itself, also
\* when its number was reused after the event was reported.
THEOREM HangupsReal == Spec => HangupIsReal
<1> DEFINE A == \A c \in Conns : pc = "dispatch" /\ conn[c] = "open" /\ conn'[c] # "open"
                                   => "hup" \in cond[c]
<1>1. EdgeInv /\ [Next]_vars => [A]_vars
  <2> SUFFICES ASSUME EdgeInv, Next, NEW c \in Conns, pc = "dispatch",
                      conn[c] = "open", conn'[c] # "open"
               PROVE  "hup" \in cond[c]
    BY Zenon
  <2>1. conn' # conn
    BY Zenon
  <2>2. PICK fd \in Fds : DispatchRead(fd) \/ DispatchWrite(fd)
    BY <2>1, Zenon
    DEF Next, UserStep, LoopStep, PollStep, PeerStep, Close, Release, Send, UserCode, Throw,
      CallbackThrows, Run, Stop, Start, DestroyServer, RunReturns, DispatchDone, Accept,
      AcceptEnds, Announce, MakeThrows, StartThrows, Return, Poll, Connect, PeerActs,
      tableVars
  <2>3. /\ fd \in Conns
        /\ \/ Ended(fd) /\ CloseInHandler(fd)
           \/ "hup" \in cond[fd] /\ CloseInHandler(fd)
    BY <2>1, <2>2, Zenon
    DEF DispatchRead, DispatchWrite, handle_read, handle_write, tableVars, Conns
  <2>4. c = fd
    BY <2>3, Zenon DEF CloseInHandler, EdgeInv, TableInv, OwnInv
  <2> QED
    BY <2>3, <2>4, Zenon DEF Ended
<1> QED
  BY <1>1, EdgeInvariant, PTL DEF Spec, HangupIsReal

=============================================================================
