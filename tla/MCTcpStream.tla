---------------------------- MODULE MCTcpStream ----------------------------
(* Two tasks, a listener and two connections that share one descriptor      *)
(* number after the other: a read or write parked on the first is closed,   *)
(* and the second is made, before the parked task is resumed.               *)
EXTENDS TcpStream

MCSpawned == <<"t1", "t2">>

=============================================================================
