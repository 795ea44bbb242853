----------------------------- MODULE MCProcess -----------------------------
(* Small instances of the parts of a server process, for TLC.              *)
EXTENDS ServerProcess, TLC

CONSTANTS p1, t1, t2, t3, r1, r2

MCThreads == {t1, t2, t3}
OneHome   == [t \in MCThreads |-> p1]

(* The two commands of /recall may change places: Recall asks for one of   *)
(* them or for all.                                                        *)
MCRecalls == {r1, r2}
Alike     == Permutations(MCRecalls)

(* How far the clock of each part goes.  The limiter sees two windows of   *)
(* 3; an alert is inside the cooldown of one and outside that of another;  *)
(* the question of a chat lasts no tick, its caches one, its context two.  *)
Clocks == [limiter |-> 6, memory |-> 4, cooldowns |-> 3, chat |-> 2, sources |-> 2, recall |-> 1]
(* A message and a call of a source may be under way for one tick.         *)
Flights == [chat |-> 1, sources |-> 1]
(* Every message has both keywords, and none what is left of the long one. *)
Messages == {{"short", "long"}}
Failures == [sources |-> 1, workspace |-> 2, project |-> 1, recall |-> 1]
=============================================================================
