-------------------------- MODULE SessionRegistry --------------------------
(***************************************************************************)
(* What the relay promises about sessions, without dictionaries, threads   *)
(* or packets: ids are issued in increasing order, one at a time; an       *)
(* issued session joins once, while there is room, and leaves at most      *)
(* once, for good.                                                         *)
(***************************************************************************)
EXTENDS Integers, FiniteSets

CONSTANT MaxClients

VARIABLES
  live,     \* sessions connected now
  issued,   \* the highest id handed out
  pending   \* the session that was handed an id but has not joined, or 0

Init == live = {} /\ issued = 0 /\ pending = 0

Issue ==
  /\ pending = 0
  /\ issued' = issued + 1
  /\ pending' = issued + 1
  /\ UNCHANGED live

Join ==
  /\ pending # 0
  /\ Cardinality(live) < MaxClients
  /\ live' = live \cup {pending}
  /\ pending' = 0
  /\ UNCHANGED issued

Leave(s) ==
  /\ s \in live
  /\ live' = live \ {s}
  /\ UNCHANGED <<issued, pending>>

Next == Issue \/ Join \/ \E s \in live : Leave(s)

Spec == Init /\ [][Next]_<<live, issued, pending>>

============================================================================
