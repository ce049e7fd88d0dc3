----------------------------- MODULE BoundedSet -----------------------------
(***************************************************************************)
(* What RegisterWifiEvent and UnRegisterWifiEvent of wifi_device.c promise *)
(* a client: a set of at most Capacity observers.                          *)
(***************************************************************************)
EXTENDS Naturals, FiniteSets

CONSTANTS Elements, Capacity

VARIABLE members

Init == members = {}

Insert(e) ==
  /\ e \notin members /\ Cardinality(members) < Capacity
  /\ members' = members \cup {e}

Remove(e) == e \in members /\ members' = members \ {e}

Next == \E e \in Elements : Insert(e) \/ Remove(e)

Spec == Init /\ [][Next]_members
=============================================================================
