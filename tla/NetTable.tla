------------------------------ MODULE NetTable ------------------------------
(***************************************************************************)
(* What AddDeviceConfig and RemoveDevice of wifi_device.c promise: a table *)
(* from network ids to networks, where a network gets the least free id.   *)
(***************************************************************************)
EXTENDS Naturals

CONSTANTS Ids, Nets, NoNet

VARIABLE table

Init == table = [id \in Ids |-> NoNet]

Add(net) ==
  \E id \in Ids :
    /\ table[id] = NoNet /\ \A j \in Ids : j < id => table[j] # NoNet
    /\ table' = [table EXCEPT ![id] = net]

Remove(id) == table' = [table EXCEPT ![id] = NoNet]

Next == (\E net \in Nets : Add(net)) \/ (\E id \in Ids : Remove(id))

Spec == Init /\ [][Next]_table
=============================================================================
