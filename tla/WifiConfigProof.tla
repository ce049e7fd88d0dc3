-------------------------- MODULE WifiConfigProof --------------------------
(***************************************************************************)
(* Proofs about WifiConfig for every set of tasks and networks and every   *)
(* table size.  The argument: whoever writes an entry holds the lock, an   *)
(* entry that is half written belongs to the holder, and AddDeviceConfig   *)
(* never chooses a valid one; so what ConnectTo has tested stays as it was *)
(* after the lock is released, unless networks are removed.                *)
(***************************************************************************)
EXTENDS WifiConfig, FiniteSetTheorems, TLAPS

\* The tasks inside the lock are its owner.
LockInv ==
  /\ depth = IF owner = NoTask THEN 0 ELSE 1
  /\ \A t \in Tasks : pc[t] \in Locked <=> owner = t

\* AddDeviceConfig after it has chosen its entry, and ConnectTo after it has
\* released the lock.
Writes(t) == pc[t] \in {"addKey", "addId"}
Joins(t) == pc[t] \in {"readSsid", "readKey", "connect"}

\* The entry being written has what was written so far, and is the least one
\* that may be free.
WriteInv ==
  \A t \in Tasks :
    /\ pc[t] \in {"addLock", "addFind", "addKey", "addId"} => arg[t] \in Nets
    /\ Writes(t) => /\ ssid[id[t]] = arg[t]
                    /\ \A j \in Ids : j < id[t] => Valid(j)
    /\ pc[t] = "addId" => key[id[t]] = arg[t]

\* A valid entry is whole, unless its key is just being written.
WholeInv ==
  \A i \in Ids :
    Valid(i) =>
      /\ ssid[i] \in Nets
      /\ (\A t \in Tasks : pc[t] = "addKey" => id[t] # i) => key[i] = ssid[i]

\* Without removals, the entry ConnectTo has tested stays valid and unwritten.
JoinInv ==
  ~removes =>
    \A t \in Tasks :
      /\ pc[t] \notin {"removeLock", "remove"}
      /\ Joins(t) =>
           /\ Valid(id[t]) /\ ssid[id[t]] = checked[t]
                /\ key[id[t]] = checked[t]
           /\ \A u \in Tasks : Writes(u) => id[u] # id[t]
      /\ pc[t] = "readKey" => cred[t][1] = checked[t]
      /\ pc[t] = "connect" => cred[t] = <<checked[t], checked[t]>>

IInv == TypeOK /\ LockInv /\ WriteInv /\ WholeInv /\ JoinInv
-----------------------------------------------------------------------------
USE NoTaskAssumption, NoNetAssumption, MaxConfigAssumption, PollLimitAssumption

\* What GetDeviceConfigs counts is a natural number.
LEMMA WrittenType == ASSUME NEW size \in Nat PROVE Written(size) \in Nat
<1>1. IsFiniteSet(Ids)
  BY FS_Interval DEF Ids
<1>2. Cardinality({i \in Ids : Valid(i)}) \in Nat
  <2>1. {i \in Ids : Valid(i)} \in SUBSET Ids
    OBVIOUS
  <2>2. IsFiniteSet({i \in Ids : Valid(i)})
    BY <1>1, <2>1, FS_Subset
  <2> QED BY <2>2, FS_CardinalityType
<1> QED BY <1>2 DEF Written

\* The end of a call types the locals of its task.
LEMMA ReturnTypes ==
  ASSUME TypeOK, NEW t \in Tasks, Return(t)
  PROVE  /\ pc' \in [Tasks -> Locked \cup Unlocked]
         /\ arg' \in [Tasks -> Content]
         /\ id' \in [Tasks -> Ids]
         /\ cred' \in [Tasks -> Content \X Content]
         /\ checked' \in [Tasks -> Content]
         /\ n' \in [Tasks -> Nat]
  BY DEF TypeOK, Return, GoTo, Unlocked, Content, Ids

LEMMA InitIInv == Init => IInv
<1> SUFFICES ASSUME Init PROVE IInv
  OBVIOUS
<1>1. TypeOK
  BY DEF Init, TypeOK, Ids, NetIds, Content, Unlocked
<1>2. LockInv /\ WriteInv /\ JoinInv
  BY DEF Init, LockInv, WriteInv, Writes, JoinInv, Joins, Locked
<1>3. WholeInv
  BY DEF Init, WholeInv, Valid, WIFI_CONFIG_INVALID, Ids
<1> QED BY <1>1, <1>2, <1>3 DEF IInv

LEMMA NextIInv == IInv /\ [Next]_vars => IInv'
<1> SUFFICES ASSUME IInv, [Next]_vars PROVE IInv'
  OBVIOUS
<1>0. removes' = removes
  BY DEF Next, vars
<1> USE <1>0 DEF IInv, At, GoTo, lockVars, tableVars, taskVars
<1>1. ASSUME NEW t \in Tasks, Call(t) PROVE IInv'
  <2>1. TypeOK'
    <3>1. arg' \in [Tasks -> Content] /\ id' \in [Tasks -> Ids]
      <4>1. CASE UNCHANGED id /\ \E net \in Nets :
                   arg' = [arg EXCEPT ![t] = net]
        BY <4>1 DEF TypeOK, Content
      <4>2. CASE UNCHANGED arg /\ \E i \in Ids : id' = [id EXCEPT ![t] = i]
        BY <4>2 DEF TypeOK
      <4>3. CASE UNCHANGED <<arg, id>>
        BY <4>3 DEF TypeOK
      <4> QED BY <1>1, <4>1, <4>2, <4>3 DEF Call
    <3>2. pc' \in [Tasks -> Locked \cup Unlocked]
      BY <1>1 DEF Call, TypeOK, Unlocked
    <3> QED BY <1>1, <3>1, <3>2 DEF Call, TypeOK
  <2>2. LockInv'
    BY <1>1 DEF Call, Content, TypeOK, LockInv, Locked
  <2>3. WriteInv'
    BY <1>1 DEF Call, Content, TypeOK, LockInv, WriteInv, Writes, Valid, Locked
  <2>4. WholeInv'
    BY <1>1 DEF Call, Content, TypeOK, LockInv, WriteInv, Writes, WholeInv,
       Valid, Locked
  <2>5. JoinInv'
    BY <1>1 DEF Call, Content, TypeOK, LockInv, WriteInv, WholeInv, JoinInv,
       Joins, Writes, Valid, Locked
  <2> QED BY <2>1, <2>2, <2>3, <2>4, <2>5
<1>2. ASSUME NEW t \in Tasks, LockAt(t, "addLock", "addFind") PROVE IInv'
  <2>1. TypeOK'
    BY <1>2 DEF LockAt, Lock!Acquire, TypeOK, LockInv, Locked, Unlocked
  <2>2. LockInv'
    BY <1>2 DEF LockAt, Lock!Acquire, TypeOK, LockInv, Locked
  <2>3. WriteInv'
    BY <1>2 DEF LockAt, Lock!Acquire, TypeOK, LockInv, WriteInv, Writes, Valid,
       Locked
  <2>4. WholeInv'
    BY <1>2 DEF LockAt, Lock!Acquire, TypeOK, LockInv, WriteInv, Writes,
       WholeInv, Valid, Locked
  <2>5. JoinInv'
    BY <1>2 DEF LockAt, Lock!Acquire, TypeOK, LockInv, WriteInv, WholeInv,
       JoinInv, Joins, Writes, Valid, Locked
  <2> QED BY <2>1, <2>2, <2>3, <2>4, <2>5
<1>3. ASSUME NEW t \in Tasks, AddFind(t) PROVE IInv'
  <2>1. TypeOK'
    <3>1. CASE UNCHANGED <<id, netId, ssid>> /\ GoTo(t, "unlock")
      BY <1>3, <3>1 DEF AddFind, TypeOK, Locked
    <3>2. ASSUME NEW i \in Ids, NEW x \in NetIds, GoTo(t, "addKey"),
                 id' = [id EXCEPT ![t] = i],
                   ssid' = [ssid EXCEPT ![i] = arg[t]],
                 netId' = [netId EXCEPT ![i] = x]
          PROVE  TypeOK'
      BY <1>3, <3>2 DEF AddFind, TypeOK, Locked
    <3> QED BY <1>3, <3>1, <3>2 DEF AddFind
  <2>2. LockInv'
    BY <1>3 DEF AddFind, NetIds, TypeOK, LockInv, Locked
  <2>3. WriteInv'
    BY <1>3 DEF AddFind, NetIds, TypeOK, LockInv, WriteInv, Writes, Valid,
       Locked
  <2>4. WholeInv'
    BY <1>3 DEF AddFind, NetIds, TypeOK, LockInv, WriteInv, Writes, WholeInv,
       Valid, Locked
  <2>5. JoinInv'
    BY <1>3 DEF AddFind, NetIds, TypeOK, LockInv, WriteInv, WholeInv, JoinInv,
       Joins, Writes, Valid, Locked
  <2> QED BY <2>1, <2>2, <2>3, <2>4, <2>5
<1>4. ASSUME NEW t \in Tasks, AddKey(t) PROVE IInv'
  <2>1. TypeOK'
    BY <1>4 DEF AddKey, TypeOK, Locked, Unlocked
  <2>2. LockInv'
    BY <1>4 DEF AddKey, TypeOK, LockInv, Locked
  <2>3. WriteInv'
    BY <1>4 DEF AddKey, TypeOK, LockInv, WriteInv, Writes, Valid, Locked
  <2>4. WholeInv'
    BY <1>4 DEF AddKey, TypeOK, LockInv, WriteInv, Writes, WholeInv, Valid,
       Locked
  <2>5. JoinInv'
    BY <1>4 DEF AddKey, TypeOK, LockInv, WriteInv, WholeInv, JoinInv, Joins,
       Writes, Valid, Locked
  <2> QED BY <2>1, <2>2, <2>3, <2>4, <2>5
<1>5. ASSUME NEW t \in Tasks, AddId(t) PROVE IInv'
  <2>1. TypeOK'
    BY <1>5 DEF AddId, NetIds, TypeOK, Locked, Unlocked
  <2>2. LockInv'
    BY <1>5 DEF AddId, NetIds, TypeOK, LockInv, Locked
  <2>3. WriteInv'
    BY <1>5 DEF AddId, NetIds, TypeOK, LockInv, WriteInv, Writes, Valid, Locked
  <2>4. WholeInv'
    BY <1>5 DEF AddId, NetIds, TypeOK, LockInv, WriteInv, Writes, WholeInv,
       Valid, Locked
  <2>5. JoinInv'
    BY <1>5 DEF AddId, NetIds, TypeOK, LockInv, WriteInv, WholeInv, JoinInv,
       Joins, Writes, Valid, Locked
  <2> QED BY <2>1, <2>2, <2>3, <2>4, <2>5
<1>6. ASSUME NEW t \in Tasks, LockAt(t, "removeLock", "remove") PROVE IInv'
  <2>1. TypeOK'
    BY <1>6 DEF LockAt, Lock!Acquire, TypeOK, LockInv, Locked, Unlocked
  <2>2. LockInv'
    BY <1>6 DEF LockAt, Lock!Acquire, TypeOK, LockInv, Locked
  <2>3. WriteInv'
    BY <1>6 DEF LockAt, Lock!Acquire, TypeOK, LockInv, WriteInv, Writes, Valid,
       Locked
  <2>4. WholeInv'
    BY <1>6 DEF LockAt, Lock!Acquire, TypeOK, LockInv, WriteInv, Writes,
       WholeInv, Valid, Locked
  <2>5. JoinInv'
    BY <1>6 DEF LockAt, Lock!Acquire, TypeOK, LockInv, WriteInv, WholeInv,
       JoinInv, Joins, Writes, Valid, Locked
  <2> QED BY <2>1, <2>2, <2>3, <2>4, <2>5
<1>7. ASSUME NEW t \in Tasks, RemoveBody(t) PROVE IInv'
  <2>1. TypeOK'
    BY <1>7 DEF RemoveBody, NetIds, TypeOK, Locked, Unlocked
  <2>2. LockInv'
    BY <1>7 DEF RemoveBody, NetIds, TypeOK, LockInv, Locked
  <2>3. WriteInv'
    BY <1>7 DEF RemoveBody, NetIds, TypeOK, LockInv, WriteInv, Writes, Valid,
       Locked
  <2>4. WholeInv'
    BY <1>7 DEF RemoveBody, TypeOK, WholeInv, Valid, WIFI_CONFIG_INVALID, Ids
  <2>5. JoinInv'
    BY <1>7 DEF RemoveBody, NetIds, TypeOK, LockInv, WriteInv, WholeInv,
       JoinInv, Joins, Writes, Valid, Locked
  <2> QED BY <2>1, <2>2, <2>3, <2>4, <2>5
<1>8. ASSUME NEW t \in Tasks, LockAt(t, "getLock", "get") PROVE IInv'
  <2>1. TypeOK'
    BY <1>8 DEF LockAt, Lock!Acquire, TypeOK, LockInv, Locked, Unlocked
  <2>2. LockInv'
    BY <1>8 DEF LockAt, Lock!Acquire, TypeOK, LockInv, Locked
  <2>3. WriteInv'
    BY <1>8 DEF LockAt, Lock!Acquire, TypeOK, LockInv, WriteInv, Writes, Valid,
       Locked
  <2>4. WholeInv'
    BY <1>8 DEF LockAt, Lock!Acquire, TypeOK, LockInv, WriteInv, Writes,
       WholeInv, Valid, Locked
  <2>5. JoinInv'
    BY <1>8 DEF LockAt, Lock!Acquire, TypeOK, LockInv, WriteInv, WholeInv,
       JoinInv, Joins, Writes, Valid, Locked
  <2> QED BY <2>1, <2>2, <2>3, <2>4, <2>5
<1>9. ASSUME NEW t \in Tasks, GetBody(t) PROVE IInv'
  <2>1. TypeOK'
    BY <1>9, WrittenType DEF GetBody, TypeOK, Locked, Unlocked
  <2>2. LockInv'
    BY <1>9 DEF GetBody, TypeOK, LockInv, Locked
  <2>3. WriteInv'
    BY <1>9 DEF GetBody, TypeOK, LockInv, WriteInv, Writes, Valid, Locked
  <2>4. WholeInv'
    BY <1>9 DEF GetBody, TypeOK, LockInv, WriteInv, Writes, WholeInv, Valid,
       Locked
  <2>5. JoinInv'
    BY <1>9 DEF GetBody, TypeOK, LockInv, WriteInv, WholeInv, JoinInv, Joins,
       Writes, Valid, Locked
  <2> QED BY <2>1, <2>2, <2>3, <2>4, <2>5
<1>10. ASSUME NEW t \in Tasks, LockAt(t, "connectLock", "check") PROVE IInv'
  <2>1. TypeOK'
    BY <1>10 DEF LockAt, Lock!Acquire, TypeOK, LockInv, Locked, Unlocked
  <2>2. LockInv'
    BY <1>10 DEF LockAt, Lock!Acquire, TypeOK, LockInv, Locked
  <2>3. WriteInv'
    BY <1>10 DEF LockAt, Lock!Acquire, TypeOK, LockInv, WriteInv, Writes, Valid,
       Locked
  <2>4. WholeInv'
    BY <1>10 DEF LockAt, Lock!Acquire, TypeOK, LockInv, WriteInv, Writes,
       WholeInv, Valid, Locked
  <2>5. JoinInv'
    BY <1>10 DEF LockAt, Lock!Acquire, TypeOK, LockInv, WriteInv, WholeInv,
       JoinInv, Joins, Writes, Valid, Locked
  <2> QED BY <2>1, <2>2, <2>3, <2>4, <2>5
<1>11. ASSUME NEW t \in Tasks, ConnectCheck(t) PROVE IInv'
  <2>1. TypeOK'
    BY <1>11, ReturnTypes DEF ConnectCheck, Lock!Release, TypeOK, LockInv,
       Locked, Unlocked, Content
  <2>2. LockInv'
    BY <1>11 DEF ConnectCheck, Lock!Release, Return, TypeOK, LockInv, Locked
  <2>3. WriteInv'
    BY <1>11 DEF ConnectCheck, Lock!Release, Return, TypeOK, LockInv, WriteInv,
       Writes, Valid, Locked
  <2>4. WholeInv'
    BY <1>11 DEF ConnectCheck, Lock!Release, Return, TypeOK, LockInv, WriteInv,
       Writes, WholeInv, Valid, Locked
  <2>5. JoinInv'
    BY <1>11 DEF ConnectCheck, Lock!Release, Return, TypeOK, LockInv, WriteInv,
       WholeInv, JoinInv, Joins, Writes, Valid, Locked
  <2> QED BY <2>1, <2>2, <2>3, <2>4, <2>5
<1>12. ASSUME NEW t \in Tasks, ReadSsid(t) PROVE IInv'
  <2>1. TypeOK'
    BY <1>12 DEF ReadSsid, TypeOK, Locked, Unlocked
  <2>2. LockInv'
    BY <1>12 DEF ReadSsid, TypeOK, LockInv, Locked
  <2>3. WriteInv'
    BY <1>12 DEF ReadSsid, TypeOK, LockInv, WriteInv, Writes, Valid, Locked
  <2>4. WholeInv'
    BY <1>12 DEF ReadSsid, TypeOK, LockInv, WriteInv, Writes, WholeInv, Valid,
       Locked
  <2>5. JoinInv'
    BY <1>12 DEF ReadSsid, TypeOK, LockInv, WriteInv, WholeInv, JoinInv, Joins,
       Writes, Valid, Locked
  <2> QED BY <2>1, <2>2, <2>3, <2>4, <2>5
<1>13. ASSUME NEW t \in Tasks, ReadKey(t) PROVE IInv'
  <2>1. TypeOK'
    BY <1>13 DEF ReadKey, TypeOK, Locked, Unlocked
  <2>2. LockInv'
    BY <1>13 DEF ReadKey, TypeOK, LockInv, Locked
  <2>3. WriteInv'
    BY <1>13 DEF ReadKey, TypeOK, LockInv, WriteInv, Writes, Valid, Locked
  <2>4. WholeInv'
    BY <1>13 DEF ReadKey, TypeOK, LockInv, WriteInv, Writes, WholeInv, Valid,
       Locked
  <2>5. JoinInv'
    BY <1>13 DEF ReadKey, TypeOK, LockInv, WriteInv, WholeInv, JoinInv, Joins,
       Writes, Valid, Locked
  <2> QED BY <2>1, <2>2, <2>3, <2>4, <2>5
<1>14. ASSUME NEW t \in Tasks, Connect(t) PROVE IInv'
  <2>1. TypeOK'
    BY <1>14, ReturnTypes DEF Connect, TypeOK, Unlocked
  <2>2. LockInv'
    BY <1>14 DEF Connect, Return, TypeOK, LockInv, Locked
  <2>3. WriteInv'
    BY <1>14 DEF Connect, Return, TypeOK, LockInv, WriteInv, Writes, Valid,
       Locked
  <2>4. WholeInv'
    BY <1>14 DEF Connect, Return, TypeOK, LockInv, WriteInv, Writes, WholeInv,
       Valid, Locked
  <2>5. JoinInv'
    BY <1>14 DEF Connect, Return, TypeOK, LockInv, WriteInv, WholeInv, JoinInv,
       Joins, Writes, Valid, Locked
  <2> QED BY <2>1, <2>2, <2>3, <2>4, <2>5
<1>15. ASSUME NEW t \in Tasks, PollIp(t) PROVE IInv'
  <2>1. TypeOK'
    BY <1>15, ReturnTypes DEF PollIp, TypeOK
  <2>2. LockInv'
    BY <1>15 DEF PollIp, Return, TypeOK, LockInv, Locked
  <2>3. WriteInv'
    BY <1>15 DEF PollIp, Return, TypeOK, LockInv, WriteInv, Writes, Valid,
       Locked
  <2>4. WholeInv'
    BY <1>15 DEF PollIp, Return, TypeOK, LockInv, WriteInv, Writes, WholeInv,
       Valid, Locked
  <2>5. JoinInv'
    <3>1. CASE Return(t)
      BY <1>15, <3>1 DEF PollIp, Return, TypeOK, JoinInv, Joins, Writes, Valid
    <3>2. CASE UNCHANGED <<pc, arg, id, cred, checked>>
      BY <1>15, <3>2 DEF PollIp, JoinInv, Joins, Writes, Valid
    <3> QED BY <1>15, <3>1, <3>2 DEF PollIp
  <2> QED BY <2>1, <2>2, <2>3, <2>4, <2>5
<1>16. ASSUME NEW t \in Tasks, UnlockReturn(t) PROVE IInv'
  <2>1. TypeOK'
    BY <1>16, ReturnTypes DEF UnlockReturn, Lock!Release, TypeOK, LockInv,
       Locked
  <2>2. LockInv'
    BY <1>16 DEF UnlockReturn, Lock!Release, Return, TypeOK, LockInv, Locked
  <2>3. WriteInv'
    BY <1>16 DEF UnlockReturn, Lock!Release, Return, TypeOK, LockInv, WriteInv,
       Writes, Valid, Locked
  <2>4. WholeInv'
    BY <1>16 DEF UnlockReturn, Lock!Release, Return, TypeOK, LockInv, WriteInv,
       Writes, WholeInv, Valid, Locked
  <2>5. JoinInv'
    BY <1>16 DEF UnlockReturn, Lock!Release, Return, TypeOK, LockInv, WriteInv,
       WholeInv, JoinInv, Joins, Writes, Valid, Locked
  <2> QED BY <2>1, <2>2, <2>3, <2>4, <2>5
<1>17. CASE GotIp
  BY <1>17 DEF GotIp, TypeOK, LockInv, WriteInv, Writes, WholeInv, JoinInv,
     Joins, Valid
<1>18. CASE UNCHANGED vars
  BY <1>18 DEF vars, TypeOK, LockInv, WriteInv, Writes, WholeInv, JoinInv,
     Joins, Valid
<1> QED
  BY <1>1, <1>2, <1>3, <1>4, <1>5, <1>6, <1>7, <1>8, <1>9, <1>10, <1>11, <1>12,
     <1>13, <1>14, <1>15, <1>16, <1>17, <1>18
     DEF Next, AddDeviceConfig, RemoveDevice, GetDeviceConfigs, ConnectTo

LEMMA Invariance == Spec => []IInv
  BY InitIInv, NextIInv, PTL DEF Spec

-----------------------------------------------------------------------------
\* wifi_device.c 499-564, 682-720.  Types: in particular every index that is
\* used names an entry of the table, and the lock is never nested.
THEOREM TypeCorrect == Spec => []TypeOK
  BY Invariance, PTL DEF IInv

\* wifi_device.c 499-564, 672-712.  Whichever branch a call leaves by, a full
\* table and an unknown id included, it has released the lock; ConnectTo holds
\* it at none of its later steps.
THEOREM LockIsReturned ==
  Spec => [](\A t \in Tasks : pc[t] \in Unlocked => owner # t)
<1>1. IInv => \A t \in Tasks : pc[t] \in Unlocked => owner # t
  BY DEF IInv, LockInv, Locked, Unlocked
<1> QED BY <1>1, Invariance, PTL

\* wifi_device.c 499-564.  While the lock is free every valid entry is whole.
THEOREM EntriesWholeHolds == Spec => []EntriesWhole
<1>1. IInv => EntriesWhole
  BY DEF IInv, TypeOK, LockInv, WholeInv, EntriesWhole, Locked
<1> QED BY <1>1, Invariance, PTL

\* wifi_device.c 682-701.  Without removals ConnectTo joins what it has tested.
THEOREM JoinsWhatItCheckedHolds == Spec => []JoinsWhatItChecked
<1>1. IInv => JoinsWhatItChecked
  BY DEF IInv, JoinInv, JoinsWhatItChecked, At
<1> QED BY <1>1, Invariance, PTL

-----------------------------------------------------------------------------
(* The refinement: the valid entries are the abstract table. *)

TableOf == [i \in Ids |-> IF Valid(i) THEN ssid[i] ELSE NoNet]

LEMMA InitMaps == Init => Table!Init
  BY DEF Init, Table!Init, Valid, WIFI_CONFIG_INVALID, Ids

\* An entry that becomes valid when all lower ones are is an Add.
LEMMA LeastFreeIsAdd ==
  ASSUME IInv, NEW i \in Ids, ~Valid(i), \A j \in Ids : j < i => Valid(j),
         NEW net \in Nets,
         TableOf' = [TableOf EXCEPT ![i] = net]
  PROVE  Table!Add(net)
<1>1. TableOf[i] = NoNet
  BY DEF TableOf
<1>2. \A j \in Ids : j < i => TableOf[j] # NoNet
  BY DEF TableOf, IInv, WholeInv
<1> QED BY <1>1, <1>2 DEF Table!Add, TableOf

LEMMA StepMaps == IInv /\ [Next]_vars => [Table!Next]_TableOf
<1> SUFFICES ASSUME IInv, [Next]_vars PROVE [Table!Next]_TableOf
  OBVIOUS
<1>1. ASSUME NEW t \in Tasks, AddFind(t)
      PROVE  (\E net \in Nets : Table!Add(net)) \/ UNCHANGED TableOf
  <2>1. CASE UNCHANGED <<netId, ssid>>
    BY <2>1 DEF TableOf, Valid
  <2>2. ASSUME NEW i \in Ids, ~Valid(i), \A j \in Ids : j < i => Valid(j),
               ssid' = [ssid EXCEPT ![i] = arg[t]],
               NEW x \in NetIds, netId' = [netId EXCEPT ![i] = x]
        PROVE  (\E net \in Nets : Table!Add(net)) \/ UNCHANGED TableOf
    <3>1. CASE x = i
      <4>1. TableOf' = [TableOf EXCEPT ![i] = arg[t]]
        BY <2>2, <3>1 DEF TableOf, Valid, IInv, TypeOK
      <4>2. arg[t] \in Nets
        BY <1>1 DEF AddFind, At, IInv, WriteInv
      <4> QED BY <2>2, <4>1, <4>2, LeastFreeIsAdd
    <3>2. CASE x # i
      BY <2>2, <3>2 DEF TableOf, Valid, IInv, TypeOK
    <3> QED BY <3>1, <3>2
  <2> QED BY <1>1, <2>1, <2>2 DEF AddFind
<1>2. ASSUME NEW t \in Tasks, AddId(t)
      PROVE  (\E net \in Nets : Table!Add(net)) \/ UNCHANGED TableOf
  <2>1. /\ id[t] \in Ids /\ arg[t] \in Nets /\ ssid[id[t]] = arg[t]
        /\ \A j \in Ids : j < id[t] => Valid(j)
    BY <1>2 DEF AddId, At, IInv, TypeOK, WriteInv, Writes
  <2>2. TableOf' = [TableOf EXCEPT ![id[t]] = arg[t]]
    BY <1>2, <2>1 DEF AddId, TableOf, Valid, IInv, TypeOK
  <2>3. CASE Valid(id[t])
    BY <2>1, <2>2, <2>3 DEF TableOf
  <2>4. CASE ~Valid(id[t])
    BY <2>1, <2>2, <2>4, LeastFreeIsAdd
  <2> QED BY <2>3, <2>4
<1>3. ASSUME NEW t \in Tasks, RemoveBody(t) PROVE \E i \in Ids : Table!Remove(i)
  <2>1. id[t] \in Ids /\ id[t] # WIFI_CONFIG_INVALID
    BY DEF IInv, TypeOK, WIFI_CONFIG_INVALID, Ids
  <2>2. \A i \in Ids : netId'[i] = IF i = id[t] THEN WIFI_CONFIG_INVALID
          ELSE netId[i]
    BY <1>3 DEF RemoveBody, IInv, TypeOK
  <2>3. TableOf' = [TableOf EXCEPT ![id[t]] = NoNet]
    BY <1>3, <2>1, <2>2 DEF RemoveBody, TableOf, Valid
  <2> QED BY <2>1, <2>3 DEF Table!Remove, TableOf
<1>4. ASSUME NEW t \in Tasks, AddKey(t) PROVE UNCHANGED TableOf
  BY <1>4 DEF AddKey, TableOf, Valid
<1>5. ASSUME UNCHANGED tableVars PROVE UNCHANGED TableOf
  BY <1>5 DEF tableVars, TableOf, Valid
<1>6. ASSUME NEW t \in Tasks,
             \/ Call(t) \/ GetDeviceConfigs(t) \/ ConnectTo(t)
                  \/ UnlockReturn(t)
             \/ LockAt(t, "addLock", "addFind")
                  \/ LockAt(t, "removeLock", "remove")
      PROVE  UNCHANGED tableVars
  BY <1>6 DEF Call, GetDeviceConfigs, ConnectTo, UnlockReturn, LockAt, GetBody,
     ConnectCheck, ReadSsid, ReadKey, Connect, PollIp, tableVars
<1>7. CASE GotIp
  BY <1>5, <1>7 DEF GotIp
<1>8. CASE UNCHANGED vars
  BY <1>5, <1>8 DEF vars
<1>9. ASSUME NEW t \in Tasks,
             \/ Call(t) \/ AddDeviceConfig(t) \/ RemoveDevice(t)
             \/ GetDeviceConfigs(t) \/ ConnectTo(t) \/ UnlockReturn(t)
      PROVE  [Table!Next]_TableOf
  <2>1. CASE AddFind(t) \/ AddId(t)
    BY <1>1, <1>2, <2>1 DEF Table!Next
  <2>2. CASE RemoveBody(t)
    BY <1>3, <2>2 DEF Table!Next
  <2>3. CASE AddKey(t)
    BY <1>4, <2>3
  <2> QED BY <1>5, <1>6, <1>9, <2>1, <2>2, <2>3 DEF AddDeviceConfig,
        RemoveDevice
<1> QED BY <1>7, <1>8, <1>9 DEF Next

\* wifi_device.c 499-564.  AddDeviceConfig and RemoveDevice implement a table in
\* which a network gets the least free id and stays until it is removed.
THEOREM Refinement == Spec => ImplementsTable
<1>1. IInv /\ [Next]_vars => [Table!Next]_TableOf
  BY StepMaps
<1> QED
  BY <1>1, InitMaps, Invariance, PTL DEF Spec, Table!Spec, ImplementsTable,
     TableOf
=============================================================================
