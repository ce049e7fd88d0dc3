----------------------------- MODULE WifiConfig -----------------------------
(***************************************************************************)
(* The table of networks DevWifiInfo.config[] of hals/drivers/wifi_lite/   *)
(* wifi_device.c: AddDeviceConfig, RemoveDevice and GetDeviceConfigs work  *)
(* under WifiLock; ConnectTo tests its entry under the lock, releases it   *)
(* and reads the entry afterwards, then polls ip_ok.                       *)
(*                                                                         *)
(* A network stands for its credentials; an entry has two parts, ssid and  *)
(* key, because copying and reading it are not one step.  The device is in *)
(* station mode throughout (WifiDevice has the life cycle).                *)
(***************************************************************************)
EXTENDS Integers, FiniteSets

CONSTANTS Tasks,       \* the client tasks
          NoTask,      \* the owner of a free lock
          Nets,        \* the networks clients add
          NoNet,       \* the content of an entry never written
          MaxConfig,   \* WIFI_MAX_CONFIG_SIZE
          PollLimit    \* DELAY_LOOP_TIMES

ASSUME NoTaskAssumption == NoTask \notin Tasks
ASSUME NoNetAssumption == NoNet \notin Nets
ASSUME MaxConfigAssumption == MaxConfig \in Nat \ {0}
ASSUME PollLimitAssumption == PollLimit \in Nat

VARIABLES
  owner, depth,   \* the lock behind muxHandle
  netId,          \* config[i].netId
  ssid, key,      \* the two parts of config[i]
  ip_ok,          \* DevWifiInfo.ip_ok
  joining,        \* the driver: what it connects to, as <<ssid, key>>
  pc,             \* per task: where it is
  arg,            \* per task: the network to add
  id,             \* per task: the network id of the call, the loop index
  cred,           \* per task: ConnectTo's assocReq, as <<ssid, key>>
  checked,        \* history, per task: the network ConnectTo has tested
  n,              \* per task: retIndex of GetDeviceConfigs, rounds of ConnectTo
  removes         \* clients also call RemoveDevice; never changes

lockVars == <<owner, depth>>
tableVars == <<netId, ssid, key>>
taskVars == <<arg, id, cred, checked, n>>
vars == <<lockVars, tableVars, ip_ok, joining, pc, taskVars, removes>>

WIFI_CONFIG_INVALID == -1
Ids == 0 .. MaxConfig - 1
NetIds == Ids \cup {WIFI_CONFIG_INVALID}
Content == Nets \cup {NoNet}
Valid(i) == netId[i] = i

Locked == {"addFind", "addKey", "addId", "remove", "get", "check", "unlock"}
Unlocked == {"idle", "addLock", "removeLock", "getLock", "connectLock",
             "readSsid", "readKey", "connect", "poll"}

TypeOK ==
  /\ owner \in Tasks \cup {NoTask} /\ depth \in 0 .. 1
  /\ netId \in [Ids -> NetIds]
  /\ ssid \in [Ids -> Content] /\ key \in [Ids -> Content]
  /\ ip_ok \in {0, 1}
  /\ joining \in Content \X Content
  /\ pc \in [Tasks -> Locked \cup Unlocked]
  /\ arg \in [Tasks -> Content]
  /\ id \in [Tasks -> Ids]
  /\ cred \in [Tasks -> Content \X Content]
  /\ checked \in [Tasks -> Content]
  /\ n \in [Tasks -> Nat]
  /\ removes \in BOOLEAN

\* After DeviceWifiStart, which makes every entry invalid.
Init ==
  /\ owner = NoTask /\ depth = 0
  /\ netId = [i \in Ids |-> WIFI_CONFIG_INVALID]
  /\ ssid = [i \in Ids |-> NoNet] /\ key = [i \in Ids |-> NoNet]
  /\ ip_ok = 0 /\ joining = <<NoNet, NoNet>>
  /\ pc = [t \in Tasks |-> "idle"]
  /\ arg = [t \in Tasks |-> NoNet] /\ id = [t \in Tasks |-> 0]
  /\ cred = [t \in Tasks |-> <<NoNet, NoNet>>]
  /\ checked = [t \in Tasks |-> NoNet] /\ n = [t \in Tasks |-> 0]
  /\ removes \in BOOLEAN

Lock == INSTANCE RecLock

At(t, label) == pc[t] = label
GoTo(t, label) == pc' = [pc EXCEPT ![t] = label]

Return(t) ==
  /\ GoTo(t, "idle")
  /\ arg' = [arg EXCEPT ![t] = NoNet] /\ id' = [id EXCEPT ![t] = 0]
  /\ cred' = [cred EXCEPT ![t] = <<NoNet, NoNet>>]
  /\ checked' = [checked EXCEPT ![t] = NoNet] /\ n' = [n EXCEPT ![t] = 0]

\* Mutant of LockAt: LOS_NO_WAIT, and the answer is ignored.
LockAtNoWait(t, from, to) ==
  /\ At(t, from) /\ owner' = t /\ depth' = 1 /\ GoTo(t, to)
  /\ UNCHANGED <<tableVars, ip_ok, joining, taskVars>>

LockAt(t, from, to) ==
  /\ At(t, from) /\ Lock!Acquire(t) /\ GoTo(t, to)
  /\ UNCHANGED <<tableVars, ip_ok, joining, taskVars>>

UnlockReturn(t) ==
  /\ At(t, "unlock") /\ Lock!Release(t) /\ Return(t)
  /\ UNCHANGED <<tableVars, ip_ok, joining>>

\* A client calls one of the functions; ids out of range are refused at once.
Call(t) ==
  /\ At(t, "idle")
  /\ \/ \E net \in Nets : arg' = [arg EXCEPT ![t] = net]
        /\ GoTo(t, "addLock") /\ UNCHANGED id
     \/ \E i \in Ids : id' = [id EXCEPT ![t] = i]
        /\ \/ removes /\ GoTo(t, "removeLock")
           \/ GoTo(t, "connectLock")
        /\ UNCHANGED arg
     \/ GoTo(t, "getLock") /\ UNCHANGED <<arg, id>>
  /\ UNCHANGED <<lockVars, tableVars, ip_ok, joining, cred, checked, n>>

-----------------------------------------------------------------------------
(* AddDeviceConfig, RemoveDevice, GetDeviceConfigs *)

\* Mutant of AddFind: the first entry is replaced when the table is full.
AddFindReplaces(t) ==
  /\ At(t, "addFind")
  /\ \E i \in Ids :
       /\ \/ ~Valid(i) /\ \A j \in Ids : j < i => Valid(j)
          \/ i = 0 /\ \A j \in Ids : Valid(j)
       /\ id' = [id EXCEPT ![t] = i]
       /\ ssid' = [ssid EXCEPT ![i] = arg[t]]
       /\ GoTo(t, "addKey")
  /\ UNCHANGED <<lockVars, netId, key, ip_ok, joining, arg, cred, checked, n>>

\* The first entry whose netId is not its index is filled; the copy brings
\* whatever netId the client's structure has, the entry's own among others.
\* A full table is an error (BUSY).
AddFind(t) ==
  /\ At(t, "addFind")
  /\ \/ \E i \in Ids :
          /\ ~Valid(i) /\ \A j \in Ids : j < i => Valid(j)
          /\ id' = [id EXCEPT ![t] = i]
          /\ ssid' = [ssid EXCEPT ![i] = arg[t]]
          /\ \E x \in NetIds : netId' = [netId EXCEPT ![i] = x]
          /\ GoTo(t, "addKey")
     \/ /\ \A i \in Ids : Valid(i)
        /\ GoTo(t, "unlock") /\ UNCHANGED <<id, netId, ssid>>
  /\ UNCHANGED <<lockVars, key, ip_ok, joining, arg, cred, checked, n>>

AddKey(t) ==
  /\ At(t, "addKey")
  /\ key' = [key EXCEPT ![id[t]] = arg[t]]
  /\ GoTo(t, "addId")
  /\ UNCHANGED <<lockVars, netId, ssid, ip_ok, joining, taskVars>>

AddId(t) ==
  /\ At(t, "addId")
  /\ netId' = [netId EXCEPT ![id[t]] = id[t]]
  /\ GoTo(t, "unlock")
  /\ UNCHANGED <<lockVars, ssid, key, ip_ok, joining, taskVars>>

AddDeviceConfig(t) ==
  LockAt(t, "addLock", "addFind") \/ AddFind(t) \/ AddKey(t) \/ AddId(t)

\* MEMCPY_S ignores a NULL source, so the credentials stay in the entry.
RemoveBody(t) ==
  /\ At(t, "remove")
  /\ netId' = [netId EXCEPT ![id[t]] = WIFI_CONFIG_INVALID]
  /\ GoTo(t, "unlock")
  /\ UNCHANGED <<lockVars, ssid, key, ip_ok, joining, taskVars>>

RemoveDevice(t) == LockAt(t, "removeLock", "remove") \/ RemoveBody(t)

\* How many entries the loop writes for a buffer of size entries: the test
\* maxIndex < retIndex comes after the write.
Written(size) ==
  LET valid == Cardinality({i \in Ids : Valid(i)}) IN
  IF valid > size THEN size + 1 ELSE valid

GetBody(t) ==
  /\ At(t, "get")
  /\ \E size \in 1 .. MaxConfig : n' = [n EXCEPT ![t] = Written(size)]
  /\ GoTo(t, "unlock")
  /\ UNCHANGED <<lockVars, tableVars, ip_ok, joining, arg, id, cred, checked>>

GetDeviceConfigs(t) == LockAt(t, "getLock", "get") \/ GetBody(t)

-----------------------------------------------------------------------------
(* ConnectTo *)

\* Mutant of ConnectCheck: an entry that was removed is accepted.
ConnectCheckMissing(t) ==
  /\ At(t, "check") /\ Lock!Release(t)
  /\ ip_ok' = 0
  /\ checked' = [checked EXCEPT ![t] = ssid[id[t]]]
  /\ GoTo(t, "readSsid")
  /\ UNCHANGED <<tableVars, joining, arg, id, cred, n>>

\* netId is tested and ip_ok reset under the lock, which is then released.
ConnectCheck(t) ==
  /\ At(t, "check") /\ Lock!Release(t)
  /\ \/ ~Valid(id[t]) /\ Return(t) /\ UNCHANGED ip_ok
     \/ /\ Valid(id[t])
        /\ ip_ok' = 0
        /\ checked' = [checked EXCEPT ![t] = ssid[id[t]]]
        /\ GoTo(t, "readSsid")
        /\ UNCHANGED <<arg, id, cred, n>>
  /\ UNCHANGED <<tableVars, joining>>

\* assocReq is filled from the entry without the lock.
ReadSsid(t) ==
  /\ At(t, "readSsid")
  /\ cred' = [cred EXCEPT ![t][1] = ssid[id[t]]]
  /\ GoTo(t, "readKey")
  /\ UNCHANGED <<lockVars, tableVars, ip_ok, joining, arg, id, checked, n>>

ReadKey(t) ==
  /\ At(t, "readKey")
  /\ cred' = [cred EXCEPT ![t][2] = key[id[t]]]
  /\ GoTo(t, "connect")
  /\ UNCHANGED <<lockVars, tableVars, ip_ok, joining, arg, id, checked, n>>

\* esp_wifi_set_config and esp_wifi_connect, which may fail.
Connect(t) ==
  /\ At(t, "connect")
  /\ joining' = cred[t]
  /\ \/ GoTo(t, "poll") /\ UNCHANGED taskVars
     \/ Return(t)
  /\ UNCHANGED <<lockVars, tableVars, ip_ok>>

\* The answer is SUCCESS whether or not an address came in time.
PollIp(t) ==
  /\ At(t, "poll")
  /\ \/ (ip_ok = 1 \/ n[t] = PollLimit) /\ Return(t)
     \/ /\ ip_ok = 0 /\ n[t] < PollLimit
        /\ n' = [n EXCEPT ![t] = @ + 1]
        /\ UNCHANGED <<pc, arg, id, cred, checked>>
  /\ UNCHANGED <<lockVars, tableVars, ip_ok, joining>>

ConnectTo(t) ==
  \/ LockAt(t, "connectLock", "check") \/ ConnectCheck(t) \/ ReadSsid(t)
  \/ ReadKey(t) \/ Connect(t) \/ PollIp(t)

\* event_got_ip_handler in the event-loop task, for a connection that stands.
GotIp ==
  /\ joining # <<NoNet, NoNet>>
  /\ ip_ok' = 1
  /\ UNCHANGED <<lockVars, tableVars, joining, pc, taskVars>>

Next ==
  /\ \/ \E t \in Tasks :
          \/ Call(t) \/ AddDeviceConfig(t) \/ RemoveDevice(t)
          \/ GetDeviceConfigs(t) \/ ConnectTo(t) \/ UnlockReturn(t)
     \/ GotIp
  /\ UNCHANGED removes

Spec == Init /\ [][Next]_vars

-----------------------------------------------------------------------------
(* Properties *)

\* wifi_device.c 499-564.  Whenever the lock is free, a valid entry is whole:
\* both parts are of the same network, whichever writers met.
EntriesWhole ==
  owner = NoTask =>
    \A i \in Ids : Valid(i) => ssid[i] = key[i] /\ ssid[i] \in Nets

\* wifi_device.c 682-701.  As long as nobody removes entries, ConnectTo joins
\* with the credentials of the very network it has tested, though it reads
\* them after releasing the lock.
JoinsWhatItChecked ==
  ~removes =>
    \A t \in Tasks : At(t, "connect") => cred[t] = <<checked[t], checked[t]>>

\* wifi_device.c 499-564.  The entries with netId = index are a table in which
\* a network gets the least free id and stays until it is removed.
Table == INSTANCE NetTable WITH
           table <- [i \in Ids |-> IF Valid(i) THEN ssid[i] ELSE NoNet]
ImplementsTable == Table!Spec
=============================================================================
