-------------------------- MODULE WifiDeviceProof --------------------------
(***************************************************************************)
(* Proofs about WifiDevice for every set of tasks and every cast.  The     *)
(* argument: the label and the call of a task tell how deep it is in the   *)
(* lock (LockInv), so two tasks are never at labels between WifiLock and   *)
(* WifiUnlock, and what one of them has done to DevWifiInfo and to the     *)
(* driver since it took the lock still stands.                             *)
(***************************************************************************)
EXTENDS WifiDevice, TLAPS

Disables(t) == op[t] = "DisableWifi"
Enables(t) == op[t] \in {"EnableWifi", "EnableHotspot"}

\* How often task t has acquired the lock.
DepthOf(t) ==
  CASE pc[t] \in LockedBody -> 1
    [] pc[t] \in UnregBody -> IF Disables(t) THEN 2 ELSE 1
    [] pc[t] = "unregLock" -> IF Disables(t) THEN 1 ELSE 0
    [] OTHER -> 0

\* The lock accounts for the labels of all tasks.
LockInv ==
  /\ owner = NoTask <=> depth = 0
  /\ \A t \in Tasks : DepthOf(t) = IF owner = t THEN depth ELSE 0

\* Which labels belong to which call, and which calls to which role.
CallInv ==
  \A t \in Tasks :
    /\ op[t] = "none" <=> pc[t] = "idle"
    /\ Disables(t) => pc[t] \in {"check", "disLock", "clearStatus", "unregLock",
                                 "wifiStop", "disUnlock"} \cup UnregBody
    /\ pc[t] \in {"disLock", "clearStatus", "wifiStop", "disUnlock"}
         => Disables(t)
    /\ pc[t] \in {"config", "poll"} => op[t] = "EnableHotspot"
    /\ op[t] # "none" => role[t] # "absent"
    /\ Enables(t) => role[t] = "enables"

\* What exists covers what DevWifiInfo points at.
PointsAtLive ==
  /\ netif # "null" => netifLive >= 1
  /\ \A b \in Bases : b \in eventHandle => handlersLive[b] >= 1

\* Task t holds the lock and has changed one of staStatus and the driver, but
\* not yet the other.
Stopping(t) == Disables(t) /\ pc[t] \in {"unregLock", "wifiStop"} \cup UnregBody
HalfWay(t) == Stopping(t) \/ pc[t] = "setActive"

StatusInv ==
  /\ (\A t \in Tasks : ~HalfWay(t)) => (staStatus = WIFI_ACTIVE <=> radio)
  /\ \A t \in Tasks :
       /\ pc[t] = "setActive" => radio
       /\ Stopping(t) => staStatus = WIFI_NOT_ACTIVE

\* How much of the session a DisableWifi in its lock has taken down.
DisableInv ==
  \A t \in Tasks :
    Disables(t) =>
      /\ pc[t] \in {"unregIp", "destroyNetif", "unregUnlock", "wifiStop",
                    "disUnlock"} => "WIFI_EVENT" \notin eventHandle
      /\ pc[t] \in {"destroyNetif", "unregUnlock", "wifiStop", "disUnlock"}
           => "IP_EVENT" \notin eventHandle
      /\ pc[t] \in {"unregUnlock", "wifiStop", "disUnlock"} => netif = "null"
      /\ pc[t] = "disUnlock" => staStatus = WIFI_NOT_ACTIVE /\ ~radio

\* With one enabling task, DevWifiInfo points at everything that exists, and
\* what that task is about to create does not exist.
OneEnables == AtMostOne({t \in Tasks : role[t] = "enables"})

LeakInv ==
  OneEnables =>
    /\ netifLive = IF netif = "null" THEN 0 ELSE 1
    /\ \A b \in Bases : handlersLive[b] = IF b \in eventHandle THEN 1 ELSE 0
    /\ \A t \in Tasks :
         Enables(t) =>
           /\ pc[t] \in {"unregUnlock", "regLock", "createNetif"}
                => netif = "null"
           /\ pc[t] \in {"unregIp", "destroyNetif", "unregUnlock", "regLock",
                         "createNetif", "regWifi"}
                => "WIFI_EVENT" \notin eventHandle
           /\ pc[t] \in {"destroyNetif", "unregUnlock", "regLock",
                         "createNetif", "regWifi", "regIp"}
                => "IP_EVENT" \notin eventHandle

\* With one client, the driver follows what that client is doing.
OneClient == AtMostOne({t \in Tasks : role[t] # "absent"})

ClientInv ==
  OneClient =>
    /\ staStatus = WIFI_ACTIVE => netif = mode
    /\ \A t \in Tasks :
         Enables(t) =>
           /\ pc[t] \notin {"check", "startUnlock", "poll"}
                => staStatus = WIFI_NOT_ACTIVE
           /\ pc[t]
                \in {"regWifi", "regIp", "setMode", "regUnlock", "regReturn"}
                => netif \in {"null", ModeOf(t)}
           /\ pc[t] \in {"regUnlock", "regReturn"} /\ ~err[t]
                => mode = ModeOf(t)
           /\ pc[t] \in {"startLock", "config", "start", "setActive"}
                => netif = ModeOf(t) /\ mode = ModeOf(t)

IInv == TypeOK /\ LockInv /\ CallInv /\ PointsAtLive /\ StatusInv /\ DisableInv
        /\ LeakInv /\ ClientInv

-----------------------------------------------------------------------------
USE NoTaskAssumption, CastsAssumption, MaxLiveAssumption, PollLimitAssumption

\* Two tasks are never between WifiLock and WifiUnlock.
LEMMA OneInside ==
  ASSUME LockInv, NEW t \in Tasks, NEW u \in Tasks, DepthOf(t) # 0,
         DepthOf(u) # 0
  PROVE  t = u
  BY DEF LockInv

\* The end of a call types the locals of its task.
LEMMA ReturnTypes ==
  ASSUME TypeOK, NEW t \in Tasks, Return(t)
  PROVE  /\ pc' \in [Tasks -> UnregBody \cup LockedBody \cup FreeBody]
         /\ op' \in [Tasks -> Ops \cup {"none"}]
         /\ err' \in [Tasks -> BOOLEAN]
         /\ polls' \in [Tasks -> 0 .. PollLimit]
<1>1. err' \in [Tasks -> BOOLEAN]
  BY DEF TypeOK, Return
<1> QED BY DEF TypeOK, Return, GoTo, FreeBody

LEMMA InitIInv == Init => IInv
<1> SUFFICES ASSUME Init PROVE IInv
  OBVIOUS
<1>1. TypeOK
  <2>1. err \in [Tasks -> BOOLEAN]
    BY DEF Init
  <2>2. /\ pc \in [Tasks -> UnregBody \cup LockedBody \cup FreeBody]
        /\ op \in [Tasks -> Ops \cup {"none"}]
        /\ polls \in [Tasks -> 0 .. PollLimit]
        /\ handlersLive \in [Bases -> 0 .. MaxLive]
    BY DEF Init, FreeBody
  <2>3. /\ owner \in Tasks \cup {NoTask} /\ depth \in 0 .. 2
        /\ netifLive \in 0 .. MaxLive /\ eventHandle \in SUBSET Bases
        /\ pending \in SUBSET Bases /\ mode \in Modes /\ role \in Casts
    BY DEF Init, Modes
  <2>4. /\ staStatus \in {WIFI_ACTIVE, WIFI_NOT_ACTIVE} /\ ip_ok \in {0, 1}
        /\ netif \in {"null"} \cup Modes /\ radio \in BOOLEAN
        /\ loop \in {"idle", "callback"}
    BY DEF Init
  <2> QED BY <2>1, <2>2, <2>3, <2>4 DEF TypeOK
<1>2. LockInv /\ CallInv
  BY DEF Init, LockInv, DepthOf, CallInv, Disables, Enables, LockedBody,
     UnregBody
<1>3. PointsAtLive /\ StatusInv /\ DisableInv
  BY DEF Init, PointsAtLive, StatusInv, DisableInv, WIFI_ACTIVE, WIFI_NOT_ACTIVE
<1>4. LeakInv /\ ClientInv
  BY DEF Init, LeakInv, ClientInv, WIFI_ACTIVE, WIFI_NOT_ACTIVE
<1> QED BY <1>1, <1>2, <1>3, <1>4 DEF IInv

LEMMA NextIInv == IInv /\ [Next]_vars => IInv'
<1> SUFFICES ASSUME IInv, [Next]_vars PROVE IInv'
  OBVIOUS
<1>0. role' = role
  BY DEF Next, vars
<1> USE <1>0 DEF IInv, At, GoTo, WifiLockAt, Lock!Acquire, Lock!Release,
      lockVars, infoVars, espVars, loopVars, callVars, ModeOf, Disables,
      Enables, Ops, Bases, Modes, UnregBody, LockedBody, FreeBody, WIFI_ACTIVE,
      WIFI_NOT_ACTIVE
<1>1. ASSUME NEW t \in Tasks, Call(t) PROVE IInv'
  <2>1. TypeOK'
    BY <1>1 DEF Call, TypeOK
  <2>2. LockInv' /\ CallInv'
    BY <1>1 DEF Call, TypeOK, LockInv, DepthOf, CallInv
  <2>3. PointsAtLive' /\ StatusInv' /\ DisableInv'
    BY <1>1 DEF Call, PointsAtLive, StatusInv, Stopping, HalfWay, DisableInv
  <2>4. LeakInv' /\ ClientInv'
    BY <1>1 DEF Call, TypeOK, LeakInv, OneEnables, ClientInv, OneClient
  <2> QED BY <2>1, <2>2, <2>3, <2>4
<1>2. ASSUME NEW t \in Tasks, EnableCheck(t) PROVE IInv'
  <2>1. TypeOK'
    BY <1>2, ReturnTypes DEF EnableCheck, TypeOK
  <2>2. LockInv' /\ CallInv'
    BY <1>2 DEF EnableCheck, Return, TypeOK, LockInv, DepthOf, CallInv
  <2>3. PointsAtLive' /\ StatusInv' /\ DisableInv'
    BY <1>2 DEF EnableCheck, Return, TypeOK, PointsAtLive, StatusInv, Stopping,
       HalfWay, DisableInv
  <2>4. LeakInv' /\ ClientInv'
    BY <1>2 DEF EnableCheck, Return, TypeOK, LeakInv, OneEnables, ClientInv,
       OneClient
  <2> QED BY <2>1, <2>2, <2>3, <2>4
<1>3. ASSUME NEW t \in Tasks, DisableCheck(t) PROVE IInv'
  <2>1. TypeOK'
    BY <1>3, ReturnTypes DEF DisableCheck, TypeOK
  <2>2. LockInv' /\ CallInv'
    BY <1>3 DEF DisableCheck, Return, TypeOK, LockInv, DepthOf, CallInv
  <2>3. PointsAtLive' /\ StatusInv' /\ DisableInv'
    BY <1>3 DEF DisableCheck, Return, TypeOK, PointsAtLive, StatusInv, Stopping,
       HalfWay, DisableInv
  <2>4. LeakInv' /\ ClientInv'
    BY <1>3 DEF DisableCheck, Return, TypeOK, LeakInv, OneEnables, ClientInv,
       OneClient
  <2> QED BY <2>1, <2>2, <2>3, <2>4
<1>4. ASSUME NEW t \in Tasks, UnregLock(t) PROVE IInv'
  <2>1. TypeOK'
    BY <1>4 DEF UnregLock, TypeOK, LockInv, DepthOf
  <2>2. LockInv' /\ CallInv'
    BY <1>4 DEF UnregLock, TypeOK, LockInv, DepthOf, CallInv
  <2>3. PointsAtLive' /\ StatusInv' /\ DisableInv'
    BY <1>4 DEF UnregLock, PointsAtLive, StatusInv, Stopping, HalfWay,
       DisableInv
  <2>4. LeakInv' /\ ClientInv'
    BY <1>4 DEF UnregLock, LeakInv, OneEnables, ClientInv, OneClient
  <2> QED BY <2>1, <2>2, <2>3, <2>4
<1>5. ASSUME NEW t \in Tasks, ClearFlags(t) PROVE IInv'
  <2>1. TypeOK'
    BY <1>5 DEF ClearFlags, TypeOK
  <2>2. LockInv' /\ CallInv'
    BY <1>5 DEF ClearFlags, LockInv, DepthOf, CallInv
  <2>3. PointsAtLive' /\ StatusInv' /\ DisableInv'
    BY <1>5 DEF ClearFlags, PointsAtLive, StatusInv, Stopping, HalfWay,
       DisableInv
  <2>4. LeakInv' /\ ClientInv'
    BY <1>5 DEF ClearFlags, LeakInv, OneEnables, ClientInv, OneClient
  <2> QED BY <2>1, <2>2, <2>3, <2>4
<1>6. ASSUME NEW t \in Tasks,
             UnregisterHandler(t, "WIFI_EVENT", "unregWifi", "unregIp")
      PROVE  IInv'
  <2>1. TypeOK'
    BY <1>6 DEF UnregisterHandler, TypeOK, PointsAtLive
  <2>2. LockInv' /\ CallInv'
    BY <1>6 DEF UnregisterHandler, LockInv, DepthOf, CallInv
  <2>3. PointsAtLive' /\ StatusInv' /\ DisableInv'
    BY <1>6 DEF UnregisterHandler, PointsAtLive, StatusInv, Stopping, HalfWay,
       DisableInv
  <2>4. LeakInv' /\ ClientInv'
    BY <1>6 DEF UnregisterHandler, TypeOK, LeakInv, OneEnables, ClientInv,
       OneClient
  <2> QED BY <2>1, <2>2, <2>3, <2>4
<1>7. ASSUME NEW t \in Tasks,
             UnregisterHandler(t, "IP_EVENT", "unregIp", "destroyNetif")
      PROVE  IInv'
  <2>1. TypeOK'
    BY <1>7 DEF UnregisterHandler, TypeOK, PointsAtLive
  <2>2. LockInv' /\ CallInv'
    BY <1>7 DEF UnregisterHandler, LockInv, DepthOf, CallInv
  <2>3. PointsAtLive' /\ StatusInv' /\ DisableInv'
    BY <1>7 DEF UnregisterHandler, PointsAtLive, StatusInv, Stopping, HalfWay,
       DisableInv
  <2>4. LeakInv' /\ ClientInv'
    BY <1>7 DEF UnregisterHandler, TypeOK, LeakInv, OneEnables, ClientInv,
       OneClient
  <2> QED BY <2>1, <2>2, <2>3, <2>4
<1>8. ASSUME NEW t \in Tasks, DestroyNetif(t) PROVE IInv'
  <2>1. TypeOK'
    BY <1>8 DEF DestroyNetif, TypeOK, PointsAtLive
  <2>2. LockInv' /\ CallInv'
    BY <1>8 DEF DestroyNetif, LockInv, DepthOf, CallInv
  <2>3. PointsAtLive' /\ StatusInv' /\ DisableInv'
    BY <1>8 DEF DestroyNetif, PointsAtLive, StatusInv, Stopping, HalfWay,
       DisableInv
  <2>4. LeakInv' /\ ClientInv'
    BY <1>8 DEF DestroyNetif, TypeOK, CallInv, StatusInv, Stopping, LeakInv,
       OneEnables, ClientInv, OneClient, AtMostOne
  <2> QED BY <2>1, <2>2, <2>3, <2>4
<1>9. ASSUME NEW t \in Tasks, UnregUnlock(t) PROVE IInv'
  <2>1. TypeOK'
    BY <1>9 DEF UnregUnlock, TypeOK, LockInv
  <2>2. LockInv' /\ CallInv'
    BY <1>9 DEF UnregUnlock, TypeOK, LockInv, DepthOf, CallInv
  <2>3. PointsAtLive' /\ StatusInv' /\ DisableInv'
    BY <1>9 DEF UnregUnlock, PointsAtLive, StatusInv, Stopping, HalfWay,
       DisableInv
  <2>4. LeakInv' /\ ClientInv'
    BY <1>9 DEF UnregUnlock, LeakInv, OneEnables, ClientInv, OneClient
  <2> QED BY <2>1, <2>2, <2>3, <2>4
<1>10. ASSUME NEW t \in Tasks, WifiLockAt(t, "regLock", "createNetif")
                PROVE IInv'
  <2>1. TypeOK'
    BY <1>10 DEF TypeOK, LockInv, DepthOf
  <2>2. LockInv' /\ CallInv'
    BY <1>10 DEF TypeOK, LockInv, DepthOf, CallInv
  <2>3. PointsAtLive' /\ StatusInv' /\ DisableInv'
    BY <1>10 DEF PointsAtLive, StatusInv, Stopping, HalfWay, DisableInv
  <2>4. LeakInv' /\ ClientInv'
    BY <1>10 DEF LeakInv, OneEnables, ClientInv, OneClient
  <2> QED BY <2>1, <2>2, <2>3, <2>4
<1>11. ASSUME NEW t \in Tasks, CreateNetif(t) PROVE IInv'
  <2>1. TypeOK'
    BY <1>11 DEF CreateNetif, TypeOK
  <2>2. LockInv' /\ CallInv'
    BY <1>11 DEF CreateNetif, LockInv, DepthOf, CallInv
  <2>3. PointsAtLive' /\ StatusInv' /\ DisableInv'
    BY <1>11 DEF CreateNetif, TypeOK, LockInv, DepthOf, PointsAtLive, StatusInv,
       Stopping, HalfWay, DisableInv
  <2>4. LeakInv' /\ ClientInv'
    BY <1>11 DEF CreateNetif, TypeOK, CallInv, LeakInv, OneEnables, ClientInv,
       OneClient, AtMostOne
  <2> QED BY <2>1, <2>2, <2>3, <2>4
<1>12. ASSUME NEW t \in Tasks,
             RegisterHandler(t, "WIFI_EVENT", "regWifi", "regIp")
      PROVE  IInv'
  <2>1. TypeOK'
    <3>1. handlersLive' \in [Bases -> 0 .. MaxLive]
      BY <1>12 DEF RegisterHandler, TypeOK
    <3>2. eventHandle' \in SUBSET Bases
      BY <1>12 DEF RegisterHandler, TypeOK
    <3> QED BY <1>12, <3>2 DEF RegisterHandler, TypeOK
  <2>2. LockInv' /\ CallInv'
    BY <1>12 DEF RegisterHandler, LockInv, DepthOf, CallInv
  <2>3. PointsAtLive' /\ StatusInv' /\ DisableInv'
    BY <1>12 DEF RegisterHandler, TypeOK, LockInv, DepthOf, PointsAtLive,
       StatusInv, Stopping, HalfWay, DisableInv
  <2>4. LeakInv' /\ ClientInv'
    BY <1>12 DEF RegisterHandler, TypeOK, CallInv, LeakInv, OneEnables,
       ClientInv, OneClient, AtMostOne
  <2> QED BY <2>1, <2>2, <2>3, <2>4
<1>13. ASSUME NEW t \in Tasks,
             RegisterHandler(t, "IP_EVENT", "regIp", "setMode")
      PROVE  IInv'
  <2>1. TypeOK'
    <3>1. handlersLive' \in [Bases -> 0 .. MaxLive]
      BY <1>13 DEF RegisterHandler, TypeOK
    <3>2. eventHandle' \in SUBSET Bases
      BY <1>13 DEF RegisterHandler, TypeOK
    <3> QED BY <1>13, <3>2 DEF RegisterHandler, TypeOK
  <2>2. LockInv' /\ CallInv'
    BY <1>13 DEF RegisterHandler, LockInv, DepthOf, CallInv
  <2>3. PointsAtLive' /\ StatusInv' /\ DisableInv'
    BY <1>13 DEF RegisterHandler, TypeOK, LockInv, DepthOf, PointsAtLive,
       StatusInv, Stopping, HalfWay, DisableInv
  <2>4. LeakInv' /\ ClientInv'
    BY <1>13 DEF RegisterHandler, TypeOK, CallInv, LeakInv, OneEnables,
       ClientInv, OneClient, AtMostOne
  <2> QED BY <2>1, <2>2, <2>3, <2>4
<1>14. ASSUME NEW t \in Tasks, SetMode(t) PROVE IInv'
  <2>1. TypeOK'
    BY <1>14 DEF SetMode, TypeOK
  <2>2. LockInv' /\ CallInv'
    BY <1>14 DEF SetMode, LockInv, DepthOf, CallInv
  <2>3. PointsAtLive' /\ StatusInv' /\ DisableInv'
    BY <1>14 DEF SetMode, PointsAtLive, StatusInv, Stopping, HalfWay, DisableInv
  <2>4. LeakInv' /\ ClientInv'
    BY <1>14 DEF SetMode, TypeOK, CallInv, LeakInv, OneEnables, ClientInv,
       OneClient, AtMostOne
  <2> QED BY <2>1, <2>2, <2>3, <2>4
<1>15. ASSUME NEW t \in Tasks, RegUnlock(t) PROVE IInv'
  <2>1. TypeOK'
    BY <1>15 DEF RegUnlock, TypeOK, LockInv
  <2>2. LockInv' /\ CallInv'
    BY <1>15 DEF RegUnlock, TypeOK, LockInv, DepthOf, CallInv
  <2>3. PointsAtLive' /\ StatusInv' /\ DisableInv'
    BY <1>15 DEF RegUnlock, PointsAtLive, StatusInv, Stopping, HalfWay,
       DisableInv
  <2>4. LeakInv' /\ ClientInv'
    BY <1>15 DEF RegUnlock, LeakInv, OneEnables, ClientInv, OneClient
  <2> QED BY <2>1, <2>2, <2>3, <2>4
<1>16. ASSUME NEW t \in Tasks, RegReturn(t) PROVE IInv'
  <2>1. TypeOK'
    BY <1>16, ReturnTypes DEF RegReturn, TypeOK
  <2>2. LockInv' /\ CallInv'
    BY <1>16 DEF RegReturn, Return, TypeOK, LockInv, DepthOf, CallInv
  <2>3. PointsAtLive' /\ StatusInv' /\ DisableInv'
    BY <1>16 DEF RegReturn, Return, TypeOK, PointsAtLive, StatusInv, Stopping,
       HalfWay, DisableInv
  <2>4. LeakInv' /\ ClientInv'
    BY <1>16 DEF RegReturn, Return, TypeOK, LeakInv, OneEnables, ClientInv,
       OneClient
  <2> QED BY <2>1, <2>2, <2>3, <2>4
<1>17. ASSUME NEW t \in Tasks, StartLock(t) PROVE IInv'
  <2>1. TypeOK'
    BY <1>17 DEF StartLock, TypeOK, LockInv, DepthOf
  <2>2. LockInv' /\ CallInv'
    BY <1>17 DEF StartLock, TypeOK, LockInv, DepthOf, CallInv
  <2>3. PointsAtLive' /\ StatusInv' /\ DisableInv'
    BY <1>17 DEF StartLock, PointsAtLive, StatusInv, Stopping, HalfWay,
       DisableInv
  <2>4. LeakInv' /\ ClientInv'
    BY <1>17 DEF StartLock, LeakInv, OneEnables, ClientInv, OneClient
  <2> QED BY <2>1, <2>2, <2>3, <2>4
<1>18. ASSUME NEW t \in Tasks, HotspotConfig(t) PROVE IInv'
  <2>1. TypeOK'
    BY <1>18 DEF HotspotConfig, TypeOK
  <2>2. LockInv' /\ CallInv'
    BY <1>18 DEF HotspotConfig, LockInv, DepthOf, CallInv
  <2>3. PointsAtLive' /\ StatusInv' /\ DisableInv'
    BY <1>18 DEF HotspotConfig, PointsAtLive, StatusInv, Stopping, HalfWay,
       DisableInv
  <2>4. LeakInv' /\ ClientInv'
    BY <1>18 DEF HotspotConfig, LeakInv, OneEnables, ClientInv, OneClient
  <2> QED BY <2>1, <2>2, <2>3, <2>4
<1>19. ASSUME NEW t \in Tasks, WifiStart(t) PROVE IInv'
  <2>1. TypeOK'
    BY <1>19 DEF WifiStart, TypeOK, PointsAtLive
  <2>2. LockInv' /\ CallInv'
    BY <1>19 DEF WifiStart, TypeOK, LockInv, DepthOf, CallInv
  <2>3. PointsAtLive' /\ StatusInv' /\ DisableInv'
    BY <1>19 DEF WifiStart, TypeOK, LockInv, DepthOf, PointsAtLive, StatusInv,
       Stopping, HalfWay, DisableInv
  <2>4. LeakInv' /\ ClientInv'
    BY <1>19 DEF WifiStart, TypeOK, LeakInv, OneEnables, ClientInv, OneClient
  <2> QED BY <2>1, <2>2, <2>3, <2>4
<1>20. ASSUME NEW t \in Tasks, SetActive(t) PROVE IInv'
  <2>1. TypeOK'
    BY <1>20 DEF SetActive, TypeOK
  <2>2. LockInv' /\ CallInv'
    BY <1>20 DEF SetActive, LockInv, DepthOf, CallInv
  <2>3. PointsAtLive' /\ StatusInv' /\ DisableInv'
    BY <1>20 DEF SetActive, LockInv, DepthOf, PointsAtLive, StatusInv, Stopping,
       DisableInv
  <2>4. LeakInv' /\ ClientInv'
    BY <1>20 DEF SetActive, TypeOK, CallInv, LeakInv, OneEnables, ClientInv,
       OneClient, AtMostOne
  <2> QED BY <2>1, <2>2, <2>3, <2>4
<1>21. ASSUME NEW t \in Tasks, StartUnlock(t) PROVE IInv'
  <2>1. TypeOK'
    BY <1>21, ReturnTypes DEF StartUnlock, TypeOK, LockInv
  <2>2. LockInv' /\ CallInv'
    BY <1>21 DEF StartUnlock, Return, TypeOK, LockInv, DepthOf, CallInv
  <2>3. PointsAtLive' /\ StatusInv' /\ DisableInv'
    BY <1>21 DEF StartUnlock, Return, TypeOK, PointsAtLive, StatusInv, Stopping,
       HalfWay, DisableInv
  <2>4. LeakInv' /\ ClientInv'
    BY <1>21 DEF StartUnlock, Return, TypeOK, LeakInv, OneEnables, ClientInv,
       OneClient
  <2> QED BY <2>1, <2>2, <2>3, <2>4
<1>22. ASSUME NEW t \in Tasks, PollIp(t) PROVE IInv'
  <2>1. TypeOK'
    BY <1>22, ReturnTypes DEF PollIp, TypeOK
  <2>2. LockInv' /\ CallInv'
    BY <1>22 DEF PollIp, Return, TypeOK, LockInv, DepthOf, CallInv
  <2>3. PointsAtLive' /\ StatusInv' /\ DisableInv'
    BY <1>22 DEF PollIp, Return, TypeOK, PointsAtLive, StatusInv, Stopping,
       HalfWay, DisableInv
  <2>4. LeakInv' /\ ClientInv'
    BY <1>22 DEF PollIp, Return, TypeOK, LeakInv, OneEnables, ClientInv,
       OneClient
  <2> QED BY <2>1, <2>2, <2>3, <2>4
<1>23. ASSUME NEW t \in Tasks, DisLock(t) PROVE IInv'
  <2>1. TypeOK'
    BY <1>23 DEF DisLock, TypeOK, LockInv, DepthOf
  <2>2. LockInv' /\ CallInv'
    BY <1>23 DEF DisLock, TypeOK, LockInv, DepthOf, CallInv
  <2>3. PointsAtLive' /\ StatusInv' /\ DisableInv'
    BY <1>23 DEF DisLock, PointsAtLive, StatusInv, Stopping, HalfWay, DisableInv
  <2>4. LeakInv' /\ ClientInv'
    BY <1>23 DEF DisLock, LeakInv, OneEnables, ClientInv, OneClient
  <2> QED BY <2>1, <2>2, <2>3, <2>4
<1>24. ASSUME NEW t \in Tasks, ClearStatus(t) PROVE IInv'
  <2>1. TypeOK'
    BY <1>24 DEF ClearStatus, TypeOK
  <2>2. LockInv' /\ CallInv'
    BY <1>24 DEF ClearStatus, LockInv, DepthOf, CallInv
  <2>3. PointsAtLive' /\ StatusInv' /\ DisableInv'
    BY <1>24 DEF ClearStatus, TypeOK, CallInv, PointsAtLive, StatusInv,
       Stopping, HalfWay, DisableInv
  <2>4. LeakInv' /\ ClientInv'
    BY <1>24 DEF ClearStatus, LeakInv, OneEnables, ClientInv, OneClient
  <2> QED BY <2>1, <2>2, <2>3, <2>4
<1>25. ASSUME NEW t \in Tasks, WifiStop(t) PROVE IInv'
  <2>1. TypeOK'
    BY <1>25 DEF WifiStop, TypeOK
  <2>2. LockInv' /\ CallInv'
    BY <1>25 DEF WifiStop, LockInv, DepthOf, CallInv
  <2>3. PointsAtLive' /\ StatusInv' /\ DisableInv'
    BY <1>25 DEF WifiStop, LockInv, DepthOf, CallInv, PointsAtLive, StatusInv,
       Stopping, DisableInv
  <2>4. LeakInv' /\ ClientInv'
    BY <1>25 DEF WifiStop, LeakInv, OneEnables, ClientInv, OneClient
  <2> QED BY <2>1, <2>2, <2>3, <2>4
<1>26. ASSUME NEW t \in Tasks, DisUnlock(t) PROVE IInv'
  <2>1. TypeOK'
    BY <1>26, ReturnTypes DEF DisUnlock, TypeOK, LockInv
  <2>2. LockInv' /\ CallInv'
    BY <1>26 DEF DisUnlock, Return, TypeOK, LockInv, DepthOf, CallInv
  <2>3. PointsAtLive' /\ StatusInv' /\ DisableInv'
    BY <1>26 DEF DisUnlock, Return, PointsAtLive, StatusInv, Stopping, HalfWay,
       DisableInv
  <2>4. LeakInv' /\ ClientInv'
    BY <1>26 DEF DisUnlock, Return, LeakInv, OneEnables, ClientInv, OneClient
  <2> QED BY <2>1, <2>2, <2>3, <2>4
<1>27. ASSUME NEW base \in Bases, PostEvent(base) PROVE IInv'
  BY <1>27 DEF PostEvent, TypeOK, LockInv, DepthOf, CallInv, PointsAtLive,
     StatusInv, Stopping, HalfWay, DisableInv, LeakInv, OneEnables, ClientInv,
     OneClient
<1>28. CASE LoopStep
  BY <1>28 DEF LoopStep, GotIp, EventHandler, CallbackReturns, TypeOK, LockInv,
     DepthOf, CallInv, PointsAtLive, StatusInv, Stopping, HalfWay, DisableInv,
     LeakInv, OneEnables, ClientInv, OneClient
<1>29. CASE UNCHANGED vars
  BY <1>29 DEF vars, TypeOK, LockInv, DepthOf, CallInv, PointsAtLive, StatusInv,
     Stopping, HalfWay, DisableInv, LeakInv, OneEnables, ClientInv, OneClient
<1>30. ASSUME NEW t \in Tasks, TaskStep(t) PROVE IInv'
  BY <1>2, <1>3, <1>4, <1>5, <1>6, <1>7, <1>8, <1>9, <1>10, <1>11, <1>12, <1>13,
     <1>14, <1>15, <1>16, <1>17, <1>18, <1>19, <1>20, <1>21, <1>22, <1>23,
     <1>24, <1>25, <1>26, <1>30
     DEF TaskStep, UnregisterEspEvent, RegisterEspEvent
<1> QED BY <1>1, <1>27, <1>28, <1>29, <1>30 DEF Next, Step

LEMMA Invariance == Spec => []IInv
  BY InitIInv, NextIInv, PTL DEF Spec

-----------------------------------------------------------------------------
\* wifi_device.c 384-479, 872-924.  Types: in particular the lock is never
\* deeper than the one nesting of DisableWifi, and no netif or handler is
\* released more often than it was created.
THEOREM TypeCorrect == Spec => []TypeOK
  BY Invariance DEF IInv

\* wifi_device.c 437-479, 872-924.  A task that is about to unlock holds the
\* lock, and between WifiLock and WifiUnlock there is one task at a time.
THEOREM OneInsideAlways ==
  Spec => [](\A t, u \in Tasks : DepthOf(t) # 0 /\ DepthOf(u) # 0 => t = u)
<1>1. IInv => \A t, u \in Tasks : DepthOf(t) # 0 /\ DepthOf(u) # 0 => t = u
  BY OneInside DEF IInv
<1> QED BY <1>1, Invariance, PTL

\* wifi_device.c 437-479, 872-924.  Whichever branch a call leaves by, errors
\* included, it has released the lock as often as it has acquired it.
THEOREM LockIsReturned ==
  Spec => [](\A t \in Tasks : pc[t] = "idle" => owner # t)
<1>1. ASSUME IInv, NEW t \in Tasks, pc[t] = "idle" PROVE owner # t
  <2>1. DepthOf(t) = 0
    BY <1>1 DEF DepthOf, LockedBody, UnregBody
  <2>2. SUFFICES ASSUME owner = t PROVE FALSE
    OBVIOUS
  <2>3. depth = 0
    BY <1>1, <2>1, <2>2 DEF IInv, LockInv
  <2> QED BY <1>1, <2>2, <2>3 DEF IInv, LockInv
<1>2. IInv => \A t \in Tasks : pc[t] = "idle" => owner # t
  BY <1>1
<1> QED BY <1>2, Invariance, PTL

\* wifi_device.c 437-479, 872-924.  However many tasks enable and disable,
\* while nobody holds the lock staStatus and the driver agree.
THEOREM StatusMatchesRadioHolds == Spec => []StatusMatchesRadio
<1>1. ASSUME IInv, owner = NoTask PROVE staStatus = WIFI_ACTIVE <=> radio
  <2>1. ASSUME NEW t \in Tasks PROVE DepthOf(t) = 0
    BY <1>1 DEF IInv, LockInv
  <2>2. ASSUME NEW t \in Tasks PROVE ~HalfWay(t)
    BY <2>1 DEF DepthOf, HalfWay, Stopping, LockedBody
  <2> QED BY <1>1, <2>2 DEF IInv, StatusInv
<1> QED BY <1>1, Invariance, PTL DEF StatusMatchesRadio

\* wifi_device.c 466-479.  A DisableWifi that is about to unlock has taken the
\* whole session down, whoever else calls.
THEOREM DisableIsCompleteHolds == Spec => []DisableIsComplete
<1>1. ASSUME IInv, NEW t \in Tasks, At(t, "disUnlock")
      PROVE  /\ staStatus = WIFI_NOT_ACTIVE /\ ~radio
             /\ netif = "null" /\ eventHandle = {}
  <2>1. Disables(t)
    BY <1>1 DEF IInv, CallInv, At
  <2>2. "WIFI_EVENT" \notin eventHandle /\ "IP_EVENT" \notin eventHandle
    BY <1>1, <2>1 DEF IInv, DisableInv, At
  <2>3. eventHandle = {}
    BY <1>1, <2>2 DEF IInv, TypeOK, Bases
  <2> QED BY <1>1, <2>1, <2>3 DEF IInv, DisableInv, At
<1>2. IInv => DisableIsComplete
  BY <1>1 DEF DisableIsComplete
<1> QED BY <1>2, Invariance, PTL

\* wifi_device.c 384-435.  With one enabling task, and any number of disabling
\* ones, nothing that exists is out of reach of DevWifiInfo.
THEOREM NothingLeaksHolds == Spec => []NothingLeaks
<1>1. IInv => NothingLeaks
  BY DEF IInv, LeakInv, OneEnables, NothingLeaks
<1> QED BY <1>1, Invariance, PTL

\* wifi_device.c 437-464, 872-924.  A lone client whose device is active has the
\* netif of the driver's mode.
THEOREM ActiveHasNetifHolds == Spec => []ActiveHasNetif
<1>1. IInv => ActiveHasNetif
  BY DEF IInv, ClientInv, OneClient, ActiveHasNetif
<1> QED BY <1>1, Invariance, PTL
=============================================================================
