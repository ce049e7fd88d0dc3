----------------------------- MODULE WifiDevice -----------------------------
(***************************************************************************)
(* The life cycle of the Wi-Fi device of hals/drivers/wifi_lite/           *)
(* wifi_device.c: EnableWifi, EnableHotspot and DisableWifi (which is also *)
(* DisableHotspot), each called by any task, with their helpers            *)
(* UnregisterEspEvent and RegisterEspEvent, interleaved at every access to *)
(* shared state and every ESP-IDF call, and with the ESP event-loop task.  *)
(*                                                                         *)
(* WifiLock/WifiUnlock are the recursive lock of RecLock, which WifiMutex  *)
(* implements.  ESP-IDF is external: its calls succeed or fail as their    *)
(* documented results allow.  The event loop runs one handler at a time    *)
(* under a mutex that (un)registering a handler also takes.  scan_ok, which *)
(* UnregisterEspEvent clears next to ip_ok, is in WifiScan.                *)
(***************************************************************************)
EXTENDS Integers

CONSTANTS Tasks,         \* the client tasks
          NoTask,        \* the owner of a free lock
          Casts,         \* who calls what: functions from Tasks to Roles
          MaxLive,       \* heap bound: netifs, and handlers of one event base
          PollLimit      \* DELAY_LOOP_TIMES, the rounds waiting for ip_ok

ASSUME NoTaskAssumption == NoTask \notin Tasks
ASSUME CastsAssumption ==
  Casts \subseteq [Tasks -> {"enables", "disables", "absent"}]
ASSUME MaxLiveAssumption == MaxLive \in Nat \ {0}
ASSUME PollLimitAssumption == PollLimit \in Nat

VARIABLES
  owner, depth,   \* the lock behind muxHandle
  staStatus,      \* DevWifiInfo.staStatus, and apStatus: they are one union
  ip_ok,          \* DevWifiInfo.ip_ok
  netif,          \* DevWifiInfo.netif: "null" or the kind it points at
  eventHandle,    \* DevWifiInfo.eventHandle[]: the non-NULL ones
  netifLive,      \* ESP-IDF: how many netifs exist
  handlersLive,   \* ESP-IDF: how many handlers each event base has
  mode, radio,    \* ESP-IDF: the Wi-Fi mode and whether Wi-Fi is started
  pending,        \* ESP-IDF: events posted and not yet dispatched
  loop,           \* the event-loop task: "idle" or inside a "callback"
  pc, op, err,    \* per task: where it is, in which call, the local err
  polls,          \* per task: rounds of the ip_ok loop
  role            \* per task: which calls it makes; never changes

lockVars == <<owner, depth>>
infoVars == <<staStatus, ip_ok, netif, eventHandle>>
espVars == <<netifLive, handlersLive, mode, radio>>
loopVars == <<pending, loop>>
callVars == <<op, err, polls>>
vars == <<lockVars, infoVars, espVars, loopVars, pc, callVars, role>>

WIFI_ACTIVE == "active"
WIFI_NOT_ACTIVE == "not_active"
Ops == {"EnableWifi", "EnableHotspot", "DisableWifi"}
Bases == {"WIFI_EVENT", "IP_EVENT"}
Modes == {"STA", "AP"}

\* Labels between WifiLock and WifiUnlock; the nested ones only in DisableWifi.
UnregBody == {"clearFlags", "unregWifi", "unregIp", "destroyNetif",
              "unregUnlock"}
LockedBody == {"createNetif", "regWifi", "regIp", "setMode", "regUnlock",
               "config", "start", "setActive", "startUnlock",
               "clearStatus", "wifiStop", "disUnlock"}
FreeBody == {"idle", "check", "unregLock", "regLock", "regReturn",
             "startLock", "poll", "disLock"}

TypeOK ==
  /\ owner \in Tasks \cup {NoTask} /\ depth \in 0 .. 2
  /\ staStatus \in {WIFI_ACTIVE, WIFI_NOT_ACTIVE}
  /\ ip_ok \in {0, 1}
  /\ netif \in {"null"} \cup Modes
  /\ eventHandle \in SUBSET Bases
  /\ netifLive \in 0 .. MaxLive
  /\ handlersLive \in [Bases -> 0 .. MaxLive]
  /\ mode \in Modes /\ radio \in BOOLEAN
  /\ pending \in SUBSET Bases /\ loop \in {"idle", "callback"}
  /\ pc \in [Tasks -> UnregBody \cup LockedBody \cup FreeBody]
  /\ op \in [Tasks -> Ops \cup {"none"}] /\ err \in [Tasks -> BOOLEAN]
  /\ polls \in [Tasks -> 0 .. PollLimit]
  /\ role \in Casts

\* After DeviceWifiStart: Wi-Fi is initialised and nothing is enabled.
Init ==
  /\ role \in Casts
  /\ owner = NoTask /\ depth = 0
  /\ staStatus = WIFI_NOT_ACTIVE /\ ip_ok = 0
  /\ netif = "null" /\ eventHandle = {}
  /\ netifLive = 0 /\ handlersLive = [b \in Bases |-> 0]
  /\ mode = "STA" /\ radio = FALSE
  /\ pending = {} /\ loop = "idle"
  /\ pc = [t \in Tasks |-> "idle"] /\ op = [t \in Tasks |-> "none"]
  /\ err = [t \in Tasks |-> FALSE] /\ polls = [t \in Tasks |-> 0]

Lock == INSTANCE RecLock

At(t, label) == pc[t] = label
GoTo(t, label) == pc' = [pc EXCEPT ![t] = label]
ModeOf(t) == IF op[t] = "EnableHotspot" THEN "AP" ELSE "STA"

\* The end of a call of task t: its local variables go out of scope.
Return(t) ==
  /\ GoTo(t, "idle")
  /\ op' = [op EXCEPT ![t] = "none"]
  /\ err' = [err EXCEPT ![t] = FALSE]
  /\ polls' = [polls EXCEPT ![t] = 0]

WifiLockAt(t, from, to) ==
  /\ At(t, from) /\ Lock!Acquire(t) /\ GoTo(t, to)
  /\ UNCHANGED <<infoVars, espVars, loopVars, callVars>>

-----------------------------------------------------------------------------
(* The entry of each call: staStatus is tested without the lock. *)

Call(t) ==
  /\ At(t, "idle")
  /\ role[t] # "absent"
  /\ \E o \in IF role[t] = "enables" THEN Ops ELSE {"DisableWifi"} :
       op' = [op EXCEPT ![t] = o]
  /\ GoTo(t, "check")
  /\ UNCHANGED <<err, polls, lockVars, infoVars, espVars, loopVars>>

\* Mutant of EnableCheck: the old session is not unregistered first.
EnableSkipsUnregister(t) ==
  /\ At(t, "check") /\ op[t] # "DisableWifi"
  /\ \/ staStatus = WIFI_ACTIVE /\ Return(t)
     \/ staStatus # WIFI_ACTIVE /\ GoTo(t, "regLock") /\ UNCHANGED callVars
  /\ UNCHANGED <<lockVars, infoVars, espVars, loopVars>>

EnableCheck(t) ==
  /\ At(t, "check") /\ op[t] # "DisableWifi"
  /\ \/ staStatus = WIFI_ACTIVE /\ Return(t)  \* BUSY
     \/ staStatus # WIFI_ACTIVE /\ GoTo(t, "unregLock") /\ UNCHANGED callVars
  /\ UNCHANGED <<lockVars, infoVars, espVars, loopVars>>

DisableCheck(t) ==
  /\ At(t, "check") /\ op[t] = "DisableWifi"
  /\ \/ staStatus = WIFI_NOT_ACTIVE /\ Return(t)  \* NOT_STARTED
     \/ staStatus # WIFI_NOT_ACTIVE /\ GoTo(t, "disLock") /\ UNCHANGED callVars
  /\ UNCHANGED <<lockVars, infoVars, espVars, loopVars>>

-----------------------------------------------------------------------------
(* UnregisterEspEvent *)

UnregLock(t) == WifiLockAt(t, "unregLock", "clearFlags")

ClearFlags(t) ==
  /\ At(t, "clearFlags")
  /\ ip_ok' = 0
  /\ GoTo(t, "unregWifi")
  /\ UNCHANGED <<lockVars, staStatus, netif, eventHandle, espVars, loopVars,
                 callVars>>

\* Waits for the event loop to leave the handler it is in, if there is anything
\* to unregister.
UnregisterHandler(t, base, from, to) ==
  /\ At(t, from)
  /\ base \in eventHandle => loop = "idle"
  /\ eventHandle' = eventHandle \ {base}
  /\ handlersLive' = IF base \in eventHandle
                       THEN [handlersLive EXCEPT ![base] = @ - 1]
                       ELSE handlersLive
  /\ GoTo(t, to)
  /\ UNCHANGED <<lockVars, staStatus, ip_ok, netif, netifLive, mode, radio,
                 loopVars, callVars>>

DestroyNetif(t) ==
  /\ At(t, "destroyNetif")
  /\ netif' = "null"
  /\ netifLive' = IF netif # "null" THEN netifLive - 1 ELSE netifLive
  /\ GoTo(t, "unregUnlock")
  /\ UNCHANGED <<lockVars, staStatus, ip_ok, eventHandle, handlersLive, mode,
                 radio, loopVars, callVars>>

\* Mutant of UnregUnlock: the nested unlock frees the lock.
UnregUnlockFrees(t) ==
  /\ At(t, "unregUnlock")
  /\ owner' = NoTask /\ depth' = 0
  /\ GoTo(t, IF op[t] = "DisableWifi" THEN "wifiStop" ELSE "regLock")
  /\ UNCHANGED <<infoVars, espVars, loopVars, callVars>>

UnregUnlock(t) ==
  /\ At(t, "unregUnlock") /\ Lock!Release(t)
  /\ GoTo(t, IF op[t] = "DisableWifi" THEN "wifiStop" ELSE "regLock")
  /\ UNCHANGED <<infoVars, espVars, loopVars, callVars>>

UnregisterEspEvent(t) ==
  \/ UnregLock(t) \/ ClearFlags(t)
  \/ UnregisterHandler(t, "WIFI_EVENT", "unregWifi", "unregIp")
  \/ UnregisterHandler(t, "IP_EVENT", "unregIp", "destroyNetif")
  \/ DestroyNetif(t) \/ UnregUnlock(t)

-----------------------------------------------------------------------------
(* RegisterEspEvent *)

\* info->netif is overwritten, with NULL when the creation fails.
CreateNetif(t) ==
  /\ At(t, "createNetif")
  /\ \/ netifLive < MaxLive /\ netif' = ModeOf(t) /\ netifLive' = netifLive + 1
     \/ netif' = "null" /\ UNCHANGED netifLive
  /\ GoTo(t, "regWifi")
  /\ UNCHANGED <<lockVars, staStatus, ip_ok, eventHandle, handlersLive, mode,
                 radio, loopVars, callVars>>

\* A failure is only logged and leaves the handle as it was.
RegisterHandler(t, base, from, to) ==
  /\ At(t, from) /\ loop = "idle"
  /\ \/ /\ handlersLive[base] < MaxLive
        /\ handlersLive' = [handlersLive EXCEPT ![base] = @ + 1]
        /\ eventHandle' = eventHandle \cup {base}
     \/ UNCHANGED <<handlersLive, eventHandle>>
  /\ GoTo(t, to)
  /\ UNCHANGED <<lockVars, staStatus, ip_ok, netif, netifLive, mode, radio,
                 loopVars, callVars>>

\* err is overwritten by each call: the last one decides.
SetMode(t) ==
  /\ At(t, "setMode")
  /\ \/ mode' = ModeOf(t) /\ err' = [err EXCEPT ![t] = FALSE]
     \/ err' = [err EXCEPT ![t] = TRUE] /\ UNCHANGED mode
  /\ GoTo(t, "regUnlock")
  /\ UNCHANGED <<lockVars, infoVars, netifLive, handlersLive, radio, loopVars,
                 op, polls>>

RegUnlock(t) ==
  /\ At(t, "regUnlock") /\ Lock!Release(t) /\ GoTo(t, "regReturn")
  /\ UNCHANGED <<infoVars, espVars, loopVars, callVars>>

\* Mutant of RegReturn: a NULL netif is not reported.
RegReturnIgnoresNetif(t) ==
  /\ At(t, "regReturn")
  /\ \/ err[t] /\ Return(t)
     \/ ~err[t] /\ GoTo(t, "startLock") /\ UNCHANGED callVars
  /\ UNCHANGED <<lockVars, infoVars, espVars, loopVars>>

\* The result reads info->netif after WifiUnlock.
RegReturn(t) ==
  /\ At(t, "regReturn")
  /\ \/ /\ netif = "null" \/ err[t]
        /\ Return(t)  \* IFACE_INVALID, from EnableHotspot INVALID_ARGS
     \/ netif # "null" /\ ~err[t] /\ GoTo(t, "startLock") /\ UNCHANGED callVars
  /\ UNCHANGED <<lockVars, infoVars, espVars, loopVars>>

RegisterEspEvent(t) ==
  \/ WifiLockAt(t, "regLock", "createNetif") \/ CreateNetif(t)
  \/ RegisterHandler(t, "WIFI_EVENT", "regWifi", "regIp")
  \/ RegisterHandler(t, "IP_EVENT", "regIp", "setMode")
  \/ SetMode(t) \/ RegUnlock(t) \/ RegReturn(t)

-----------------------------------------------------------------------------
(* The rest of EnableWifi and EnableHotspot *)

StartLock(t) ==
  WifiLockAt(t, "startLock",
             IF op[t] = "EnableHotspot" THEN "config" ELSE "start")

\* EnableHotspot: ip_ok = 0 and esp_wifi_set_config.
HotspotConfig(t) ==
  /\ At(t, "config")
  /\ ip_ok' = 0
  /\ GoTo(t, "start")
  /\ UNCHANGED <<lockVars, staStatus, netif, eventHandle, espVars, loopVars,
                 callVars>>

\* Mutant of WifiStart: the result of esp_wifi_start is not tested.
WifiStartUntested(t) ==
  /\ At(t, "start")
  /\ radio' \in {TRUE, radio}
  /\ GoTo(t, "setActive")
  /\ UNCHANGED <<lockVars, infoVars, netifLive, handlersLive, mode, loopVars,
                 callVars>>

WifiStart(t) ==
  /\ At(t, "start")
  /\ \/ radio' = TRUE /\ GoTo(t, "setActive") /\ UNCHANGED err
     \/ /\ err' = [err EXCEPT ![t] = TRUE]
        /\ GoTo(t, "startUnlock") /\ UNCHANGED radio
  /\ UNCHANGED <<lockVars, infoVars, netifLive, handlersLive, mode, loopVars,
                 op, polls>>

SetActive(t) ==
  /\ At(t, "setActive")
  /\ staStatus' = WIFI_ACTIVE
  /\ GoTo(t, "startUnlock")
  /\ UNCHANGED <<lockVars, ip_ok, netif, eventHandle, espVars, loopVars,
                 callVars>>

StartUnlock(t) ==
  /\ At(t, "startUnlock") /\ Lock!Release(t)
  /\ \/ op[t] = "EnableWifi" /\ Return(t)  \* SUCCESS or IFACE_INVALID
     \/ op[t] = "EnableHotspot" /\ err[t] /\ Return(t)  \* BUSY
     \/ /\ op[t] = "EnableHotspot" /\ ~err[t]
        /\ GoTo(t, "poll") /\ UNCHANGED callVars
  /\ UNCHANGED <<infoVars, espVars, loopVars>>

\* Mutant of PollIp: no limit on the rounds.
PollIpForever(t) ==
  /\ At(t, "poll") /\ ip_ok = 1 /\ Return(t)
  /\ UNCHANGED <<lockVars, infoVars, espVars, loopVars>>

\* EnableHotspot sleeps and looks at ip_ok, and gives up silently.
PollIp(t) ==
  /\ At(t, "poll")
  /\ \/ (ip_ok = 1 \/ polls[t] = PollLimit) /\ Return(t)  \* SUCCESS
     \/ /\ ip_ok # 1 /\ polls[t] < PollLimit
        /\ polls' = [polls EXCEPT ![t] = @ + 1]
        /\ UNCHANGED <<pc, op, err>>
  /\ UNCHANGED <<lockVars, infoVars, espVars, loopVars>>

-----------------------------------------------------------------------------
(* DisableWifi: UnregisterEspEvent runs nested in its lock. *)

DisLock(t) == WifiLockAt(t, "disLock", "clearStatus")

\* staStatus first; esp_wifi_disconnect, whose result is ignored, follows.
ClearStatus(t) ==
  /\ At(t, "clearStatus")
  /\ staStatus' = WIFI_NOT_ACTIVE
  /\ GoTo(t, "unregLock")
  /\ UNCHANGED <<lockVars, ip_ok, netif, eventHandle, espVars, loopVars,
                 callVars>>

WifiStop(t) ==
  /\ At(t, "wifiStop")
  /\ radio' = FALSE
  /\ GoTo(t, "disUnlock")
  /\ UNCHANGED <<lockVars, infoVars, netifLive, handlersLive, mode, loopVars,
                 callVars>>

DisUnlock(t) ==
  /\ At(t, "disUnlock") /\ Lock!Release(t) /\ Return(t)  \* SUCCESS
  /\ UNCHANGED <<infoVars, espVars, loopVars>>

-----------------------------------------------------------------------------
(* The driver and the event-loop task *)

\* A started driver posts events; they wait in the loop's queue.
PostEvent(base) ==
  /\ radio /\ base \notin pending
  /\ base = "IP_EVENT" => mode = "STA"
  /\ pending' = pending \cup {base}
  /\ UNCHANGED <<lockVars, infoVars, espVars, loop, pc, callVars>>

\* event_got_ip_handler, if one is registered when the event comes up.
GotIp ==
  /\ loop = "idle" /\ "IP_EVENT" \in pending
  /\ pending' = pending \ {"IP_EVENT"}
  /\ ip_ok' = IF handlersLive["IP_EVENT"] > 0 THEN 1 ELSE ip_ok
  /\ UNCHANGED <<lockVars, staStatus, netif, eventHandle, espVars, loop, pc,
                 callVars>>

\* event_handler calls the clients' callbacks inside the loop's mutex.
EventHandler ==
  /\ loop = "idle" /\ "WIFI_EVENT" \in pending
  /\ pending' = pending \ {"WIFI_EVENT"}
  /\ loop' = IF handlersLive["WIFI_EVENT"] > 0 THEN "callback" ELSE "idle"
  /\ UNCHANGED <<lockVars, infoVars, espVars, pc, callVars>>

\* The clients' callbacks return without taking the lock.
CallbackReturns ==
  /\ loop = "callback"
  /\ loop' = "idle"
  /\ UNCHANGED <<lockVars, infoVars, espVars, pending, pc, callVars>>

LoopStep == GotIp \/ EventHandler \/ CallbackReturns

-----------------------------------------------------------------------------
\* A step of a call in progress.
TaskStep(t) ==
  \/ EnableCheck(t) \/ DisableCheck(t)
  \/ UnregisterEspEvent(t) \/ RegisterEspEvent(t)
  \/ StartLock(t) \/ HotspotConfig(t) \/ WifiStart(t) \/ SetActive(t)
  \/ StartUnlock(t) \/ PollIp(t)
  \/ DisLock(t) \/ ClearStatus(t) \/ WifiStop(t) \/ DisUnlock(t)

Step ==
  \/ \E t \in Tasks : Call(t) \/ TaskStep(t)
  \/ \E base \in Bases : PostEvent(base)
  \/ LoopStep

Next == Step /\ UNCHANGED role

Spec == Init /\ [][Next]_vars

\* LiteOS-M hands a mutex it releases to a waiting task, so a call that keeps
\* finding the lock or the event loop free some of the time gets in.
Fairness == /\ \A t \in Tasks : SF_vars(TaskStep(t) /\ UNCHANGED role)
            /\ WF_vars(LoopStep /\ UNCHANGED role)

FairSpec == Spec /\ Fairness

-----------------------------------------------------------------------------
(* Properties *)

AtMostOne(S) == \A t, u \in S : t = u

\* wifi_device.c 437-479, 872-924.  Whoever interleaves, while nobody holds
\* the lock staStatus says whether the driver is started: an enable and a
\* disable never end with the status of one and the radio of the other.
StatusMatchesRadio ==
  owner = NoTask => (staStatus = WIFI_ACTIVE <=> radio)

\* wifi_device.c 466-479.  DisableWifi keeps its lock across the nested one
\* of UnregisterEspEvent: when it is about to unlock, nothing of the session
\* is left, and no other task has started a new one meanwhile.
DisableIsComplete ==
  \A t \in Tasks :
    At(t, "disUnlock") =>
      /\ staStatus = WIFI_NOT_ACTIVE /\ ~radio
      /\ netif = "null" /\ eventHandle = {}

\* wifi_device.c 384-435.  Every netif and handler that exists is the one
\* DevWifiInfo points at, so the next UnregisterEspEvent releases it: nothing
\* leaks as long as one task at a time enables, whoever disables meanwhile.
NothingLeaks ==
  AtMostOne({t \in Tasks : role[t] = "enables"}) =>
    /\ netifLive = IF netif = "null" THEN 0 ELSE 1
    /\ \A b \in Bases : handlersLive[b] = IF b \in eventHandle THEN 1 ELSE 0

\* wifi_device.c 437-464, 872-924.  With a single client, an active device has
\* the netif of the mode the driver is in.
ActiveHasNetif ==
  (/\ staStatus = WIFI_ACTIVE /\ \A t \in Tasks : At(t, "idle")
   /\ AtMostOne({t \in Tasks : role[t] # "absent"}))
    => netif = mode

\* wifi_device.c 437-479, 872-924.  Every call returns, whatever the other
\* tasks and the event loop do, as long as no callback takes the lock.
EveryCallReturns ==
  \A t \in Tasks : At(t, "check") ~> At(t, "idle")

\* README_zh.md 56 offers a status query of station and hotspot mode: a device
\* that is idle in station mode is not reported as an active hotspot.
IsHotspotActive == staStatus = WIFI_ACTIVE
HotspotQueryTellsMode ==
  (IsHotspotActive /\ \A t \in Tasks : At(t, "idle")) => mode = "AP"
=============================================================================
