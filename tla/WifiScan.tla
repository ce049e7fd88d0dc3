------------------------------ MODULE WifiScan ------------------------------
(***************************************************************************)
(* Scanning in hals/drivers/wifi_lite/wifi_device.c: Scan and AdvanceScan  *)
(* start a scan of the driver and then set scan_ok, the event-loop task    *)
(* sets scan_ok when the driver reports the end, GetScanInfoList polls it. *)
(* None of them takes WifiLock.  A session task enables and disables the   *)
(* device, which clears scan_ok; WifiDevice has that part in full.         *)
(*                                                                         *)
(* The driver is external: esp_wifi_scan_stop ends a running scan, and a   *)
(* scan that ends or is stopped posts one SCAN_DONE event.                 *)
(***************************************************************************)
EXTENDS Naturals

CONSTANTS Scanners,    \* tasks that call Scan or AdvanceScan
          Readers,     \* tasks that call GetScanInfoList
          MaxIndex,    \* MAX_INDEX, the rounds of the polling loop
          MaxPending,  \* bound of the event queue
          OnlyScanner  \* the one that scans in a calm behaviour

ASSUME DisjointAssumption == Scanners \cap Readers = {}
ASSUME MaxIndexAssumption == MaxIndex \in Nat \ {0}
ASSUME MaxPendingAssumption == MaxPending \in Nat \ {0}
ASSUME OnlyScannerAssumption == OnlyScanner \in Scanners

VARIABLES
  active,    \* DevWifiInfo.staStatus = WIFI_ACTIVE
  scan_ok,   \* DevWifiInfo.scan_ok
  handler,   \* event_handler is registered
  scanning,  \* the driver scans
  pending,   \* SCAN_DONE events posted and not yet handled
  fresh,     \* history: a SCAN_DONE was handled since the last list
  session,   \* where the session task is
  pc,        \* where each client task is
  i,         \* the readers' loop counter
  calm       \* one task scans, the device stays enabled and no SCAN_DONE
             \* comes between esp_wifi_scan_start and the assignment of
             \* scan_ok that follows it; never changes

driverVars == <<scanning, pending>>
vars == <<active, scan_ok, handler, driverVars, fresh, session, pc, i, calm>>

SCANING == 80   \* 0x50: a scan is under way
TAKEN == 81     \* 0x51: the list of the last scan was handed out
Stopped == {"off", "on1", "on2"}   \* session labels with the driver stopped
Clients == Scanners \cup Readers

TypeOK ==
  /\ active \in BOOLEAN /\ handler \in BOOLEAN /\ fresh \in BOOLEAN
  /\ scan_ok \in {0, 1, SCANING, TAKEN}
  /\ scanning \in BOOLEAN /\ pending \in 0 .. MaxPending
  /\ session \in {"on", "off1", "off2", "off3", "off", "on1", "on2"}
  /\ pc \in [Clients -> {"idle", "stop", "start", "mark",
                         "look", "poll", "test", "take"}]
  /\ i \in [Readers -> 0 .. MaxIndex]
  /\ calm \in BOOLEAN

\* The device is enabled in station mode and has not scanned yet.
Init ==
  /\ active = TRUE /\ scan_ok = 0 /\ handler = TRUE
  /\ scanning = FALSE /\ pending = 0 /\ fresh = FALSE
  /\ session = "on"
  /\ pc = [c \in Clients |-> "idle"]
  /\ i = [r \in Readers |-> 0]
  /\ calm \in BOOLEAN

GoTo(c, label) == pc' = [pc EXCEPT ![c] = label]

-----------------------------------------------------------------------------
(* Scan and AdvanceScan *)

\* staStatus is tested, the observers are told, and AdvanceScan may refuse
\* its parameters.
ScanEnter(c) ==
  /\ pc[c] = "idle"
  /\ calm => c = OnlyScanner
  /\ active /\ GoTo(c, "stop")
  /\ UNCHANGED <<active, scan_ok, handler, driverVars, fresh, session, i>>

ScanStop(c) ==
  /\ pc[c] = "stop"
  /\ scanning => pending < MaxPending
  /\ pending' = IF scanning THEN pending + 1 ELSE pending
  /\ scanning' = FALSE
  /\ GoTo(c, "start")
  /\ UNCHANGED <<active, scan_ok, handler, fresh, session, i>>

\* Mutant of ScanStart: the failure of the start is not tested.
ScanStartUntested(c) ==
  /\ pc[c] = "start"
  /\ scanning' \in {TRUE, scanning} /\ GoTo(c, "mark")
  /\ UNCHANGED <<active, scan_ok, handler, pending, fresh, session, i>>

\* The start may fail, and does if the driver has been stopped.
ScanStart(c) ==
  /\ pc[c] = "start"
  /\ \/ session \notin Stopped /\ scanning' = TRUE /\ GoTo(c, "mark")
     \/ GoTo(c, "idle") /\ UNCHANGED scanning
  /\ UNCHANGED <<active, scan_ok, handler, pending, fresh, session, i>>

ScanMark(c) ==
  /\ pc[c] = "mark"
  /\ scan_ok' = SCANING
  /\ GoTo(c, "idle")
  /\ UNCHANGED <<active, handler, driverVars, fresh, session, i>>

Scan(c) == ScanEnter(c) \/ ScanStop(c) \/ ScanStart(c) \/ ScanMark(c)

-----------------------------------------------------------------------------
(* GetScanInfoList *)

ListEnter(r) ==
  /\ pc[r] = "idle" /\ active
  /\ GoTo(r, "look")
  /\ UNCHANGED <<active, scan_ok, handler, driverVars, fresh, session, i>>

ListLook(r) ==
  /\ pc[r] = "look"
  /\ GoTo(r, IF scan_ok = SCANING THEN "poll" ELSE "test")
  /\ i' = [i EXCEPT ![r] = 0]
  /\ UNCHANGED <<active, scan_ok, handler, driverVars, fresh, session>>

\* for (i = 0; i < MAX_INDEX && scan_ok == SCANING; ++i) sleep; when all
\* rounds are used up the answer is BUSY, even if the scan ended in the last.
ListPoll(r) ==
  /\ pc[r] = "poll"
  /\ \/ i[r] < MaxIndex /\ scan_ok = SCANING
        /\ i' = [i EXCEPT ![r] = @ + 1] /\ UNCHANGED pc
     \/ i[r] < MaxIndex /\ scan_ok # SCANING /\ GoTo(r, "test") /\ UNCHANGED i
     \/ i[r] = MaxIndex /\ GoTo(r, "idle") /\ UNCHANGED i
  /\ UNCHANGED <<active, scan_ok, handler, driverVars, fresh, session>>

\* Anything but a finished scan is answered by an empty list.
ListTest(r) ==
  /\ pc[r] = "test"
  /\ GoTo(r, IF scan_ok = 1 THEN "take" ELSE "idle")
  /\ UNCHANGED <<active, scan_ok, handler, driverVars, fresh, session, i>>

\* Mutant of ListTake: scan_ok keeps saying that a list is there.
ListTakeUnmarked(r) ==
  /\ pc[r] = "take" /\ fresh' = FALSE /\ GoTo(r, "idle")
  /\ UNCHANGED <<active, scan_ok, handler, driverVars, session, i>>

\* GetScanInfoListNext marks the list as handed out, then fills the result.
ListTake(r) ==
  /\ pc[r] = "take"
  /\ scan_ok' = TAKEN
  /\ fresh' = FALSE
  /\ GoTo(r, "idle")
  /\ UNCHANGED <<active, handler, driverVars, session, i>>

GetScanInfoList(r) ==
  \/ ListEnter(r) \/ ListLook(r) \/ ListPoll(r) \/ ListTest(r) \/ ListTake(r)

-----------------------------------------------------------------------------
(* The driver, the event-loop task and the session task *)

ScanCompletes ==
  /\ scanning /\ pending < MaxPending
  /\ scanning' = FALSE /\ pending' = pending + 1
  /\ UNCHANGED <<active, scan_ok, handler, fresh, session, pc, i>>

\* Mutant of ScanDone: the handler tells the observers and forgets scan_ok.
ScanDoneUnset ==
  /\ pending > 0
  /\ pending' = pending - 1
  /\ fresh' = (handler \/ fresh)
  /\ UNCHANGED <<active, scan_ok, handler, scanning, session, pc, i>>

\* wifi_event_scan_down_proc, if event_handler is still registered.
ScanDone ==
  /\ pending > 0
  /\ calm => \A c \in Scanners : pc[c] # "mark"
  /\ pending' = pending - 1
  /\ scan_ok' = IF handler THEN 1 ELSE scan_ok
  /\ fresh' = (handler \/ fresh)
  /\ UNCHANGED <<active, handler, scanning, session, pc, i>>

\* DisableWifi: staStatus, scan_ok, the handler, then the driver; EnableWifi:
\* scan_ok again (UnregisterEspEvent), the handler, the driver and staStatus.
Session ==
  LET Step(from, to) == session = from /\ session' = to IN
  /\ ~calm
  /\ \/ /\ Step("on", "off1")
        /\ active' = FALSE /\ UNCHANGED <<scan_ok, handler, driverVars>>
     \/ /\ Step("off1", "off2")
        /\ scan_ok' = 0 /\ UNCHANGED <<active, handler, driverVars>>
     \/ /\ Step("off2", "off3")
        /\ handler' = FALSE /\ UNCHANGED <<active, scan_ok, driverVars>>
     \/ /\ Step("off3", "off")
        /\ scanning' = FALSE /\ UNCHANGED <<active, scan_ok, handler, pending>>
     \/ /\ Step("off", "on1")
        /\ scan_ok' = 0 /\ UNCHANGED <<active, handler, driverVars>>
     \/ /\ Step("on1", "on2")
        /\ handler' = TRUE /\ UNCHANGED <<active, scan_ok, driverVars>>
     \/ /\ Step("on2", "on")
        /\ active' = TRUE /\ UNCHANGED <<scan_ok, handler, driverVars>>
  /\ UNCHANGED <<fresh, pc, i>>

Next ==
  /\ \/ \E c \in Scanners : Scan(c)
     \/ \E r \in Readers : GetScanInfoList(r)
     \/ ScanCompletes \/ ScanDone \/ Session
  /\ UNCHANGED calm

Spec == Init /\ [][Next]_vars

\* A scanner finishes its call, a scan ends by itself and the loop handles its
\* events.
Fairness ==
  LET Runs(step) == step /\ UNCHANGED calm IN
  /\ \A c \in Scanners :
       WF_vars(Runs(ScanStop(c) \/ ScanStart(c) \/ ScanMark(c)))
  /\ WF_vars(Runs(ScanCompletes)) /\ SF_vars(Runs(ScanDone))

FairSpec == Spec /\ Fairness

-----------------------------------------------------------------------------
(* Properties *)

\* wifi_device.c 270-276, 613-670.  A list is handed out only if a scan has
\* ended since the last one was: a lone reader never gets a scan twice.  (Two
\* readers may both pass the test of scan_ok before one of them resets it.)
LoneReader == \A r, s \in Readers : r = s
ListIsFresh == LoneReader => \A r \in Readers : pc[r] = "take" => fresh

\* wifi_device.c 481-497, 653-661, 926-966.  In a calm behaviour, while scan_ok
\* says that a scan is under way there is one, or its end is still in the event
\* queue: a reader never waits for an event that has been consumed already.
ScaningIsTrue == calm /\ scan_ok = SCANING => scanning \/ pending > 0

\* wifi_device.c 481-497, 926-966, 270-276.  In a calm behaviour, a scan
\* reported as under way ends, whenever readers and scanners run.
ScaningEnds == calm /\ scan_ok = SCANING ~> scan_ok # SCANING
=============================================================================
