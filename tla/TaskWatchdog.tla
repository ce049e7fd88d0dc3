---------------------------- MODULE TaskWatchdog ----------------------------
(***************************************************************************)
(* The HAL watchdog hals/iot_hardware/wifiiot_lite/hal_iot_watchdog.c: it  *)
(* switches the task watchdog (TWDT) of ESP-IDF on for the idle task and   *)
(* off again.  g_watchdogStatus is tested at the beginning of a call and   *)
(* stored at its end, without a lock.                                      *)
(*                                                                         *)
(* The TWDT is external: each of its calls is atomic; it adds a task once, *)
(* and deinitialises only while it watches nobody.  A build that           *)
(* configures it starts with the idle task watched; one that does not      *)
(* leaves esp_task_wdt_init out.  The idle task has an id (g_idleTaskID    *)
(* is not 0), and no other task is watched.  IoTWatchDogKick, which resets *)
(* the entry of its caller, changes none of this.                          *)
(***************************************************************************)
CONSTANT Tasks   \* the tasks that call IoTWatchDogEnable and ...Disable

VARIABLES
  configured,        \* CONFIG_ESP_TASK_WDT
  g_watchdogStatus,
  inited,            \* TWDT: initialised
  watched,           \* TWDT: it watches the idle task
  pc,                \* per task: its next step
  crowded            \* history: a function was executed by two tasks at once

vars == <<configured, g_watchdogStatus, inited, watched, pc, crowded>>

Enabling == {"init", "add", "mark enabled", "roll back"}
Disabling == {"delete", "deinit", "mark disabled"}

TypeOK ==
  /\ configured \in BOOLEAN /\ inited \in BOOLEAN /\ watched \in BOOLEAN
  /\ g_watchdogStatus \in {"enabled", "disabled"} /\ crowded \in BOOLEAN
  /\ pc \in [Tasks -> {"out"} \cup Enabling \cup Disabling]

Init ==
  /\ configured \in BOOLEAN
  /\ g_watchdogStatus = IF configured THEN "enabled" ELSE "disabled"
  /\ inited = configured /\ watched = configured
  /\ pc = [t \in Tasks |-> "out"]
  /\ crowded = FALSE

\* t goes from one step to another, and changes the rest as it says.
Step(t, from, to) ==
  /\ pc[t] = from /\ pc' = [pc EXCEPT ![t] = to]
  /\ UNCHANGED configured

Twdt == <<inited, watched>>
Notes == <<g_watchdogStatus, crowded>>

\* The call begins in the company of those already inside the function.
Enter(t, first, function) ==
  /\ Step(t, "out", first)
  /\ crowded' = (crowded \/ \E u \in Tasks : pc[u] \in function)
  /\ UNCHANGED <<Twdt, g_watchdogStatus>>

-----------------------------------------------------------------------------
(* IoTWatchDogEnable *)

\* Mutant of EnableTest: the status is not looked at.
EnableTestMissing(t) == Enter(t, "init", Enabling)

EnableTest(t) == g_watchdogStatus = "disabled" /\ Enter(t, "init", Enabling)

\* An initialised watchdog takes another init; there may be no memory.
WdtInit(t) ==
  \/ /\ Step(t, "init", "add")
     /\ inited' = (inited \/ configured) /\ UNCHANGED <<watched, Notes>>
  \/ configured /\ Step(t, "init", "out") /\ UNCHANGED <<Twdt, Notes>>

\* Fails on a task already watched, without init, or for want of memory.
WdtAdd(t) ==
  \/ /\ Step(t, "add", "mark enabled")
     /\ inited /\ ~watched /\ watched' = TRUE
     /\ UNCHANGED <<inited, Notes>>
  \/ Step(t, "add", "roll back") /\ UNCHANGED <<Twdt, Notes>>

MarkEnabled(t) ==
  /\ Step(t, "mark enabled", "out")
  /\ g_watchdogStatus' = "enabled" /\ UNCHANGED <<Twdt, crowded>>

RollBack(t) ==
  /\ Step(t, "roll back", "out")
  /\ inited' = (inited /\ watched) /\ UNCHANGED <<watched, Notes>>

-----------------------------------------------------------------------------
(* IoTWatchDogDisable: a call that fails ends it. *)

DisableTest(t) == g_watchdogStatus = "enabled" /\ Enter(t, "delete", Disabling)

WdtDelete(t) ==
  IF watched
  THEN /\ Step(t, "delete", "deinit")
       /\ watched' = FALSE /\ UNCHANGED <<inited, Notes>>
  ELSE Step(t, "delete", "out") /\ UNCHANGED <<Twdt, Notes>>

WdtDeinit(t) ==
  IF inited /\ ~watched
  THEN /\ Step(t, "deinit", "mark disabled")
       /\ inited' = FALSE /\ UNCHANGED <<watched, Notes>>
  ELSE Step(t, "deinit", "out") /\ UNCHANGED <<Twdt, Notes>>

MarkDisabled(t) ==
  /\ Step(t, "mark disabled", "out")
  /\ g_watchdogStatus' = "disabled" /\ UNCHANGED <<Twdt, crowded>>

Next ==
  \E t \in Tasks :
    \/ EnableTest(t) \/ WdtInit(t) \/ WdtAdd(t) \/ MarkEnabled(t) \/ RollBack(t)
    \/ DisableTest(t) \/ WdtDelete(t) \/ WdtDeinit(t) \/ MarkDisabled(t)

Spec == Init /\ [][Next]_vars

-----------------------------------------------------------------------------
(* Properties *)

Within(function) == \E t \in Tasks : pc[t] \in function

\* hal_iot_watchdog.c 37-87.  Although nothing is locked, the status passes
\* from an enable to a disable and back like a baton: as long as no two tasks
\* are in the same function, an enable and a disable that are both past their
\* test do not overlap either, and outside a disable an enabled status means
\* that the idle task is watched, outside an enable a disabled one that it is
\* not.  (Two enables and a disable, or two disables and an enable, can leave
\* either status wrong.)
StatusIsTrue ==
  ~crowded =>
    /\ g_watchdogStatus = "enabled" /\ ~Within(Disabling) => watched /\ inited
    /\ g_watchdogStatus = "disabled" /\ ~Within(Enabling) => ~watched
=============================================================================
