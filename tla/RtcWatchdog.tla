---------------------------- MODULE RtcWatchdog ----------------------------
(***************************************************************************)
(* The HDF watchdog hdf_drivers/watchdog/watchdog_esp32u4.c and the RTC    *)
(* watchdog of the ESP32 it programs.  Time passes between any two calls,  *)
(* and between the two register writes of a start; when the counter        *)
(* reaches the programmed value, the system is reset.                      *)
(*                                                                         *)
(* The methods exclude each other: the driver initialises the lock of the  *)
(* controller (line 121) for the HDF core, which takes it around each.     *)
(* The counter is external: it counts ticks of the clock that RWDT_TICK    *)
(* reads, from the last feeding.                                           *)
(***************************************************************************)
EXTENDS Naturals

CONSTANTS Ticks,       \* ticks per second of the clock
          Word,        \* 2^w, w the width of int and of the register RWDT_CFG1
          MaxSeconds,  \* bound: the longest timeout a client sets
          MaxElapsed   \* bound: how long time is followed after a feeding

ConstantsOK == {Ticks, Word, MaxSeconds, MaxElapsed} \subseteq Nat \ {0}

VARIABLES
  timeout,           \* WatchdogDeviceInfo.timeout
  g_watchdogStart,
  starting,          \* WatchdogDevStart is between its two register writes
  enabled,           \* bit 31 of RWDT_CFG0
  cfg1,              \* RWDT_CFG1
  count,             \* the counter of the watchdog
  bitten,            \* it has reset the system
  \* history
  elapsed,           \* ticks since a client last started or fed it
  promised,          \* ticks that the last complete start is to allow
  wanted             \* the last of the calls start and stop was start

hwVars == <<enabled, cfg1, count, bitten>>
history == <<elapsed, promised, wanted>>
vars == <<timeout, g_watchdogStart, starting, hwVars, history>>

ResetCfg1 == Word - 1   \* RWDT_CFG1 after a reset

TypeOK ==
  /\ timeout \in 0 .. MaxSeconds /\ g_watchdogStart \in {0, 1}
  /\ starting \in BOOLEAN /\ enabled \in BOOLEAN /\ bitten \in BOOLEAN
  /\ cfg1 \in 0 .. Word - 1
  /\ count \in 0 .. MaxElapsed + 1 /\ elapsed \in 0 .. MaxElapsed + 1
  /\ promised \in 0 .. MaxSeconds * Ticks \cup {ResetCfg1}
  /\ wanted \in BOOLEAN

\* After WatchdogDriverInit with a node of the hcs file.
Init ==
  /\ timeout \in 0 .. MaxSeconds
  /\ g_watchdogStart = 0 /\ starting = FALSE
  /\ enabled = FALSE /\ cfg1 = ResetCfg1 /\ count = 0 /\ bitten = FALSE
  /\ elapsed = 0 /\ promised = ResetCfg1 /\ wanted = FALSE

Running == ~bitten
Free == Running /\ ~starting

-----------------------------------------------------------------------------
(* Time *)

Due == enabled /\ count >= cfg1

Tick ==
  /\ Running /\ ~Due /\ elapsed <= MaxElapsed /\ count <= MaxElapsed
  /\ elapsed' = elapsed + 1
  /\ count' = IF enabled THEN count + 1 ELSE count
  /\ UNCHANGED <<timeout, g_watchdogStart, starting, enabled, cfg1, bitten,
                 promised, wanted>>

\* At the end of the time programmed, before the next tick.
Bite ==
  /\ Running /\ Due
  /\ bitten' = TRUE
  /\ UNCHANGED <<timeout, g_watchdogStart, starting, enabled, cfg1, count,
                 history>>

\* The reset starts the program and the watchdog anew.
Restart ==
  /\ bitten
  /\ timeout' \in 0 .. MaxSeconds
  /\ g_watchdogStart' = 0 /\ starting' = FALSE
  /\ enabled' = FALSE /\ cfg1' = ResetCfg1 /\ count' = 0 /\ bitten' = FALSE
  /\ elapsed' = 0 /\ promised' = ResetCfg1 /\ wanted' = FALSE

-----------------------------------------------------------------------------
(* The methods *)

\* WatchdogDevStart feeds and enables first, with the time of before ...
StartEnable ==
  /\ Free /\ starting' = TRUE
  /\ count' = 0 /\ enabled' = TRUE
  /\ elapsed' = 0 /\ wanted' = TRUE
  /\ UNCHANGED <<timeout, g_watchdogStart, cfg1, bitten, promised>>

\* Mutant of StartProgram: the time is left as it was.
StartProgramMissing ==
  /\ Running /\ starting /\ starting' = FALSE
  /\ promised' = timeout * Ticks
  /\ g_watchdogStart' = 1
  /\ UNCHANGED <<timeout, hwVars, elapsed, wanted>>

\* ... and then programs timeout * ticks, as far as the word holds it.
StartProgram ==
  /\ Running /\ starting /\ starting' = FALSE
  /\ cfg1' = (timeout * Ticks) % Word
  /\ promised' = timeout * Ticks
  /\ g_watchdogStart' = 1
  /\ UNCHANGED <<timeout, enabled, count, bitten, elapsed, wanted>>

\* A watchdog that does not run is left alone; g_watchdogStart stays.
WatchdogDevStop ==
  /\ Free
  /\ wanted' = FALSE
  /\ enabled' = FALSE
  /\ count' = IF enabled THEN 0 ELSE count
  /\ UNCHANGED <<timeout, g_watchdogStart, starting, cfg1, bitten, elapsed,
                 promised>>

\* For the next start.
WatchdogDevSetTimeout ==
  /\ Free
  /\ \E seconds \in 0 .. MaxSeconds : timeout' = seconds
  /\ UNCHANGED <<g_watchdogStart, starting, hwVars, history>>

WatchdogDevFeed ==
  /\ Free
  /\ count' = 0 /\ elapsed' = 0
  /\ UNCHANGED <<timeout, g_watchdogStart, starting, enabled, cfg1, bitten,
                 promised, wanted>>

Next ==
  \/ Tick \/ Bite \/ Restart
  \/ StartEnable \/ StartProgram \/ WatchdogDevStop
  \/ WatchdogDevSetTimeout \/ WatchdogDevFeed

Spec == Init /\ [][Next]_vars

-----------------------------------------------------------------------------
(* Properties *)

\* watchdog_esp32u4.c 240-275, 333-335.  A client that feeds in time is not
\* reset: a reset comes no earlier than the seconds of the last start after
\* the last feeding, if their ticks fit into the register.  And a client that
\* hangs is reset: a started watchdog lets no more time pass than the seconds
\* of its last start.  (A client that sets a shorter timeout and does not
\* start again has no such promise.)
BitesJustInTime ==
  /\ bitten => elapsed >= promised \/ promised >= Word
  /\ Running /\ wanted /\ ~starting => elapsed <= promised \/ Due

\* watchdog_esp32u4.c 45 says that the timeout is the maximum interval
\* between feedings in ms.
TimeoutIsInMilliseconds ==
  Running /\ wanted /\ ~starting =>
    elapsed * 1000 <= promised \/ Due
=============================================================================
