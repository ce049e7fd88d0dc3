------------------------------ MODULE HotaHal ------------------------------
(***************************************************************************)
(* The OTA adapter hals/update/update_adapter.c, called by one updater     *)
(* task.  All it keeps is UpdateInfo, in RAM: HotaHalRestart, or any other *)
(* reset, starts it from zero.  Calls with NULL arguments are left out:    *)
(* they fail and change nothing, as do the reads HotaHalGet...             *)
(***************************************************************************)
EXTENDS Naturals

CONSTANTS MetaData,    \* the metadata the updater may set
          NoMetaData   \* a zeroed UpdateMetaData

VARIABLES
  init, index, metaData,   \* UpdateInfo
  result,     \* what the last call was and whether it succeeded
  session     \* history: a HotaHalInit has succeeded and no HotaHalDeInit since

infoVars == <<init, index, metaData>>
vars == <<infoVars, result, session>>

Result(call, ok) == result' = [call |-> call, ok |-> ok]

\* memset_s of UpdateInfo, or the start of the program.
Zeroed == init' = 0 /\ index' = 0 /\ metaData' = NoMetaData

Init ==
  /\ init = 0 /\ index = 0 /\ metaData = NoMetaData
  /\ result = [call |-> "none", ok |-> TRUE] /\ session = FALSE

\* init = 1 is overwritten by the memset_s that follows it, so init # 0 is
\* tested here and in HotaHalDeInit and never true.
HotaHalInit ==
  /\ Result("HotaHalInit", init = 0)
  /\ \/ init = 0 /\ Zeroed /\ session' = TRUE
     \/ init # 0 /\ UNCHANGED <<infoVars, session>>

HotaHalDeInit ==
  /\ Result("HotaHalDeInit", init # 0)
  /\ init' = 0
  /\ session' = (session /\ init = 0)
  /\ UNCHANGED <<index, metaData>>

\* UpdateInfo.index ^= 1
HotaHalSetBootSettings ==
  /\ index' = 1 - index
  /\ Result("HotaHalSetBootSettings", TRUE)
  /\ UNCHANGED <<init, metaData, session>>

HotaHalSetMetaData ==
  /\ metaData' \in MetaData
  /\ Result("HotaHalSetMetaData", TRUE)
  /\ UNCHANGED <<init, index, session>>

\* Only offset 0 is refused; nothing is stored or read.
HotaHalTransfer ==
  /\ \E call \in {"HotaHalWrite", "HotaHalRead"}, offset \in {0, 1} :
       Result(call, offset # 0)
  /\ UNCHANGED <<infoVars, session>>

HotaHalRestart ==
  /\ Zeroed
  /\ session' = FALSE
  /\ Result("restarted", TRUE)

Next ==
  \/ HotaHalInit \/ HotaHalDeInit \/ HotaHalSetBootSettings
  \/ HotaHalSetMetaData \/ HotaHalTransfer \/ HotaHalRestart

Spec == Init /\ [][Next]_vars

-----------------------------------------------------------------------------
(* Properties *)

\* update_adapter.c 52-57: "Release OTA module resource. @return OHOS_SUCCESS:
\* Success".  HotaHalDeInit ends the session a HotaHalInit has begun.
DeInitEndsSession ==
  (result.call = "HotaHalDeInit" /\ session) => result.ok
=============================================================================
