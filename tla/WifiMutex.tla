----------------------------- MODULE WifiMutex -----------------------------
(***************************************************************************)
(* WifiLock() and WifiUnlock() of hals/drivers/wifi_lite/wifi_device.c:    *)
(* the lock that guards DevWifiInfo is a kernel mutex created by its first *)
(* user.  The test of muxHandle, LOS_MuxCreate and the assignment of       *)
(* muxHandle are separate steps of a preemptible task.                     *)
(*                                                                         *)
(* A client task is abstracted to the nesting of its calls: it may call    *)
(* WifiLock below MaxNest (DisableWifi nests UnregisterEspEvent) and pairs *)
(* every WifiLock with a WifiUnlock, as every function of the file does.   *)
(***************************************************************************)
EXTENDS Naturals

CONSTANTS Tasks,      \* the tasks that call the Wi-Fi service
          NoTask,     \* the owner of a free mux
          MuxLimit,   \* LOSCFG_BASE_IPC_MUX_LIMIT: how many muxes can exist
          MaxNest     \* how deep a client nests WifiLock

ASSUME NoTaskAssumption == NoTask \notin Tasks
ASSUME MuxLimitAssumption == MuxLimit \in Nat \ {0}
ASSUME MaxNestAssumption == MaxNest \in Nat \ {0}

MUX_HANDLE_OFFSET == 8

MuxIds == 0 .. (MuxLimit - 1)
Handles == {id + MUX_HANDLE_OFFSET : id \in MuxIds}

VARIABLES muxHandle,    \* DevWifiInfo.muxHandle, 0 before the first store
          created,      \* muxes created so far; their ids are 0 .. created-1
          muxOwner,     \* kernel: the owner of each mux
          muxCount,     \* kernel: its recursion count
          createFailed, \* history: some WifiLock returned without a mux
          pc,           \* where each task is in WifiLock or WifiUnlock
          handle,       \* the handle the task has read or created
          nest,         \* WifiLock calls returned and not yet unlocked
          warm          \* a lock/unlock pair ended before the tasks started

sharedVars == <<muxHandle, created, createFailed>>
kernelVars == <<muxOwner, muxCount>>
vars == <<muxHandle, created, muxOwner, muxCount, createFailed,
          pc, handle, nest, warm>>

Labels == {"idle", "create", "store", "load", "pend", "post"}

TypeOK ==
  /\ muxHandle \in Handles \cup {0}
  /\ created \in 0 .. MuxLimit
  /\ muxOwner \in [MuxIds -> Tasks \cup {NoTask}]
  /\ muxCount \in [MuxIds -> Nat]
  /\ createFailed \in BOOLEAN
  /\ pc \in [Tasks -> Labels]
  /\ handle \in [Tasks -> Handles \cup {0}]
  /\ nest \in [Tasks -> Nat]
  /\ warm \in BOOLEAN

Init ==
  /\ warm \in BOOLEAN
  /\ muxHandle = IF warm THEN MUX_HANDLE_OFFSET ELSE 0
  /\ created = IF warm THEN 1 ELSE 0
  /\ muxOwner = [id \in MuxIds |-> NoTask]
  /\ muxCount = [id \in MuxIds |-> 0]
  /\ createFailed = FALSE
  /\ pc = [t \in Tasks |-> "idle"]
  /\ handle = [t \in Tasks |-> 0]
  /\ nest = [t \in Tasks |-> 0]

-----------------------------------------------------------------------------
(* WifiLock *)

\* if (!DevWifiInfo.muxHandle)
LockTest(t) ==
  /\ pc[t] = "idle"
  /\ nest[t] < MaxNest
  /\ handle' = [handle EXCEPT ![t] = muxHandle]
  /\ pc' = [pc EXCEPT ![t] = IF muxHandle = 0 THEN "create" ELSE "load"]
  /\ UNCHANGED <<sharedVars, kernelVars, nest>>

MuxCreate(t) ==
  /\ pc[t] = "create"
  /\ created < MuxLimit
  /\ created' = created + 1
  /\ handle' = [handle EXCEPT ![t] = created + MUX_HANDLE_OFFSET]
  /\ pc' = [pc EXCEPT ![t] = "store"]
  /\ UNCHANGED <<muxHandle, createFailed, kernelVars, nest>>

\* LOS_MuxCreate fails: WifiLock returns all the same, and its caller goes on.
MuxCreateFails(t) ==
  /\ pc[t] = "create"
  /\ createFailed' = TRUE
  /\ nest' = [nest EXCEPT ![t] = @ + 1]
  /\ pc' = [pc EXCEPT ![t] = "idle"]
  /\ UNCHANGED <<muxHandle, created, kernelVars, handle>>

StoreHandle(t) ==
  /\ pc[t] = "store"
  /\ muxHandle' = handle[t]
  /\ pc' = [pc EXCEPT ![t] = "load"]
  /\ UNCHANGED <<created, createFailed, kernelVars, handle, nest>>

\* The argument of LOS_MuxPend: muxHandle is a plain field, which the build
\* may read again or keep in a register.
LoadHandle(t) ==
  /\ pc[t] = "load"
  /\ \E h \in {handle[t], muxHandle} : handle' = [handle EXCEPT ![t] = h]
  /\ pc' = [pc EXCEPT ![t] = "pend"]
  /\ UNCHANGED <<sharedVars, kernelVars, nest>>

\* Mutant of MuxPend: LOS_NO_WAIT, and a busy mux is entered all the same.
MuxPendNoWait(t) ==
  LET id == handle[t] - MUX_HANDLE_OFFSET IN
  /\ pc[t] = "pend"
  /\ muxOwner' = [muxOwner EXCEPT ![id] = IF @ = NoTask THEN t ELSE @]
  /\ muxCount' = [muxCount EXCEPT ![id] =
                    IF muxOwner[id] \in {NoTask, t} THEN @ + 1 ELSE @]
  /\ nest' = [nest EXCEPT ![t] = @ + 1]
  /\ pc' = [pc EXCEPT ![t] = "idle"]
  /\ UNCHANGED <<sharedVars, handle>>

\* LOS_MuxPend(.., LOS_WAIT_FOREVER) on a recursive mux, and the return.
MuxPend(t) ==
  LET id == handle[t] - MUX_HANDLE_OFFSET IN
  /\ pc[t] = "pend"
  /\ muxOwner[id] \in {NoTask, t}
  /\ muxOwner' = [muxOwner EXCEPT ![id] = t]
  /\ muxCount' = [muxCount EXCEPT ![id] = @ + 1]
  /\ nest' = [nest EXCEPT ![t] = @ + 1]
  /\ pc' = [pc EXCEPT ![t] = "idle"]
  /\ UNCHANGED <<sharedVars, handle>>

-----------------------------------------------------------------------------
(* WifiUnlock *)

\* No handle: WifiUnlock returns at once.
UnlockNoHandle(t) ==
  /\ pc[t] = "idle"
  /\ nest[t] > 0
  /\ muxHandle = 0
  /\ nest' = [nest EXCEPT ![t] = @ - 1]
  /\ UNCHANGED <<sharedVars, kernelVars, pc, handle>>

UnlockLoad(t) ==
  /\ pc[t] = "idle"
  /\ nest[t] > 0
  /\ muxHandle # 0
  /\ handle' = [handle EXCEPT ![t] = muxHandle]
  /\ pc' = [pc EXCEPT ![t] = "post"]
  /\ UNCHANGED <<sharedVars, kernelVars, nest>>

\* Mutant of MuxPost: the first post frees a mux taken twice.
MuxPostFreesAll(t) ==
  LET id == handle[t] - MUX_HANDLE_OFFSET IN
  /\ pc[t] = "post"
  /\ \/ /\ muxOwner[id] = t
        /\ muxCount' = [muxCount EXCEPT ![id] = 0]
        /\ muxOwner' = [muxOwner EXCEPT ![id] = NoTask]
     \/ muxOwner[id] # t /\ UNCHANGED kernelVars
  /\ nest' = [nest EXCEPT ![t] = @ - 1]
  /\ pc' = [pc EXCEPT ![t] = "idle"]
  /\ UNCHANGED <<sharedVars, handle>>

\* Mutant of MuxPost: the owner is not tested.
MuxPostUnchecked(t) ==
  LET id == handle[t] - MUX_HANDLE_OFFSET IN
  /\ pc[t] = "post"
  /\ muxCount' = [muxCount EXCEPT ![id] = @ - 1]
  /\ muxOwner' = [muxOwner EXCEPT ![id] = IF muxCount[id] = 1 THEN NoTask ELSE @]
  /\ nest' = [nest EXCEPT ![t] = @ - 1]
  /\ pc' = [pc EXCEPT ![t] = "idle"]
  /\ UNCHANGED <<sharedVars, handle>>

\* LOS_MuxPost refuses a caller that is not the owner; the refusal is ignored.
MuxPost(t) ==
  LET id == handle[t] - MUX_HANDLE_OFFSET IN
  /\ pc[t] = "post"
  /\ \/ /\ muxOwner[id] = t
        /\ muxCount' = [muxCount EXCEPT ![id] = @ - 1]
        /\ muxOwner' = [muxOwner EXCEPT ![id] =
                          IF muxCount[id] = 1 THEN NoTask ELSE t]
     \/ muxOwner[id] # t /\ UNCHANGED kernelVars
  /\ nest' = [nest EXCEPT ![t] = @ - 1]
  /\ pc' = [pc EXCEPT ![t] = "idle"]
  /\ UNCHANGED <<sharedVars, handle>>

TaskStep(t) ==
  \/ LockTest(t) \/ MuxCreate(t) \/ MuxCreateFails(t) \/ StoreHandle(t)
  \/ LoadHandle(t) \/ MuxPend(t)
  \/ UnlockNoHandle(t) \/ UnlockLoad(t) \/ MuxPost(t)

Next == (\E t \in Tasks : TaskStep(t)) /\ UNCHANGED warm

Spec == Init /\ [][Next]_vars

-----------------------------------------------------------------------------
(* Properties *)

\* The task is in a section WifiLock/WifiUnlock are meant to protect.
Inside(t) == nest[t] > 0

\* Two tasks are never both inside a section guarded by WifiLock.
Exclusive == \A t, u \in Tasks : Inside(t) /\ Inside(u) => t = u

\* wifi_device.c 99-117.  The only two ways to lose mutual exclusion are the
\* two in WifiLock itself: a second mux created by a task that tested
\* muxHandle before the first store, and a failed LOS_MuxCreate.
ExclusionUnlessSplit == (created <= 1 /\ ~createFailed) => Exclusive

\* wifi_device.c 99-117.  Once the lock has been used by one task before the
\* others start, WifiLock and WifiUnlock exclude each other's callers.
MutualExclusion == warm => Exclusive

\* wifi_device.c 99-117.  With one mux in existence its recursion count is
\* the nesting of its owner, so a balanced caller neither frees the lock
\* early nor keeps it after its last WifiUnlock.
CountIsNesting ==
  (created = 1 /\ ~createFailed) =>
    \A t \in Tasks :
      nest[t] = IF muxOwner[0] = t THEN muxCount[0] ELSE 0

Lock == INSTANCE RecLock
          WITH owner <- IF warm THEN muxOwner[0] ELSE NoTask,
               depth <- IF warm THEN muxCount[0] ELSE 0

\* wifi_device.c 99-117.  A lock already created (warm) behaves as the one
\* recursive lock of RecLock.  A cold start promises no such thing and is
\* mapped to a lock nobody takes.
ImplementsRecLock == Lock!Spec
=============================================================================
