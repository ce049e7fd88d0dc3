------------------------------ MODULE RecLock ------------------------------
(***************************************************************************)
(* What WifiLock() and WifiUnlock() of wifi_device.c promise their         *)
(* callers: one recursive lock, held by at most one task, released only by *)
(* its owner.  The promise is the one of a single LOS_Mux.                 *)
(***************************************************************************)
EXTENDS Naturals

CONSTANTS Tasks,    \* the tasks that call the Wi-Fi service
          NoTask    \* the owner of a free lock

VARIABLES owner,    \* the task that holds the lock, or NoTask
          depth     \* how often the owner has acquired it

lockVars == <<owner, depth>>

LockType ==
  /\ owner \in Tasks \cup {NoTask}
  /\ depth \in Nat

Init == owner = NoTask /\ depth = 0

\* LOS_MuxPend: waits until the lock is free or already the caller's.
Acquire(t) ==
  /\ owner \in {NoTask, t}
  /\ owner' = t
  /\ depth' = depth + 1

\* LOS_MuxPost by the owner; the last of the nested releases frees the lock.
Release(t) ==
  /\ owner = t
  /\ depth' = depth - 1
  /\ owner' = IF depth = 1 THEN NoTask ELSE t

Next == \E t \in Tasks : Acquire(t) \/ Release(t)

Spec == Init /\ [][Next]_lockVars
=============================================================================
