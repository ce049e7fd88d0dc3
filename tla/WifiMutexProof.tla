--------------------------- MODULE WifiMutexProof ---------------------------
(***************************************************************************)
(* Proofs about WifiMutex for every set of tasks, every number of muxes    *)
(* and every nesting.  The argument: as long as at most one mux exists and *)
(* no creation failed (Single), every task past the test of muxHandle      *)
(* holds the handle of mux 0, so the recursion count of mux 0 is the       *)
(* nesting of its owner and nobody else is inside.                         *)
(***************************************************************************)
EXTENDS WifiMutex, TLAPS

\* At most one mux exists and no WifiLock went on without one.
Single == created <= 1 /\ ~createFailed

\* What the kernel and the pairing of calls guarantee of any run.
Balanced ==
  /\ \A id \in MuxIds : muxOwner[id] = NoTask <=> muxCount[id] = 0
  /\ \A t \in Tasks : pc[t] = "post" => nest[t] > 0

\* A task past the test has seen or made a handle, and muxHandle is never
\* cleared again, so it names a mux as long as any mux is owned.
HandleSeen ==
  /\ \A t \in Tasks :
       /\ pc[t] \in {"store", "load", "pend", "post"} => handle[t] # 0
       /\ pc[t] \in {"load", "pend", "post"} => muxHandle # 0
  /\ \A id \in MuxIds : muxOwner[id] # NoTask => muxHandle # 0

\* Handles name muxes that exist.
HandlesExist ==
  /\ muxHandle < created + MUX_HANDLE_OFFSET
  /\ \A t \in Tasks : handle[t] < created + MUX_HANDLE_OFFSET

\* With a single mux, mux 0 accounts for all the nesting.
SingleCounts ==
  Single => \A t \in Tasks :
              nest[t] = IF muxOwner[0] = t THEN muxCount[0] ELSE 0

\* The lock that existed before the tasks started stays the only one.
WarmStays ==
  warm => /\ created = 1
          /\ ~createFailed
          /\ muxHandle = MUX_HANDLE_OFFSET
          /\ \A t \in Tasks : pc[t] \notin {"create", "store"}

IInv == TypeOK /\ Balanced /\ HandleSeen /\ HandlesExist /\ SingleCounts
        /\ WarmStays

-----------------------------------------------------------------------------
USE MuxLimitAssumption, MaxNestAssumption, NoTaskAssumption

LEMMA InitIInv == Init => IInv
<1> SUFFICES ASSUME Init PROVE IInv
  OBVIOUS
<1>1. 0 \in MuxIds /\ MUX_HANDLE_OFFSET \in Handles
  <2>1. 0 \in MuxIds
    BY DEF MuxIds
  <2>2. MUX_HANDLE_OFFSET = 0 + MUX_HANDLE_OFFSET
    BY DEF MUX_HANDLE_OFFSET
  <2> QED BY <2>1, <2>2 DEF Handles
<1>2. TypeOK
  <2>1. created \in 0 .. MuxLimit
    BY DEF Init
  <2> QED BY <1>1, <2>1 DEF Init, TypeOK, Labels
<1>3. Balanced /\ HandleSeen /\ SingleCounts
  BY <1>1 DEF Init, Balanced, HandleSeen, SingleCounts
<1>4. HandlesExist /\ WarmStays
  BY DEF Init, HandlesExist, WarmStays, MUX_HANDLE_OFFSET
<1> QED BY <1>2, <1>3, <1>4 DEF IInv

LEMMA HandlesAreNat == Handles \cup {0} \subseteq Nat
  BY DEF Handles, MuxIds, MUX_HANDLE_OFFSET

\* The handle of a task that waits for or releases a mux names that mux.
LEMMA HandleNames ==
  ASSUME IInv, NEW t \in Tasks, pc[t] \in {"store", "load", "pend", "post"}
  PROVE  /\ handle[t] \in Handles
         /\ handle[t] - MUX_HANDLE_OFFSET \in MuxIds
         /\ created >= 1
         /\ Single => handle[t] - MUX_HANDLE_OFFSET = 0
  BY DEF IInv, TypeOK, HandleSeen, HandlesExist, Single, MuxIds, Handles,
     MUX_HANDLE_OFFSET

\* Steps that leave the kernel and the nesting alone keep every conjunct about
\* them; only the handles and the labels need an argument.
LEMMA NextIInv == IInv /\ [Next]_vars => IInv'
<1> SUFFICES ASSUME IInv, [Next]_vars PROVE IInv'
  OBVIOUS
<1>0. warm' = warm
  BY DEF Next, vars
<1> USE <1>0 DEF IInv, Labels
<1>1. ASSUME NEW t \in Tasks, LockTest(t) PROVE IInv'
  <2>1. TypeOK' /\ HandlesExist'
    BY <1>1 DEF LockTest, TypeOK, HandlesExist, sharedVars, kernelVars
  <2>2. Balanced' /\ SingleCounts'
    BY <1>1 DEF LockTest, TypeOK, Balanced, SingleCounts, Single, sharedVars,
       kernelVars
  <2>3. HandleSeen'
    BY <1>1 DEF LockTest, TypeOK, HandleSeen, sharedVars, kernelVars
  <2>4. WarmStays'
    BY <1>1 DEF LockTest, TypeOK, WarmStays, sharedVars, MUX_HANDLE_OFFSET
  <2> QED BY <2>1, <2>2, <2>3, <2>4
<1>2. ASSUME NEW t \in Tasks, MuxCreate(t) PROVE IInv'
  <2>1. TypeOK'
    BY <1>2 DEF MuxCreate, TypeOK, kernelVars, MuxIds, Handles
  <2>2. Balanced' /\ HandleSeen' /\ SingleCounts' /\ WarmStays'
    BY <1>2 DEF MuxCreate, TypeOK, kernelVars, Balanced, HandleSeen,
       SingleCounts, Single, WarmStays, MUX_HANDLE_OFFSET
  <2>3. HandlesExist'
    BY <1>2, HandlesAreNat DEF MuxCreate, TypeOK, HandlesExist,
       MUX_HANDLE_OFFSET
  <2> QED BY <2>1, <2>2, <2>3
<1>3. ASSUME NEW t \in Tasks, MuxCreateFails(t) PROVE IInv'
  <2>1. TypeOK' /\ Balanced' /\ HandleSeen' /\ HandlesExist'
    BY <1>3 DEF MuxCreateFails, TypeOK, Balanced, HandleSeen, HandlesExist,
       kernelVars
  <2>2. SingleCounts' /\ WarmStays'
    BY <1>3 DEF MuxCreateFails, TypeOK, SingleCounts, WarmStays, Single
  <2> QED BY <2>1, <2>2
<1>4. ASSUME NEW t \in Tasks, StoreHandle(t) PROVE IInv'
  BY <1>4 DEF StoreHandle, TypeOK, Balanced, HandleSeen, HandlesExist,
     SingleCounts, WarmStays, Single, kernelVars
<1>5. ASSUME NEW t \in Tasks, LoadHandle(t) PROVE IInv'
  BY <1>5 DEF LoadHandle, TypeOK, Balanced, HandleSeen, HandlesExist,
     SingleCounts, WarmStays, Single, sharedVars, kernelVars
<1>6. ASSUME NEW t \in Tasks, MuxPend(t) PROVE IInv'
  <2> DEFINE id == handle[t] - MUX_HANDLE_OFFSET
  <2>1. id \in MuxIds /\ (Single => id = 0)
    BY <1>6, HandleNames DEF MuxPend
  <2>2. TypeOK' /\ Balanced'
    BY <1>6, <2>1 DEF MuxPend, TypeOK, Balanced, sharedVars
  <2>3. HandleSeen' /\ HandlesExist' /\ WarmStays'
    BY <1>6 DEF MuxPend, TypeOK, HandleSeen, HandlesExist, WarmStays, sharedVars
  <2>4. SingleCounts'
    BY <1>6, <2>1 DEF MuxPend, TypeOK, Balanced, SingleCounts, Single,
       sharedVars
  <2> QED BY <2>2, <2>3, <2>4
<1>7. ASSUME NEW t \in Tasks, UnlockNoHandle(t) PROVE IInv'
  <2>1. TypeOK' /\ Balanced' /\ HandleSeen' /\ HandlesExist' /\ WarmStays'
    BY <1>7 DEF UnlockNoHandle, TypeOK, Balanced, HandleSeen, HandlesExist,
       WarmStays, sharedVars, kernelVars
  <2>2. 0 \in MuxIds => muxOwner[0] # t
    BY <1>7 DEF UnlockNoHandle, HandleSeen
  <2>3. 0 \in MuxIds
    BY DEF MuxIds
  <2>4. ~Single'
    BY <1>7, <2>2, <2>3 DEF UnlockNoHandle, SingleCounts, Single, TypeOK,
       sharedVars
  <2> QED BY <2>1, <2>4 DEF SingleCounts
<1>8. ASSUME NEW t \in Tasks, UnlockLoad(t) PROVE IInv'
  BY <1>8 DEF UnlockLoad, TypeOK, Balanced, HandleSeen, HandlesExist,
     SingleCounts, WarmStays, Single, sharedVars, kernelVars
<1>9. ASSUME NEW t \in Tasks, MuxPost(t) PROVE IInv'
  <2> DEFINE id == handle[t] - MUX_HANDLE_OFFSET
  <2>1. id \in MuxIds /\ (Single => id = 0)
    BY <1>9, HandleNames DEF MuxPost
  <2>2. TypeOK' /\ Balanced'
    BY <1>9, <2>1 DEF MuxPost, TypeOK, Balanced, sharedVars, kernelVars
  <2>3. HandleSeen' /\ HandlesExist' /\ WarmStays'
    BY <1>9 DEF MuxPost, TypeOK, HandleSeen, HandlesExist, WarmStays, sharedVars
  <2>4. SingleCounts'
    BY <1>9, <2>1 DEF MuxPost, TypeOK, Balanced, SingleCounts, Single,
       sharedVars, kernelVars
  <2> QED BY <2>2, <2>3, <2>4
<1>10. CASE UNCHANGED vars
  BY <1>10 DEF vars, TypeOK, Balanced, HandleSeen, HandlesExist, SingleCounts,
     WarmStays, Single
<1> QED
  BY <1>1, <1>2, <1>3, <1>4, <1>5, <1>6, <1>7, <1>8, <1>9, <1>10 DEF Next,
     TaskStep

-----------------------------------------------------------------------------
LEMMA Invariance == Spec => []IInv
  BY InitIInv, NextIInv, PTL DEF Spec

\* wifi_device.c 99-117.  Types: in particular a recursion count and a nesting
\* never go below zero and every handle names one of the kernel's muxes.
THEOREM TypeCorrect == Spec => []TypeOK
  BY Invariance, PTL DEF IInv

\* wifi_device.c 99-117.  Mutual exclusion is lost only through a second mux
\* or a failed creation.
THEOREM ExclusionUnlessSplitHolds == Spec => []ExclusionUnlessSplit
<1>1. IInv => ExclusionUnlessSplit
  BY DEF IInv, TypeOK, SingleCounts, Single, ExclusionUnlessSplit, Exclusive,
     Inside
<1> QED BY <1>1, Invariance, PTL

\* wifi_device.c 99-117.  A lock used once before the tasks start excludes.
THEOREM MutualExclusionHolds == Spec => []MutualExclusion
<1>1. IInv => MutualExclusion
  BY DEF IInv, TypeOK, SingleCounts, WarmStays, Single, MutualExclusion,
     Exclusive, Inside
<1> QED BY <1>1, Invariance, PTL

\* wifi_device.c 99-117.  With one mux the recursion count is the nesting.
THEOREM CountIsNestingHolds == Spec => []CountIsNesting
<1>1. ASSUME created = 1, ~createFailed PROVE Single
  BY <1>1 DEF Single
<1>2. IInv => CountIsNesting
  BY <1>1 DEF IInv, SingleCounts, CountIsNesting
<1> QED BY <1>2, Invariance, PTL

-----------------------------------------------------------------------------
(* The refinement: mux 0 of a warm start is the lock of RecLock. *)

LEMMA InitMaps == Init => Lock!Init
  BY DEF Init, Lock!Init, MuxIds

LEMMA StepMaps == IInv /\ [Next]_vars => [Lock!Next]_(Lock!lockVars)
<1> SUFFICES ASSUME IInv, [Next]_vars PROVE [Lock!Next]_(Lock!lockVars)
  OBVIOUS
<1>0. warm' = warm
  BY DEF Next, vars
<1> USE <1>0 DEF Lock!lockVars
<1>1. CASE ~warm
  BY <1>1
<1>2. ASSUME warm, NEW t \in Tasks, MuxPend(t) PROVE Lock!Acquire(t)
  <2>1. handle[t] - MUX_HANDLE_OFFSET = 0 /\ 0 \in MuxIds
    BY <1>2, HandleNames DEF MuxPend, IInv, WarmStays, Single
  <2> QED BY <1>2, <2>1 DEF MuxPend, Lock!Acquire, IInv, TypeOK
<1>3. ASSUME warm, NEW t \in Tasks, MuxPost(t)
      PROVE  Lock!Release(t) \/ UNCHANGED Lock!lockVars
  <2>1. handle[t] - MUX_HANDLE_OFFSET = 0 /\ 0 \in MuxIds
    BY <1>3, HandleNames DEF MuxPost, IInv, WarmStays, Single
  <2> QED BY <1>3, <2>1 DEF MuxPost, Lock!Release, IInv, TypeOK, kernelVars
<1>4. ASSUME NEW t \in Tasks,
             \/ LockTest(t) \/ MuxCreate(t) \/ MuxCreateFails(t)
             \/ StoreHandle(t) \/ LoadHandle(t)
             \/ UnlockNoHandle(t) \/ UnlockLoad(t)
      PROVE  UNCHANGED Lock!lockVars
  BY <1>4 DEF LockTest, MuxCreate, MuxCreateFails, StoreHandle, LoadHandle,
     UnlockNoHandle, UnlockLoad, kernelVars
<1>5. CASE UNCHANGED vars
  BY <1>5 DEF vars
<1> QED BY <1>1, <1>2, <1>3, <1>4, <1>5 DEF Next, TaskStep, Lock!Next

\* wifi_device.c 99-117.  After the first use WifiLock and WifiUnlock
\* implement the single recursive lock of RecLock.
THEOREM Refinement == Spec => ImplementsRecLock
<1>1. Init => Lock!Init
  BY InitMaps
<1>2. IInv /\ [Next]_vars => [Lock!Next]_(Lock!lockVars)
  BY StepMaps
<1> QED
  BY <1>1, <1>2, Invariance, PTL DEF Spec, Lock!Spec, ImplementsRecLock
=============================================================================
