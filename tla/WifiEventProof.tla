--------------------------- MODULE WifiEventProof ---------------------------
(***************************************************************************)
(* Proofs about WifiEvent for every set of observers, table size and set   *)
(* of senders.  The argument: registering only fills empty slots, so what  *)
(* a sender has read from a slot is still there unless somebody has        *)
(* unregistered, and an observer that stays keeps its slot.                *)
(***************************************************************************)
EXTENDS WifiEvent, FiniteSetTheorems, TLAPS

\* The senders between two reads of their slot.
Walking(s) == pc[s] \in {"member", "call"}

\* What a sender has read still stands, unless it was unregistered.
ReadInv ==
  \A s \in Senders :
    /\ Walking(s) /\ ~left[s] => read[s] = event[slot[s]] /\ read[s] # NULL
    /\ pc[s] = "call" => read[s] \in Listening
    /\ pc[s] = "fault" => left[s]

\* A round starts with nothing heard, and each slot adds at most one callback.
RoundInv ==
  \A s \in Senders :
    /\ pc[s] = "idle" => stayed[s] = {}
    /\ pc[s] = "idle" => slot[s] = 1
    /\ pc[s] = "done" => slot[s] = Size + 1
    /\ \A o \in Observers : heard[s][o] < slot[s]
    /\ stayed[s] \subseteq Registered

\* Slot i is ahead of sender s and still holds o when s gets to it.
Ahead(s, o, i) ==
  /\ i >= slot[s] /\ event[i] = o
  /\ i = slot[s] /\ Walking(s) => read[s] = o

\* An observer that stays was heard or is ahead.
HeardInv ==
  \A s \in Senders : \A o \in stayed[s] \cap Listening :
    pc[s] # "fault" => heard[s][o] >= 1 \/ \E i \in Slots : Ahead(s, o, i)

\* Disciplined clients keep the table free of duplicates, so an observer that
\* stays and was heard is behind.
OnceInv ==
  disciplined =>
    /\ \A i, j \in Slots : event[i] = event[j] /\ event[i] # NULL => i = j
    /\ \A s \in Senders : \A o \in stayed[s] :
         /\ Walking(s) /\ read[s] = o => event[slot[s]] = o
         /\ heard[s][o] >= 1 => \A i \in Slots : event[i] = o => i < slot[s]
         /\ heard[s][o] <= 1

IInv == TypeOK /\ ReadInv /\ RoundInv /\ HeardInv /\ OnceInv
-----------------------------------------------------------------------------
USE ListeningAssumption, NULLAssumption, SizeAssumption

\* The loop keeps a sender that goes on inside the table.
LEMMA NextSlotTypes ==
  ASSUME TypeOK, NEW s \in Senders, slot[s] \in Slots,
         NextSlot(s)
           \/ (UNCHANGED slot /\ \E label \in {"member", "call", "fault"} :
                                             pc' = [pc EXCEPT ![s] = label])
  PROVE  /\ slot' \in [Senders -> 1 .. Size + 1]
         /\ pc'
              \in [Senders -> {"idle", "test", "member", "call", "done",
                "fault"}]
         /\ \A u \in Senders : pc'[u] \in {"test", "member", "call"}
              => slot'[u] \in Slots
<1>1. slot' \in [Senders -> 1 .. Size + 1]
  BY DEF TypeOK, NextSlot, Slots
<1>2. pc' \in [Senders -> {"idle", "test", "member", "call", "done", "fault"}]
  BY DEF TypeOK, NextSlot
<1>3. ASSUME NEW u \in Senders, pc'[u] \in {"test", "member", "call"}
      PROVE  slot'[u] \in Slots
  <2>1. CASE u = s /\ NextSlot(s)
    BY <1>3, <2>1 DEF TypeOK, NextSlot, Slots
  <2>2. CASE u = s /\ UNCHANGED slot
    BY <2>2
  <2>3. CASE u # s
    BY <1>3, <2>3 DEF TypeOK, NextSlot
  <2> QED BY <2>1, <2>2, <2>3
<1> QED BY <1>1, <1>2, <1>3

LEMMA InitIInv == Init => IInv
<1> SUFFICES ASSUME Init PROVE IInv
  OBVIOUS
<1>1. TypeOK
  <2>1. left \in [Senders -> BOOLEAN]
    BY Zenon DEF Init
  <2>2. heard \in [Senders -> [Observers -> 0 .. Size]]
    BY DEF Init
  <2>3. /\ disciplined \in BOOLEAN
        /\ event \in [Slots -> Observers \cup {NULL}]
        /\ read \in [Senders -> Observers \cup {NULL}]
        /\ stayed \in [Senders -> SUBSET Observers]
    BY DEF Init
  <2>4. /\ pc \in [Senders -> {"idle", "test", "member", "call", "done",
             "fault"}]
        /\ slot \in [Senders -> 1 .. Size + 1]
        /\ \A s \in Senders : pc[s] \in {"test", "member", "call"}
             => slot[s] \in Slots
    BY DEF Init
  <2> QED BY <2>1, <2>2, <2>3, <2>4 DEF TypeOK
<1>2. ReadInv /\ RoundInv /\ HeardInv
  BY DEF Init, ReadInv, RoundInv, HeardInv, Walking
<1>3. OnceInv
  BY DEF Init, OnceInv, Walking
<1> QED BY <1>1, <1>2, <1>3 DEF IInv

LEMMA NextIInv == IInv /\ [Next]_vars => IInv'
<1> SUFFICES ASSUME IInv, [Next]_vars PROVE IInv'
  OBVIOUS
<1>0. disciplined' = disciplined
  BY DEF Next, vars
<1> USE <1>0 DEF IInv
<1>1. ASSUME NEW o \in Observers, RegisterWifiEvent(o) PROVE IInv'
  <2> PICK i \in Slots : IsFirst(i, {o, NULL})
        /\ event' = [event EXCEPT ![i] = o]
    BY <1>1 DEF RegisterWifiEvent
  <2>1. TypeOK'
    BY <1>1 DEF RegisterWifiEvent, TypeOK, sendVars
  <2>2. \A j \in Slots : event[j] # NULL => event'[j] = event[j]
    BY DEF TypeOK, IsFirst
  <2>3. ReadInv'
    BY <1>1, <2>2 DEF RegisterWifiEvent, TypeOK, ReadInv, Walking, sendVars
  <2>4. Registered \subseteq Registered'
    BY <2>2 DEF Registered
  <2>5. RoundInv'
    BY <1>1, <2>4 DEF RegisterWifiEvent, RoundInv, sendVars
  <2>6. HeardInv'
    BY <1>1, <2>2 DEF RegisterWifiEvent, TypeOK, HeardInv, Ahead, Walking,
       sendVars
  <2>7. ASSUME disciplined PROVE OnceInv'
    <3>1. \A j \in Slots : event[j] # o /\ event[i] = NULL
      BY <1>1, <2>7 DEF RegisterWifiEvent, IsFirst, Registered
    <3> QED BY <1>1, <2>7, <3>1 DEF RegisterWifiEvent, TypeOK, RoundInv,
          OnceInv, Walking, Registered, sendVars
  <2> QED BY <2>1, <2>3, <2>5, <2>6, <2>7 DEF OnceInv
<1>2. ASSUME NEW o \in Observers, UnRegisterWifiEvent(o) PROVE IInv'
  <2> PICK i \in Slots :
        /\ IsFirst(i, {o}) /\ event' = [event EXCEPT ![i] = NULL]
        /\ left' = [s \in Senders |->
             left[s] \/ (pc[s] \in {"member", "call"} /\ slot[s] = i)]
    BY <1>2 DEF UnRegisterWifiEvent
  <2>1. TypeOK'
    <3>1. left' \in [Senders -> BOOLEAN]
      BY Zenon
    <3> QED BY <1>2, <3>1 DEF UnRegisterWifiEvent, TypeOK
  <2>2. \A j \in Slots : event[j] # o => event'[j] = event[j]
    BY DEF TypeOK, IsFirst
  <2>a. \A s \in Senders :
          /\ left[s] => left'[s]
          /\ ~left'[s] /\ Walking(s) => slot[s] # i
    BY Zenon DEF Walking
  <2>3. ReadInv'
    BY <1>2, <2>a DEF UnRegisterWifiEvent, TypeOK, ReadInv, Walking
  <2>4. RoundInv'
    BY <1>2, <2>2 DEF UnRegisterWifiEvent, TypeOK, RoundInv, Registered
  <2>5. HeardInv'
    BY <1>2, <2>2 DEF UnRegisterWifiEvent, TypeOK, HeardInv, Ahead, Walking
  <2>6. OnceInv'
    BY <1>2, <2>2 DEF UnRegisterWifiEvent, TypeOK, OnceInv, Walking
  <2> QED BY <2>1, <2>3, <2>4, <2>5, <2>6
<1>3. ASSUME NEW s \in Senders, SendBegin(s) PROVE IInv'
  <2>1. TypeOK'
    BY <1>3 DEF SendBegin, TypeOK, Registered, RoundInv, Slots
  <2>2. ReadInv' /\ RoundInv'
    BY <1>3 DEF SendBegin, TypeOK, ReadInv, RoundInv, Walking, Registered
  <2>3. HeardInv'
    BY <1>3 DEF SendBegin, TypeOK, RoundInv, HeardInv, Ahead, Walking,
       Registered, Slots
  <2>4. OnceInv'
    BY <1>3 DEF SendBegin, TypeOK, RoundInv, OnceInv, Walking, Registered
  <2> QED BY <2>1, <2>2, <2>3, <2>4
<1>4. ASSUME NEW s \in Senders, TestSlot(s) PROVE IInv'
  <2>1. slot[s] \in Slots /\ event[slot[s]] \in Observers \cup {NULL}
    BY <1>4 DEF TestSlot, TypeOK
  <2>a. left' \in [Senders -> BOOLEAN]
    BY <1>4, Zenon DEF TestSlot, TypeOK
  <2>2. TypeOK'
    BY <1>4, <2>1, <2>a, NextSlotTypes DEF TestSlot, TypeOK
  <2>3. ReadInv' /\ RoundInv'
    BY <1>4 DEF TestSlot, NextSlot, TypeOK, ReadInv, RoundInv, Walking,
       Registered, Slots
  <2>4. HeardInv'
    BY <1>4 DEF TestSlot, NextSlot, TypeOK, HeardInv, Ahead, Walking, Slots
  <2>5. OnceInv'
    BY <1>4 DEF TestSlot, NextSlot, TypeOK, OnceInv, Walking, Slots
  <2> QED BY <2>2, <2>3, <2>4, <2>5
<1>5. ASSUME NEW s \in Senders, TestMember(s) PROVE IInv'
  <2> PICK o \in Reads(s) :
        /\ read' = [read EXCEPT ![s] = o]
        /\ \/ o = NULL /\ pc' = [pc EXCEPT ![s] = "fault"] /\ UNCHANGED slot
           \/ o \in Observers \ Listening /\ NextSlot(s)
           \/ o \in Listening /\ pc' = [pc EXCEPT ![s] = "call"]
                /\ UNCHANGED slot
    BY <1>5 DEF TestMember
  <2>1. slot[s] \in Slots /\ o \in Observers \cup {NULL}
    BY <1>5 DEF TestMember, Reads, TypeOK
  <2>2. TypeOK'
    BY <1>5, <2>1, NextSlotTypes DEF TestMember, TypeOK
  <2>3. ReadInv'
    BY <1>5, <2>1 DEF TestMember, NextSlot, Reads, TypeOK, ReadInv, Walking,
       Slots
  <2>4. RoundInv'
    BY <1>5, <2>1 DEF TestMember, NextSlot, TypeOK, RoundInv, Registered, Slots
  <2>5. HeardInv'
    <3> SUFFICES ASSUME NEW u \in Senders, NEW p \in stayed[u] \cap Listening,
                        pc'[u] # "fault", heard[u][p] < 1
                 PROVE  \E i \in Slots : Ahead(u, p, i)'
      BY <1>5 DEF TestMember, HeardInv, TypeOK
    <3>1. PICK i \in Slots : Ahead(u, p, i)
      BY <1>5 DEF TestMember, NextSlot, HeardInv, TypeOK
    <3>2. CASE u # s
      BY <1>5, <3>1, <3>2 DEF TestMember, NextSlot, Ahead, Walking, TypeOK
    <3>3. CASE u = s
      BY <1>5, <2>1, <3>1, <3>3 DEF TestMember, NextSlot, Reads, Ahead, Walking,
         TypeOK, Slots
    <3> QED BY <3>2, <3>3
  <2>6. OnceInv'
    BY <1>5 DEF TestMember, NextSlot, Reads, TypeOK, OnceInv, Walking, Slots
  <2> QED BY <2>2, <2>3, <2>4, <2>5, <2>6
<1>6. ASSUME NEW s \in Senders, CallBack(s) PROVE IInv'
  <2> PICK o \in Reads(s) :
        /\ read' = [read EXCEPT ![s] = o]
        /\ \/ /\ o \in Listening
              /\ heard' = [heard EXCEPT ![s][o] = @ + 1]
              /\ NextSlot(s)
           \/ /\ o \notin Listening
              /\ pc' = [pc EXCEPT ![s] = "fault"]
              /\ UNCHANGED <<heard, slot>>
    BY <1>6 DEF CallBack
  <2>1. slot[s] \in Slots /\ o \in Observers \cup {NULL}
    BY <1>6 DEF CallBack, Reads, TypeOK
  <2>2. /\ heard' \in [Senders -> [Observers -> 0 .. Size]]
        /\ \A u \in Senders : \A p \in Observers :
             heard'[u][p] = IF u = s /\ p = o /\ o \in Listening
                              THEN heard[u][p] + 1 ELSE heard[u][p]
    <3>1. CASE o \in Listening
      <4>1. heard[s][o] \in Nat /\ heard[s][o] + 1 <= Size
        BY <2>1, <3>1 DEF TypeOK, RoundInv, Slots
      <4>2. [heard[s] EXCEPT ![o] = @ + 1] \in [Observers -> 0 .. Size]
        BY <3>1, <4>1 DEF TypeOK
      <4>3. heard' = [heard EXCEPT ![s] = [heard[s] EXCEPT ![o] = @ + 1]]
        BY <3>1 DEF TypeOK
      <4> QED BY <3>1, <4>2, <4>3 DEF TypeOK
    <3>2. CASE o \notin Listening
      BY <3>2 DEF TypeOK
    <3> QED BY <3>1, <3>2
  <2>3. TypeOK'
    BY <1>6, <2>1, <2>2, NextSlotTypes DEF CallBack, TypeOK
  <2>4. ReadInv'
    BY <1>6, <2>1 DEF CallBack, NextSlot, Reads, TypeOK, ReadInv, Walking, Slots
  <2>5. RoundInv'
    BY <1>6, <2>1, <2>2 DEF CallBack, NextSlot, TypeOK, RoundInv, Registered,
       Slots
  <2>6. HeardInv'
    <3> SUFFICES ASSUME NEW u \in Senders, NEW p \in stayed[u] \cap Listening,
                        pc'[u] # "fault", heard'[u][p] < 1
                 PROVE  \E i \in Slots : Ahead(u, p, i)'
      BY <1>6, <2>2 DEF CallBack, HeardInv, TypeOK
    <3>0. pc[u] # "fault" /\ heard[u][p] < 1
      <4>1. CASE u = s
        BY <1>6, <2>2, <4>1 DEF CallBack, TypeOK
      <4>2. CASE u # s
        BY <1>6, <2>2, <4>2 DEF CallBack, NextSlot, TypeOK
      <4> QED BY <4>1, <4>2
    <3>1. PICK i \in Slots : Ahead(u, p, i)
      BY <3>0 DEF HeardInv, TypeOK
    <3>2. CASE u # s
      BY <1>6, <3>1, <3>2 DEF CallBack, NextSlot, Ahead, Walking, TypeOK
    <3>3. CASE u = s
      <4>1. heard'[s][p] = 0 /\ p \in Observers
        BY <2>2, <3>3 DEF TypeOK, Slots
      <4>2. i # slot[s]
        BY <1>6, <2>2, <3>1, <3>3, <4>1 DEF CallBack, Reads, Ahead, Walking,
           TypeOK
      <4>3. i >= slot'[s] /\ pc'[s] \notin {"member", "call"}
        BY <1>6, <2>1, <3>1, <3>3, <4>2 DEF CallBack, NextSlot, Ahead, TypeOK,
           Slots
      <4> QED BY <1>6, <3>1, <3>3, <4>3 DEF CallBack, Ahead, Walking
    <3> QED BY <3>2, <3>3
  <2>7. OnceInv'
    BY <1>6, <2>1, <2>2 DEF CallBack, NextSlot, Reads, TypeOK, OnceInv, Walking,
       Slots
  <2> QED BY <2>3, <2>4, <2>5, <2>6, <2>7
<1>7. ASSUME NEW s \in Senders, SendEnd(s) PROVE IInv'
  <2>1. TypeOK'
    <3>1. left' \in [Senders -> BOOLEAN]
      BY <1>7, Zenon DEF SendEnd, TypeOK
    <3> QED BY <1>7, <3>1 DEF SendEnd, TypeOK
  <2>2. ReadInv' /\ RoundInv' /\ HeardInv' /\ OnceInv'
    BY <1>7 DEF SendEnd, TypeOK, ReadInv, RoundInv, HeardInv, OnceInv, Ahead,
       Walking, Registered
  <2> QED BY <2>1, <2>2
<1>8. CASE UNCHANGED vars
  BY <1>8 DEF vars, sendVars, TypeOK, ReadInv, RoundInv, HeardInv, OnceInv,
     Ahead, Walking, Registered
<1> QED BY <1>1, <1>2, <1>3, <1>4, <1>5, <1>6, <1>7, <1>8 DEF Next, Send

LEMMA Invariance == Spec => []IInv
  BY InitIInv, NextIInv, PTL DEF Spec

-----------------------------------------------------------------------------
\* wifi_device.c 124-262.  Types: in particular the walk stays in the table and
\* no observer is called more often in a round than the table has slots.
THEOREM TypeCorrect == Spec => []TypeOK
  BY Invariance, PTL DEF IInv

\* wifi_device.c 189-262.  Only the unregistration of the observer that the
\* walk has found at its last test makes it fault.
THEOREM FaultOnlyByUnregisterHolds == Spec => []FaultOnlyByUnregister
<1>1. IInv => FaultOnlyByUnregister
  BY DEF IInv, ReadInv, FaultOnlyByUnregister
<1> QED BY <1>1, Invariance, PTL

\* wifi_device.c 124-165, 189-262.  An observer that stays for a whole round
\* hears it, and with disciplined clients just once.
THEOREM StayedHeardOnceHolds == Spec => []StayedHeardOnce
<1>1. ASSUME IInv, NEW s \in Senders, pc[s] = "done",
             NEW o \in stayed[s] \cap Listening
      PROVE  heard[s][o] >= 1 /\ (disciplined => heard[s][o] <= 1)
  <2>1. \A i \in Slots : ~Ahead(s, o, i)
    BY <1>1 DEF IInv, RoundInv, Ahead, Slots
  <2>2. heard[s][o] >= 1
    BY <1>1, <2>1 DEF IInv, HeardInv
  <2>3. disciplined => heard[s][o] <= 1
    BY <1>1 DEF IInv, OnceInv
  <2> QED BY <2>2, <2>3
<1>2. IInv => StayedHeardOnce
  BY <1>1 DEF StayedHeardOnce
<1> QED BY <1>2, Invariance, PTL

-----------------------------------------------------------------------------
(* The refinement: for disciplined clients the table is a bounded set. *)

\* A table without duplicates that has a free slot holds less than Size.
LEMMA FreeSlotMeansRoom ==
  ASSUME event \in [Slots -> Observers \cup {NULL}],
         NEW i \in Slots, event[i] = NULL
  PROVE  Cardinality(Registered) < Size
<1> DEFINE taken == {j \in Slots : event[j] # NULL}
           f == [j \in taken |-> event[j]]
<1>1. IsFiniteSet(Slots) /\ Cardinality(Slots) = Size
  BY FS_Interval DEF Slots
<1>2. IsFiniteSet(taken) /\ Cardinality(taken) <= Size
        /\ Cardinality(taken) # Size
  <2>1. taken \in SUBSET Slots /\ taken # Slots
    OBVIOUS
  <2> QED BY <1>1, <2>1, FS_Subset
<1>3. f \in Surjection(taken, Registered)
  BY DEF Surjection, Registered
<1>4. IsFiniteSet(Registered) /\ Cardinality(Registered) <= Cardinality(taken)
  BY <1>2, <1>3, FS_Surjection
<1> QED BY <1>2, <1>4, FS_CardinalityType

LEMMA InitMaps == Init => Set!Init
  BY DEF Init, Set!Init, Registered

LEMMA StepMaps ==
  IInv /\ [Next]_vars => [Set!Next]_(IF disciplined THEN Registered ELSE {})
<1> SUFFICES ASSUME IInv, [Next]_vars
             PROVE  [Set!Next]_(IF disciplined THEN Registered ELSE {})
  OBVIOUS
<1>0. disciplined' = disciplined
  BY DEF Next, vars
<1>1. CASE ~disciplined
  BY <1>0, <1>1
<1>2. ASSUME disciplined, NEW o \in Observers, RegisterWifiEvent(o)
      PROVE  Set!Insert(o)
  <2> PICK i \in Slots : IsFirst(i, {o, NULL})
        /\ event' = [event EXCEPT ![i] = o]
    BY <1>2 DEF RegisterWifiEvent
  <2>1. o \notin Registered /\ event[i] = NULL
    BY <1>2 DEF RegisterWifiEvent, IsFirst, Registered
  <2>2. Cardinality(Registered) < Size
    BY <2>1, FreeSlotMeansRoom DEF IInv, TypeOK
  <2>3. Registered' = Registered \cup {o}
    <3>1. \A j \in Slots : event'[j] = IF j = i THEN o ELSE event[j]
      BY DEF IInv, TypeOK
    <3>2. o # NULL
      OBVIOUS
    <3>3. ASSUME NEW e \in Registered PROVE e \in Registered'
      <4> PICK j \in Slots : event[j] = e /\ e # NULL
        BY DEF Registered
      <4> QED BY <2>1, <3>1 DEF Registered
    <3>4. o \in Registered'
      BY <3>1, <3>2 DEF Registered
    <3>5. ASSUME NEW e \in Registered' PROVE e \in Registered \cup {o}
      <4> PICK j \in Slots : event'[j] = e /\ e # NULL
        BY DEF Registered
      <4> QED BY <3>1 DEF Registered
    <3>6. Registered \cup {o} \subseteq Registered'
      BY <3>3, <3>4
    <3>7. Registered' \subseteq Registered \cup {o}
      BY <3>5
    <3> QED BY <3>6, <3>7
  <2> QED BY <1>0, <1>2, <2>1, <2>2, <2>3 DEF Set!Insert, Set!Cardinality,
        Cardinality
<1>3. ASSUME disciplined, NEW o \in Observers, UnRegisterWifiEvent(o)
      PROVE  Set!Remove(o)
  <2> PICK i \in Slots : IsFirst(i, {o}) /\ event' = [event EXCEPT ![i] = NULL]
    BY <1>3 DEF UnRegisterWifiEvent
  <2>1. o \in Registered
    BY DEF Registered, IsFirst
  <2>2. Registered' = Registered \ {o}
    BY <1>3 DEF Registered, IsFirst, IInv, TypeOK, OnceInv
  <2> QED BY <1>0, <1>3, <2>1, <2>2 DEF Set!Remove
<1>4. ASSUME NEW s \in Senders, Send(s) PROVE UNCHANGED Registered
  BY <1>4 DEF Send, SendBegin, TestSlot, TestMember, CallBack, SendEnd,
     Registered
<1>5. CASE UNCHANGED vars
  BY <1>5 DEF vars, Registered
<1> QED BY <1>0, <1>1, <1>2, <1>3, <1>4, <1>5 DEF Next, Set!Next

\* wifi_device.c 124-165.  For disciplined clients registering and unregistering
\* implement a set of at most WIFI_MAX_EVENT_SIZE observers.
THEOREM Refinement == Spec => ImplementsSet
<1>1. IInv /\ [Next]_vars => [Set!Next]_(IF disciplined THEN Registered ELSE {})
  BY StepMaps
<1> QED BY <1>1, InitMaps, Invariance, PTL DEF Spec, Set!Spec, ImplementsSet
=============================================================================
