----------------------------- MODULE WifiEvent -----------------------------
(***************************************************************************)
(* The observer table DevWifiInfo.event[] of hals/drivers/wifi_lite/       *)
(* wifi_device.c: RegisterWifiEvent and UnRegisterWifiEvent change it      *)
(* under WifiLock, the SendOn... functions walk it without the lock, from  *)
(* the ESP event-loop task or from a task inside Scan.                     *)
(*                                                                         *)
(* An observer is one WifiEvent structure; Listening holds those whose     *)
(* callback for the event being sent is not NULL.  Registration is one     *)
(* step: it writes at most one slot and all writers hold the lock.         *)
(***************************************************************************)
EXTENDS Naturals, FiniteSets

CONSTANTS Observers,    \* the WifiEvent structures of the clients
          Listening,    \* those that have the callback being sent
          NULL,         \* an empty slot
          Size,         \* WIFI_MAX_EVENT_SIZE
          Senders       \* the tasks that send events

ASSUME ListeningAssumption == Listening \subseteq Observers
ASSUME NULLAssumption == NULL \notin Observers
ASSUME SizeAssumption == Size \in Nat \ {0}

Slots == 1 .. Size

VARIABLES event,    \* DevWifiInfo.event[]
          pc,       \* per sender: where it is in SendOn...
          slot,     \* per sender: the loop index
          read,     \* per sender: what it last read from pevent[i]
          heard,    \* history, per sender: callbacks of this round
          stayed,   \* history, per sender: registered since the round began
          left,     \* history, per sender: the observer it found at its last
                    \* test of a slot was unregistered since
          disciplined   \* clients never register an observer twice; rigid

sendVars == <<pc, slot, read, heard, stayed, left>>
vars == <<event, sendVars, disciplined>>

Registered == {event[i] : i \in Slots} \ {NULL}

TypeOK ==
  /\ event \in [Slots -> Observers \cup {NULL}]
  /\ pc \in [Senders -> {"idle", "test", "member", "call", "done", "fault"}]
  /\ slot \in [Senders -> 1 .. Size + 1]
  /\ \A s \in Senders : pc[s] \in {"test", "member", "call"} => slot[s] \in Slots
  /\ read \in [Senders -> Observers \cup {NULL}]
  /\ heard \in [Senders -> [Observers -> 0 .. Size]]
  /\ stayed \in [Senders -> SUBSET Observers]
  /\ left \in [Senders -> BOOLEAN]
  /\ disciplined \in BOOLEAN

Init ==
  /\ disciplined \in BOOLEAN
  /\ event = [i \in Slots |-> NULL]
  /\ pc = [s \in Senders |-> "idle"]
  /\ slot = [s \in Senders |-> 1]
  /\ read = [s \in Senders |-> NULL]
  /\ heard = [s \in Senders |-> [o \in Observers |-> 0]]
  /\ stayed = [s \in Senders |-> {}]
  /\ left = [s \in Senders |-> FALSE]

-----------------------------------------------------------------------------
(* Registration, under WifiLock *)

\* Slot i is the first one whose content is in S.
IsFirst(i, S) == event[i] \in S /\ \A j \in 1 .. i - 1 : event[j] \notin S

\* Mutant of RegisterWifiEvent: the last slot is used, taken or not.
RegisterOverwrites(o) ==
  /\ disciplined => o \notin Registered
  /\ event' = [event EXCEPT ![Size] = o]
  /\ UNCHANGED sendVars

\* The first slot that is free or already holds o decides; the latter is an
\* error (INVALID_ARGS), and so is a full table (UNKNOWN).
RegisterWifiEvent(o) ==
  /\ disciplined => o \notin Registered
  /\ \E i \in Slots :
       /\ IsFirst(i, {o, NULL})
       /\ event' = [event EXCEPT ![i] = o]
  /\ UNCHANGED sendVars

\* Only the first slot that holds o is cleared; none is an error (UNKNOWN).
UnRegisterWifiEvent(o) ==
  /\ \E i \in Slots :
       /\ IsFirst(i, {o})
       /\ event' = [event EXCEPT ![i] = NULL]
       /\ left' = [s \in Senders |->
            left[s] \/ (pc[s] \in {"member", "call"} /\ slot[s] = i)]
  /\ stayed' = [s \in Senders |-> stayed[s] \ {o}]
  /\ UNCHANGED <<pc, slot, read, heard>>

-----------------------------------------------------------------------------
(* SendOn...: the five functions differ only in the callback. *)

\* The for loop over i.
NextSlot(s) ==
  /\ slot' = [slot EXCEPT ![s] = @ + 1]
  /\ pc' = [pc EXCEPT ![s] = IF slot[s] = Size THEN "done" ELSE "test"]

\* pevent[i] is a plain object: the build may read it again or reuse the
\* value of the test.
Reads(s) == {read[s], event[slot[s]]}

SendBegin(s) ==
  /\ pc[s] = "idle"
  /\ pc' = [pc EXCEPT ![s] = "test"]
  /\ stayed' = [stayed EXCEPT ![s] = Registered]
  /\ UNCHANGED <<event, slot, read, heard, left>>

\* Mutant of TestSlot: an empty slot ends the walk.
TestSlotStops(s) ==
  /\ pc[s] = "test"
  /\ read' = [read EXCEPT ![s] = event[slot[s]]]
  /\ left' = [left EXCEPT ![s] = FALSE]
  /\ \/ event[slot[s]] = NULL /\ pc' = [pc EXCEPT ![s] = "done"] /\ UNCHANGED slot
     \/ /\ event[slot[s]] # NULL
        /\ pc' = [pc EXCEPT ![s] = "member"] /\ UNCHANGED slot
  /\ UNCHANGED <<event, heard, stayed>>

\* Mutant of TestSlot: the test for NULL is forgotten.
TestSlotMissing(s) ==
  /\ pc[s] = "test"
  /\ read' = [read EXCEPT ![s] = event[slot[s]]]
  /\ left' = [left EXCEPT ![s] = FALSE]
  /\ pc' = [pc EXCEPT ![s] = "member"]
  /\ UNCHANGED <<event, slot, heard, stayed>>

\* if (pevent[i] == NULL) continue
TestSlot(s) ==
  /\ pc[s] = "test"
  /\ read' = [read EXCEPT ![s] = event[slot[s]]]
  /\ left' = [left EXCEPT ![s] = FALSE]
  /\ \/ event[slot[s]] = NULL /\ NextSlot(s)
     \/ /\ event[slot[s]] # NULL
        /\ pc' = [pc EXCEPT ![s] = "member"] /\ UNCHANGED slot
  /\ UNCHANGED <<event, heard, stayed>>

\* if (pevent[i]->OnWifi... == NULL) continue; a NULL pevent[i] faults.
TestMember(s) ==
  /\ pc[s] = "member"
  /\ \E o \in Reads(s) :
       /\ read' = [read EXCEPT ![s] = o]
       /\ \/ o = NULL /\ pc' = [pc EXCEPT ![s] = "fault"] /\ UNCHANGED slot
          \/ o \in Observers \ Listening /\ NextSlot(s)
          \/ o \in Listening /\ pc' = [pc EXCEPT ![s] = "call"] /\ UNCHANGED slot
  /\ UNCHANGED <<event, heard, stayed, left>>

\* pevent[i]->OnWifi...(..): a third read; a NULL callback faults too.
CallBack(s) ==
  /\ pc[s] = "call"
  /\ \E o \in Reads(s) :
       /\ read' = [read EXCEPT ![s] = o]
       /\ \/ /\ o \in Listening
             /\ heard' = [heard EXCEPT ![s][o] = @ + 1]
             /\ NextSlot(s)
          \/ /\ o \notin Listening
             /\ pc' = [pc EXCEPT ![s] = "fault"]
             /\ UNCHANGED <<heard, slot>>
  /\ UNCHANGED <<event, stayed, left>>

SendEnd(s) ==
  /\ pc[s] = "done"
  /\ pc' = [pc EXCEPT ![s] = "idle"]
  /\ slot' = [slot EXCEPT ![s] = 1]
  /\ read' = [read EXCEPT ![s] = NULL]
  /\ heard' = [heard EXCEPT ![s] = [o \in Observers |-> 0]]
  /\ stayed' = [stayed EXCEPT ![s] = {}]
  /\ left' = [left EXCEPT ![s] = FALSE]
  /\ UNCHANGED event

Send(s) ==
  \/ SendBegin(s) \/ TestSlot(s) \/ TestMember(s) \/ CallBack(s) \/ SendEnd(s)

\* A fault is an exception of the CPU: nothing runs any more.
Next ==
  /\ \A s \in Senders : pc[s] # "fault"
  /\ \/ \E o \in Observers : RegisterWifiEvent(o) \/ UnRegisterWifiEvent(o)
     \/ \E s \in Senders : Send(s)
  /\ UNCHANGED disciplined

Spec == Init /\ [][Next]_vars

-----------------------------------------------------------------------------
(* Properties *)

\* wifi_device.c 189-262.  The unlocked walk faults only when the very observer
\* it found at its last test of a slot has been unregistered since; whatever
\* else comes or goes during the walk is safe.
FaultOnlyByUnregister ==
  \A s \in Senders : pc[s] = "fault" => left[s]

\* wifi_device.c 124-165, 189-262.  An observer that stays registered for a
\* whole round hears it, whatever the others register or unregister meanwhile;
\* with disciplined clients it hears it once and no more.
StayedHeardOnce ==
  \A s \in Senders : pc[s] = "done" =>
    \A o \in stayed[s] \cap Listening :
      heard[s][o] >= 1 /\ (disciplined => heard[s][o] <= 1)

\* wifi_device.c 124-165.  For disciplined clients the table is a set of at
\* most WIFI_MAX_EVENT_SIZE observers: no observer is lost, none stays behind.
Set == INSTANCE BoundedSet WITH
         Elements <- Observers, Capacity <- Size,
         members <- IF disciplined THEN Registered ELSE {}
ImplementsSet == Set!Spec
=============================================================================
