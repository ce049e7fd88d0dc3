--------------------------- MODULE WifiScanProof ---------------------------
(***************************************************************************)
(* Proofs about WifiScan for every set of scanners and readers, number of  *)
(* rounds and queue bound.  The argument: scan_ok says "ended" only while  *)
(* the list of that scan is fresh, and in a calm behaviour the scanner     *)
(* that has started a scan finds it running, or its end queued, when it    *)
(* gets to set scan_ok.                                                    *)
(***************************************************************************)
EXTENDS WifiScan, TLAPS

\* Which labels belong to scanners and which to readers.
LabelInv ==
  /\ \A c \in Scanners : pc[c] \in {"idle", "stop", "start", "mark"}
  /\ \A r \in Readers : pc[r] \in {"idle", "look", "poll", "test", "take"}

\* A scan that is said to have ended was not handed out yet.
FreshInv ==
  /\ scan_ok = 1 => fresh
  /\ LoneReader => \A r \in Readers : pc[r] = "take" => fresh

\* In a calm behaviour the session stays as it is, one task scans, and what it
\* has started or said to run does run or has its end queued.
CalmInv ==
  calm =>
    /\ handler /\ session = "on"
    /\ \A c \in Scanners : pc[c] # "idle" => c = OnlyScanner
    /\ (scan_ok = SCANING \/ pc[OnlyScanner] = "mark")
         => scanning \/ pending > 0

IInv == TypeOK /\ LabelInv /\ FreshInv /\ CalmInv
-----------------------------------------------------------------------------
USE DisjointAssumption, MaxIndexAssumption, MaxPendingAssumption,
   OnlyScannerAssumption

LEMMA InitIInv == Init => IInv
<1> SUFFICES ASSUME Init PROVE IInv
  OBVIOUS
<1>1. TypeOK
  <2>1. active \in BOOLEAN /\ handler \in BOOLEAN /\ fresh \in BOOLEAN
        /\ scanning \in BOOLEAN /\ calm \in BOOLEAN
    BY Zenon DEF Init
  <2>2. scan_ok = 0 /\ pending \in 0 .. MaxPending /\ session = "on"
    BY DEF Init
  <2>3. pc \in [Clients -> {"idle"}] /\ i \in [Readers -> {0}]
    BY Zenon DEF Init
  <2>4. i \in [Readers -> 0 .. MaxIndex]
    BY <2>3
  <2> QED BY <2>1, <2>2, <2>3, <2>4 DEF TypeOK
<1>2. LabelInv /\ FreshInv /\ CalmInv
  BY DEF Init, LabelInv, FreshInv, CalmInv, Clients, SCANING
<1> QED BY <1>1, <1>2 DEF IInv

LEMMA NextIInv == IInv /\ [Next]_vars => IInv'
<1> SUFFICES ASSUME IInv, [Next]_vars PROVE IInv'
  OBVIOUS
<1>0. calm' = calm
  BY DEF Next, vars
<1> USE <1>0 DEF IInv, GoTo, driverVars, Clients
<1>1. ASSUME NEW c \in Scanners, ScanEnter(c) PROVE IInv'
  <2>1. TypeOK' /\ LabelInv'
    BY <1>1 DEF ScanEnter, TypeOK, LabelInv, SCANING, TAKEN
  <2>2. FreshInv' /\ CalmInv'
    BY <1>1 DEF ScanEnter, TypeOK, LabelInv, FreshInv, LoneReader, CalmInv,
       SCANING, TAKEN
  <2> QED BY <2>1, <2>2
<1>2. ASSUME NEW c \in Scanners, ScanStop(c) PROVE IInv'
  <2>0. scanning' \in BOOLEAN /\ UNCHANGED <<active, handler, fresh>>
    BY <1>2, Zenon DEF ScanStop
  <2>1. TypeOK' /\ LabelInv'
    <3>1. pending' \in 0 .. MaxPending
      BY <1>2 DEF ScanStop, TypeOK
    <3>2. pc' \in [Clients -> {"idle", "stop", "start", "mark",
                              "look", "poll", "test", "take"}] /\ LabelInv'
      BY <1>2 DEF ScanStop, TypeOK, LabelInv
    <3> QED BY <2>0, <3>1, <3>2, <1>2 DEF ScanStop, TypeOK
  <2>2. FreshInv' /\ CalmInv'
    BY <1>2 DEF ScanStop, TypeOK, LabelInv, FreshInv, LoneReader, CalmInv,
       SCANING, TAKEN
  <2> QED BY <2>1, <2>2
<1>3. ASSUME NEW c \in Scanners, ScanStart(c) PROVE IInv'
  <2>0. scanning' \in BOOLEAN /\ UNCHANGED <<active, handler, fresh>>
    BY <1>3, Zenon DEF ScanStart, TypeOK
  <2>1. TypeOK' /\ LabelInv'
    <3>1. pc' \in [Clients -> {"idle", "stop", "start", "mark",
                              "look", "poll", "test", "take"}] /\ LabelInv'
      BY <1>3 DEF ScanStart, TypeOK, LabelInv
    <3> QED BY <2>0, <3>1, <1>3 DEF ScanStart, TypeOK
  <2>2. FreshInv' /\ CalmInv'
    BY <1>3 DEF ScanStart, TypeOK, LabelInv, FreshInv, LoneReader, CalmInv,
       SCANING, TAKEN
  <2> QED BY <2>1, <2>2
<1>4. ASSUME NEW c \in Scanners, ScanMark(c) PROVE IInv'
  <2>1. TypeOK' /\ LabelInv'
    BY <1>4 DEF ScanMark, TypeOK, LabelInv, SCANING, TAKEN
  <2>2. FreshInv' /\ CalmInv'
    BY <1>4 DEF ScanMark, TypeOK, LabelInv, FreshInv, LoneReader, CalmInv,
       SCANING, TAKEN
  <2> QED BY <2>1, <2>2
<1>5. ASSUME NEW r \in Readers, ListEnter(r) PROVE IInv'
  <2>1. TypeOK' /\ LabelInv'
    BY <1>5 DEF ListEnter, TypeOK, LabelInv, SCANING, TAKEN
  <2>2. FreshInv' /\ CalmInv'
    BY <1>5 DEF ListEnter, TypeOK, LabelInv, FreshInv, LoneReader, CalmInv,
       SCANING, TAKEN
  <2> QED BY <2>1, <2>2
<1>6. ASSUME NEW r \in Readers, ListLook(r) PROVE IInv'
  <2>1. TypeOK' /\ LabelInv'
    BY <1>6 DEF ListLook, TypeOK, LabelInv, SCANING, TAKEN
  <2>2. FreshInv' /\ CalmInv'
    BY <1>6 DEF ListLook, TypeOK, LabelInv, FreshInv, LoneReader, CalmInv,
       SCANING, TAKEN
  <2> QED BY <2>1, <2>2
<1>7. ASSUME NEW r \in Readers, ListPoll(r) PROVE IInv'
  <2>1. TypeOK' /\ LabelInv'
    BY <1>7 DEF ListPoll, TypeOK, LabelInv, SCANING, TAKEN
  <2>2. FreshInv' /\ CalmInv'
    BY <1>7 DEF ListPoll, TypeOK, LabelInv, FreshInv, LoneReader, CalmInv,
       SCANING, TAKEN
  <2> QED BY <2>1, <2>2
<1>8. ASSUME NEW r \in Readers, ListTest(r) PROVE IInv'
  <2>1. TypeOK' /\ LabelInv'
    BY <1>8 DEF ListTest, TypeOK, LabelInv, SCANING, TAKEN
  <2>2. FreshInv' /\ CalmInv'
    BY <1>8 DEF ListTest, TypeOK, LabelInv, FreshInv, LoneReader, CalmInv,
       SCANING, TAKEN
  <2> QED BY <2>1, <2>2
<1>9. ASSUME NEW r \in Readers, ListTake(r) PROVE IInv'
  <2>1. TypeOK' /\ LabelInv'
    BY <1>9 DEF ListTake, TypeOK, LabelInv, SCANING, TAKEN
  <2>2. FreshInv' /\ CalmInv'
    BY <1>9 DEF ListTake, TypeOK, LabelInv, FreshInv, LoneReader, CalmInv,
       SCANING, TAKEN
  <2> QED BY <2>1, <2>2
<1>10. CASE ScanCompletes
  <2>0. scanning' \in BOOLEAN /\ UNCHANGED <<active, handler, fresh, calm>>
    BY <1>0, <1>10, Zenon DEF ScanCompletes
  <2>1. TypeOK'
    BY <2>0, <1>10 DEF ScanCompletes, TypeOK
  <2>2. LabelInv' /\ FreshInv'
    BY <1>10 DEF ScanCompletes, LabelInv, FreshInv
  <2>3. CalmInv'
    BY <1>10 DEF ScanCompletes, TypeOK, CalmInv
  <2> QED BY <2>1, <2>2, <2>3
<1>11. CASE ScanDone
  BY <1>11 DEF ScanDone, TypeOK, LabelInv, FreshInv, CalmInv, SCANING
<1>12. CASE Session
  <2>1. TypeOK'
    BY <1>12 DEF Session, TypeOK
  <2>2. LabelInv' /\ FreshInv' /\ CalmInv'
    BY <1>12 DEF Session, LabelInv, FreshInv, CalmInv
  <2> QED BY <2>1, <2>2
<1>13. CASE UNCHANGED vars
  BY <1>13 DEF vars, TypeOK, LabelInv, FreshInv, CalmInv
<1> QED
  BY <1>1, <1>2, <1>3, <1>4, <1>5, <1>6, <1>7, <1>8, <1>9, <1>10, <1>11, <1>12,
     <1>13
     DEF Next, Scan, GetScanInfoList

LEMMA Invariance == Spec => []IInv
  BY InitIInv, NextIInv, PTL DEF Spec

-----------------------------------------------------------------------------
\* wifi_device.c 481-497, 613-670.  Types: in particular scan_ok has one of its
\* four values and no reader polls more than MAX_INDEX rounds.
THEOREM TypeCorrect == Spec => []TypeOK
  BY Invariance, PTL DEF IInv

\* wifi_device.c 270-276, 613-670.  A lone reader never gets a scan twice,
\* however many tasks scan and whatever the session does.
THEOREM ListIsFreshHolds == Spec => []ListIsFresh
<1>1. IInv => ListIsFresh
  BY DEF IInv, FreshInv, ListIsFresh
<1> QED BY <1>1, Invariance, PTL

\* wifi_device.c 481-497, 653-661, 926-966.  In a calm behaviour a scan that is
\* said to run does run, or its end is in the event queue.
THEOREM ScaningIsTrueHolds == Spec => []ScaningIsTrue
<1>1. IInv => ScaningIsTrue
  BY DEF IInv, CalmInv, ScaningIsTrue
<1> QED BY <1>1, Invariance, PTL
=============================================================================
