--------------------------- MODULE WatchdogDriver ---------------------------
(***************************************************************************)
(* The driver entry of hdf_drivers/watchdog/watchdog_esp32u4.c: the        *)
(* controllers it allocates at a bind, their device info, and the pointers *)
(* that are left to both.  RtcWatchdog models what a controller does.      *)
(*                                                                         *)
(* External: HDF calls the entry of one device after the other.  It        *)
(* publishes the service of a device whose Init succeeded, so clients find *)
(* no other; it may release a device once after its Init, and bind it      *)
(* again then.  An allocation takes an object of its own, or fails.        *)
(***************************************************************************)
CONSTANTS Devices,
          Matched,   \* the devices that have a node in the hcs file
          Cntlrs     \* the controllers that can be allocated

ConstantsOK == Matched \subseteq Devices

VARIABLES
  stage,      \* HDF: per device, where it is in its life
  service,    \* per device: device->service, {} or the controller
  cntlr,      \* per controller: its state, its info, and whether it has ops
  published,  \* HDF: the controllers that clients have found
  \* history
  released,   \* controllers that HDF released
  misused     \* controllers used after they, or their info, were freed

vars == <<stage, service, cntlr, published, released, misused>>

Unused == [state |-> "unused"]
Gone(c) == cntlr[c].state = "freed" \/ cntlr[c].info = "freed"

TypeOK ==
  /\ stage \in [Devices -> {"new", "bound", "inited"}]
  /\ \A d \in Devices : service[d] \subseteq Cntlrs
  /\ \A c \in Cntlrs : cntlr[c] # Unused =>
       cntlr[c] \in [state : {"live", "freed"},
                     info : {"none", "live", "freed"}, ops : BOOLEAN]
  /\ published \cup released \cup misused \subseteq Cntlrs

Init ==
  /\ stage = [d \in Devices |-> "new"]
  /\ service = [d \in Devices |-> {}]
  /\ cntlr = [c \in Cntlrs |-> Unused]
  /\ published = {} /\ released = {} /\ misused = {}

\* A bind that finds no memory leaves everything as it was.
WatchdogDriverBind(d) ==
  /\ stage[d] = "new"
  /\ \/ \E c \in Cntlrs :
          /\ cntlr[c] = Unused
          /\ cntlr' = [cntlr EXCEPT ![c] =
               [state |-> "live", info |-> "none", ops |-> FALSE]]
          /\ service' = [service EXCEPT ![d] = {c}]
          /\ stage' = [stage EXCEPT ![d] = "bound"]
     \/ UNCHANGED <<cntlr, service, stage>>
  /\ UNCHANGED <<published, released, misused>>

\* Mutant of AttachWatchdogDeviceInfo: the failure is not reported.
AttachAlways(d) == {TRUE}

\* Fails without a node and without memory for the info, of which nothing is
\* left then.
AttachWatchdogDeviceInfo(d) == IF d \in Matched THEN {TRUE, FALSE} ELSE {FALSE}

\* After a failure the controller is freed, and device->service names it on.
WatchdogDriverInit(d) ==
  /\ stage[d] = "bound" /\ stage' = [stage EXCEPT ![d] = "inited"]
  /\ \E attached \in AttachWatchdogDeviceInfo(d) :
       /\ cntlr' = [c \in Cntlrs |->
            IF c \notin service[d] THEN cntlr[c]
            ELSE IF attached
                 THEN [state |-> "live",
                       info |-> IF d \in Matched THEN "live" ELSE "freed",
                       ops |-> TRUE]
                 ELSE [cntlr[c] EXCEPT !.state = "freed"]]
       /\ published' = IF attached THEN published \cup service[d] ELSE published
  /\ UNCHANGED <<service, released, misused>>

\* Frees the info and nothing else; all pointers stay.
WatchdogDriverRelease(d) ==
  /\ stage[d] = "inited" /\ stage' = [stage EXCEPT ![d] = "new"]
  /\ released' = released \cup service[d]
  /\ misused' = misused \cup {c \in service[d] : Gone(c)}
  /\ cntlr' = [c \in Cntlrs |->
       IF c \in service[d] /\ cntlr[c].info # "none"
       THEN [cntlr[c] EXCEPT !.info = "freed"] ELSE cntlr[c]]
  /\ UNCHANGED <<service, published>>

\* A client of the service: each method uses the controller and its info.
WatchdogMethod(c) ==
  /\ c \in published
  /\ misused' = IF Gone(c) THEN misused \cup {c} ELSE misused
  /\ UNCHANGED <<stage, service, cntlr, published, released>>

Next ==
  \/ \E d \in Devices : \/ WatchdogDriverBind(d) \/ WatchdogDriverInit(d)
                        \/ WatchdogDriverRelease(d)
  \/ \E c \in published : WatchdogMethod(c)

Spec == Init /\ [][Next]_vars

-----------------------------------------------------------------------------
(* Properties *)

\* watchdog_esp32u4.c 99-215.  Of what a bind, an init or a release leaves
\* behind, clients never see a half: a controller they can find is whole, with
\* its info and its methods, until HDF releases it; nothing that was freed is
\* used before; and no controller is lost but by a release.
FoundIsWhole ==
  /\ \A c \in published \ released :
       cntlr[c].state = "live" /\ cntlr[c].info = "live" /\ cntlr[c].ops
  /\ misused \subseteq released
  /\ \A c \in Cntlrs \ released :
       cntlr[c].state = "live" => \E d \in Devices : c \in service[d]
=============================================================================
