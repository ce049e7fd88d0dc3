----------------------------- MODULE SpiDevice -----------------------------
(***************************************************************************)
(* The SPI controller driver hdf_drivers/spi/spi_esp32u4.c: HDF binds,     *)
(* initialises and releases the driver, clients open, close, configure and *)
(* use the controller.  Open and Close count their callers in the 16-bit   *)
(* openCnt and make two ESP-IDF calls each, either of which may fail and   *)
(* leave the work half done.                                               *)
(*                                                                         *)
(* HDF is external: its controller lock makes each call one step.  So is   *)
(* ESP-IDF: initialising a bus that is in use fails, so does freeing one   *)
(* that still has a device, and any call may fail for want of resources.   *)
(***************************************************************************)
EXTENDS Naturals

CONSTANTS Speeds,    \* the settings a client can choose
          CountMod,  \* 2^16, the range of the uint16_t openCnt
          MaxOpens   \* bound: how many opens are outstanding at a time

ConstantsOK ==
  CountMod \in Nat \ {0, 1} /\ MaxOpens \in Nat /\ Speeds # {}

VARIABLES
  cntlr,     \* "none", "bound" (no priv yet or any more) or "ready"
  openCnt,   \* priv->openCnt
  handle,    \* priv->spi_handle # NULL
  speed,     \* priv->speed, standing for the settings of SetCfg
  bus,       \* ESP-IDF: the bus is initialised
  attached,  \* ESP-IDF: the device is on the bus
  busSpeed,  \* ESP-IDF: the settings it was added with
  opens,     \* history: opens that succeeded and were not closed yet
  faulted,   \* history: an ESP-IDF call has failed for want of resources
  wrapped    \* history: openCnt has wrapped around

devVars == <<openCnt, handle, speed>>
espVars == <<bus, attached, busSpeed>>
historyVars == <<opens, faulted, wrapped>>
vars == <<cntlr, devVars, espVars, historyVars>>

TypeOK ==
  /\ cntlr \in {"none", "bound", "ready"}
  /\ openCnt \in 0 .. CountMod - 1
  /\ handle \in BOOLEAN /\ speed \in Speeds
  /\ bus \in BOOLEAN /\ attached \in BOOLEAN /\ busSpeed \in Speeds
  /\ opens \in 0 .. MaxOpens
  /\ faulted \in BOOLEAN /\ wrapped \in BOOLEAN

DefaultSpeed == CHOOSE s \in Speeds : TRUE

Init ==
  /\ cntlr = "none"
  /\ openCnt = 0 /\ handle = FALSE /\ speed = DefaultSpeed
  /\ bus = FALSE /\ attached = FALSE /\ busSpeed = DefaultSpeed
  /\ opens = 0 /\ faulted = FALSE /\ wrapped = FALSE

-----------------------------------------------------------------------------
(* HDF: Bind, Init and Release *)

SpiDriverBind ==
  /\ cntlr = "none"
  /\ cntlr' = "bound"
  /\ UNCHANGED <<devVars, espVars, historyVars>>

\* AttachSpiDevice: a zeroed SpiDeviceSt with the settings of the hcs node;
\* without memory or without a node the controller stays as it is.
SpiDriverInit ==
  /\ cntlr = "bound"
  /\ \/ /\ cntlr' = "ready"
        /\ openCnt' = 0 /\ handle' = FALSE /\ speed' = DefaultSpeed
     \/ UNCHANGED <<cntlr, devVars>>
  /\ UNCHANGED <<espVars, historyVars>>

-----------------------------------------------------------------------------
(* Open *)

\* The first open initialises the bus (failure: HDF_ERR_IO) and adds the
\* device (failure: HDF_ERR_DEVICE_BUSY, with the bus left initialised).
SpiDevOpen ==
  /\ cntlr = "ready" /\ opens < MaxOpens
  /\ \/ \* later opens only count
        /\ openCnt > 0
        /\ openCnt' = (openCnt + 1) % CountMod
        /\ opens' = opens + 1
        /\ wrapped' = (wrapped \/ openCnt + 1 = CountMod)
        /\ UNCHANGED <<handle, espVars, faulted>>
     \/ \* spi_bus_initialize fails
        /\ openCnt = 0
        /\ faulted' = (faulted \/ ~bus)
        /\ UNCHANGED <<openCnt, handle, espVars, opens, wrapped>>
     \/ \* spi_bus_add_device fails
        /\ openCnt = 0 /\ ~bus /\ bus' = TRUE
        /\ faulted' = TRUE
        /\ UNCHANGED <<openCnt, handle, attached, busSpeed, opens, wrapped>>
     \/ \* both succeed
        /\ openCnt = 0 /\ ~bus /\ bus' = TRUE
        /\ attached' = TRUE /\ handle' = TRUE /\ busSpeed' = speed
        /\ openCnt' = 1 /\ opens' = opens + 1
        /\ UNCHANGED <<faulted, wrapped>>
  /\ UNCHANGED <<cntlr, speed>>

-----------------------------------------------------------------------------
(* Close *)

\* What the last close does after openCnt has become 0: the device is removed
\* (failure: HDF_ERR_DEVICE_BUSY), then the bus freed (failure: HDF_ERR_IO).
TearDown ==
  \/ /\ attached /\ attached' = FALSE /\ handle' = FALSE
     /\ \/ bus' = FALSE /\ UNCHANGED faulted
        \/ faulted' = TRUE /\ UNCHANGED bus
  \/ faulted' = TRUE /\ UNCHANGED <<attached, handle, bus>>

\* Mutant of CloseLast: the handle is not reset.
CloseLastKeepsHandle ==
  /\ openCnt' = 0
  /\ attached' = FALSE /\ bus' = FALSE
  /\ UNCHANGED <<handle, faulted>>

\* Mutant of CloseLast: the bus is not freed.
CloseLastKeepsBus ==
  /\ openCnt' = 0
  /\ attached' = FALSE /\ handle' = FALSE
  /\ UNCHANGED <<bus, faulted>>

\* openCnt reaches 0 before, and whether or not, the teardown succeeds.
CloseLast == openCnt' = 0 /\ TearDown

\* A client closes what it has opened, and takes any answer for closed.
SpiDevClose ==
  /\ cntlr = "ready" /\ opens > 0
  /\ opens' = opens - 1
  /\ \/ openCnt > 1 /\ openCnt' = openCnt - 1
        /\ UNCHANGED <<handle, bus, attached, faulted>>
     \/ openCnt = 1 /\ CloseLast
     \/ openCnt = 0 /\ UNCHANGED <<openCnt, handle, bus, attached, faulted>>
  /\ UNCHANGED <<cntlr, speed, busSpeed, wrapped>>

\* Release closes for all clients at once, ignoring the answer, frees priv and
\* forgets it; the controller itself is not destroyed.
SpiDriverRelease ==
  /\ cntlr = "ready"
  /\ \/ openCnt > 0 /\ CloseLast
     \/ openCnt = 0 /\ UNCHANGED <<openCnt, handle, bus, attached, faulted>>
  /\ cntlr' = "bound"
  /\ opens' = 0
  /\ UNCHANGED <<speed, busSpeed, wrapped>>

-----------------------------------------------------------------------------
\* SetCfg changes the settings of the next session, not of the device added.
SpiDevSetCfg ==
  /\ cntlr = "ready"
  /\ \E s \in Speeds : speed' = s
  /\ UNCHANGED <<cntlr, openCnt, handle, espVars, historyVars>>

Next ==
  \/ SpiDriverBind \/ SpiDriverInit \/ SpiDriverRelease
  \/ SpiDevOpen \/ SpiDevClose \/ SpiDevSetCfg

Spec == Init /\ [][Next]_vars

-----------------------------------------------------------------------------
(* Properties *)

\* spi_esp32u4.c 239-267, 304-330.  SpiDevTransfer uses spi_handle without
\* looking at openCnt: the handle is NULL or that of a device on the bus.
HandleNeverDangles == (cntlr = "ready" /\ handle) => attached

\* spi_esp32u4.c 211-235, 251-265.  A controller with no open client and a bus
\* still in use can never be opened again; only a failed ESP-IDF call or the
\* wrap of openCnt brings it there.
StuckOnlyByFault ==
  (openCnt = 0 /\ bus) => faulted \/ wrapped
=============================================================================
