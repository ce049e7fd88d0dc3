---------------------------- MODULE HalServices ----------------------------
(***************************************************************************)
(* The services of hals/ that keep state and have no state in common: the  *)
(* log (LogPrintf), the flash (FlashWrite), a UART port (HalUart) and the  *)
(* Bluetooth stack (BleStack).  A behaviour exercises one of them and      *)
(* leaves the others in their initial states: as they share nothing, that  *)
(* is every behaviour of each.                                             *)
(***************************************************************************)
EXTENDS Integers

CONSTANTS
  Tasks,                           \* of the log, the flash and the port
  Isr, MaxPieces, Prios,           \* LogPrintf
  SectorSize, Sectors,             \* FlashWrite
  Budgets, Longest,                \* FlashWrite
  Capacity, MaxSize, MaxBytes,     \* HalUart
  BleTasks                         \* BleStack

VARIABLES
  service,                                                 \* the one exercised
  bufLock, buf, log_pc, len, sent, blocked, prio, atomic,  \* LogPrintf
  flash, flash_pc, call, backup, before, shared, ended,
  calls,                                                   \* FlashWrite
  uart_state, rx_block, installed, head, tail, uart_pc, dataLen,
  data_received, data_remaining, further,                  \* HalUart
  controller, bluedroid, ble_pc, brought, refused          \* BleStack

logVars == <<bufLock, buf, log_pc, len, sent, blocked, prio, atomic>>
flashVars == <<flash, flash_pc, call, backup, before, shared, ended, calls>>
uartVars == <<uart_state, rx_block, installed, head, tail, uart_pc, dataLen,
              data_received, data_remaining, further>>
bleVars == <<controller, bluedroid, ble_pc, brought, refused>>
vars == <<service, logVars, flashVars, uartVars, bleVars>>

Log == INSTANCE LogPrintf WITH pc <- log_pc, MaxLen <- MaxPieces

Flash == INSTANCE FlashWrite WITH pc <- flash_pc

Uart == INSTANCE HalUart WITH pc <- uart_pc, Readers <- Tasks

Ble == INSTANCE BleStack WITH pc <- ble_pc, Tasks <- BleTasks

ASSUME ServicesAssumption ==
  Log!ConstantsOK /\ Flash!ConstantsOK /\ Uart!ConstantsOK

\* The choices of a component that is not exercised are fixed.
Init ==
  /\ service \in {"log", "flash", "uart", "bluetooth"}
  /\ Log!Init /\ Flash!Init /\ Uart!Init /\ Ble!Init
  /\ service = "log" \/ (atomic /\ prio = CHOOSE p \in Prios : TRUE)
  /\ service = "flash" \/ \A t \in Tasks : calls[t] = 1

Only(s) == service = s /\ UNCHANGED service

Next ==
  \/ Only("log") /\ Log!Next /\ UNCHANGED <<flashVars, uartVars, bleVars>>
  \/ Only("flash") /\ Flash!Next /\ UNCHANGED <<logVars, uartVars, bleVars>>
  \/ Only("uart") /\ Uart!Next /\ UNCHANGED <<logVars, flashVars, bleVars>>
  \/ Only("bluetooth") /\ Ble!Next /\ UNCHANGED <<logVars, flashVars, uartVars>>

Spec == Init /\ [][Next]_vars

FairSpec == Spec /\ Log!Fairness

-----------------------------------------------------------------------------
(* The properties, each explained in its module *)

\* log.c 38-68: a task and an interrupt send nothing but their own text.
TextIntact == Log!TextIntact

\* log.c 45-71: printing goes on unless a task of higher priority is in the way.
PrintsGoOn == Log!PrintsGoOn

\* hal_iot_flash.c 44-99: a write that succeeds has stored its data and kept
\* its surroundings, but for one byte.
WriteIsExact == Flash!WriteIsExact

\* hal_iot_flash.c 64-97: wherever a write is interrupted, only what it has
\* erased and not yet restored is lost.
OnlyUnrestoredIsLost == Flash!OnlyUnrestoredIsLost

\* hal_iot_uart.c 202-220: a read succeeds with a full buffer if and only if
\* the driver gave all its bytes at once.
FullUnlessFurther == Uart!FullUnlessFurther

\* bluetooth_device.c 20-57: the host is up only on an enabled controller,
\* unless it has refused to be disabled.
HostOnController == Ble!HostOnController
=============================================================================
