------------------------------ MODULE Drivers ------------------------------
(***************************************************************************)
(* The drivers that have no state in common: the HDF controllers, with the *)
(* entries that load them, and the HAL's file, I2C, PWM and watchdog.  A   *)
(* behaviour exercises one of them and leaves the others in their initial  *)
(* states: as they share nothing, that is every behaviour of each.         *)
(***************************************************************************)
EXTENDS Integers, Sequences

CONSTANTS
  Tasks,                                              \* of every driver
  Speeds, CountMod, MaxOpens,                         \* SpiDevice
  Capacity, MaxSize, MaxBytes,                        \* UartHost
  Openers, Hosts, UartPorts, HostNode, Bauds,
  Settings,                                           \* UartSettings
  Transfers, Heap,                                    \* I2cHost
  Cntlrs,                                             \* both entries
  I2cDevices, Buses, NoBus, BusNode,                  \* I2cDriver
  Ticks, WdtWord, MaxSeconds, MaxElapsed,             \* RtcWatchdog
  WdtDevices, Matched,                                \* WatchdogDriver
  PERIOD_NUM, Periods,                                \* PwmHost
  Pins, SHAKE_COUNT, TickWord, MaxTime,               \* GpioDebounce
  Seekers, Fds, Offsets, MaxLen, MaxFileSize,         \* HalFile
  MaxTransfer,                                        \* HalI2c
  LedcPorts, CLK, RES_MIN, RES_MAX, Freqs             \* HalPwm

VARIABLES
  driver,                                                  \* the one exercised
  cntlr, openCnt, handle, speed, bus, attached, busSpeed, opens, faulted,
  wrapped,                                                 \* SpiDevice
  installed, head, tail, block_time, uart_pc, size, data, rcv_bytes,
  waits,                                                   \* UartHost
  served, num, priv, line, line_installed, line_call, line_asked,
  line_wanted, reached,                                    \* UartSettings
  free, msgs, i2c_count, link, ret, sent, failed,          \* I2cHost
  i2c_priv, i2c_cntlr, table, setup, tried, released,
  misused,                                                 \* I2cDriver
  timeout, g_watchdogStart, starting, enabled, cfg1, wdt_count, bitten,
  elapsed, promised, wanted,                               \* RtcWatchdog
  stage, wdt_service, wdt_cntlr, published, wdt_released,
  wdt_misused,                                             \* WatchdogDriver
  pwm_service, method, freq_hz, timer, asked,
  unprogrammed,                                            \* PwmHost
  now, lastTickCount, edge, reports, hidden,               \* GpioDebounce
  file_size, fds, file_call,                               \* HalFile
  i2c_state, port_installed, port_pc, port, left, overlap,
  port_failed,                                             \* HalI2c
  pwm_state, pwm_attr, ledc_timer, pin, ledc_pc, ledc_port, freq, ledc_asked,
  crossed,                                                 \* HalPwm
  configured, g_watchdogStatus, inited, watched, twdt_pc,
  crowded                                                  \* TaskWatchdog

spiVars == <<cntlr, openCnt, handle, speed, bus, attached, busSpeed, opens,
             faulted, wrapped>>
uartVars == <<installed, head, tail, block_time, uart_pc, size, data,
              rcv_bytes, waits>>
lineVars == <<served, num, priv, line, line_installed, line_call, line_asked,
              line_wanted, reached>>
i2cVars == <<free, msgs, i2c_count, link, ret, sent, failed>>
i2cEntryVars == <<i2c_priv, i2c_cntlr, table, setup, tried, released, misused>>
wdtVars == <<timeout, g_watchdogStart, starting, enabled, cfg1, wdt_count,
             bitten, elapsed, promised, wanted>>
wdtEntryVars == <<stage, wdt_service, wdt_cntlr, published, wdt_released,
                  wdt_misused>>
pwmVars == <<pwm_service, method, freq_hz, timer, asked, unprogrammed>>
gpioVars == <<now, lastTickCount, edge, reports, hidden>>
fileVars == <<file_size, fds, file_call>>
portVars == <<i2c_state, port_installed, port_pc, port, left, overlap,
              port_failed>>
ledcVars == <<pwm_state, pwm_attr, ledc_timer, pin, ledc_pc, ledc_port, freq,
              ledc_asked, crossed>>
twdtVars == <<configured, g_watchdogStatus, inited, watched, twdt_pc, crowded>>
vars == <<driver, spiVars, uartVars, lineVars, i2cVars, i2cEntryVars, wdtVars,
          wdtEntryVars, pwmVars, gpioVars, fileVars, portVars, ledcVars,
          twdtVars>>

Spi == INSTANCE SpiDevice

Uart == INSTANCE UartHost WITH pc <- uart_pc, Readers <- Tasks

Line == INSTANCE UartSettings WITH
          installed <- line_installed, call <- line_call, asked <- line_asked,
          wanted <- line_wanted, Ports <- UartPorts, Node <- HostNode,
          Requests <- Settings

I2c == INSTANCE I2cHost WITH count <- i2c_count, Requests <- Transfers

I2cEntry == INSTANCE I2cDriver WITH
              priv <- i2c_priv, cntlr <- i2c_cntlr, Devices <- I2cDevices,
              Node <- BusNode

Wdt == INSTANCE RtcWatchdog WITH count <- wdt_count, Word <- WdtWord

WdtEntry == INSTANCE WatchdogDriver WITH
              service <- wdt_service, cntlr <- wdt_cntlr,
              released <- wdt_released, misused <- wdt_misused,
              Devices <- WdtDevices

Pwm == INSTANCE PwmHost WITH service <- pwm_service

Gpio == INSTANCE GpioDebounce WITH Word <- TickWord

File == INSTANCE HalFile WITH
          size <- file_size, call <- file_call, MaxSize <- MaxFileSize

I2cPort == INSTANCE HalI2c WITH
             installed <- port_installed, pc <- port_pc, failed <- port_failed,
             MaxLen <- MaxTransfer

Ledc == INSTANCE HalPwm WITH
          timer <- ledc_timer, pc <- ledc_pc, port <- ledc_port,
          asked <- ledc_asked, Ports <- LedcPorts

Twdt == INSTANCE TaskWatchdog WITH pc <- twdt_pc

ASSUME DriversAssumption ==
  /\ Spi!ConstantsOK /\ Uart!ConstantsOK /\ Line!ConstantsOK
  /\ I2c!ConstantsOK /\ I2cEntry!ConstantsOK /\ Wdt!ConstantsOK
  /\ WdtEntry!ConstantsOK /\ Pwm!ConstantsOK /\ Gpio!ConstantsOK
  /\ File!ConstantsOK /\ I2cPort!ConstantsOK /\ Ledc!ConstantsOK

\* What is open in the initial states of an instance is fixed while it is not
\* exercised.
Init ==
  /\ driver \in {"spi", "uart", "line", "i2c", "i2c entry", "watchdog",
                 "watchdog entry", "pwm", "gpio", "file", "i2c port", "ledc",
                 "task watchdog"}
  /\ Spi!Init /\ Uart!Init /\ Line!Init /\ I2c!Init /\ I2cEntry!Init
  /\ Wdt!Init /\ WdtEntry!Init /\ Pwm!Init /\ Gpio!Init
  /\ File!Init /\ I2cPort!Init /\ Ledc!Init /\ Twdt!Init
  /\ driver = "watchdog" \/ timeout = 1
  /\ driver = "task watchdog" \/ configured

\* d is exercised, and every other instance stays as it is.
Idle(d, v) == IF driver = d THEN TRUE ELSE UNCHANGED v

Only(d) ==
  /\ driver = d /\ UNCHANGED driver
  /\ Idle("spi", spiVars) /\ Idle("uart", uartVars) /\ Idle("line", lineVars)
  /\ Idle("i2c", i2cVars) /\ Idle("i2c entry", i2cEntryVars)
  /\ Idle("watchdog", wdtVars) /\ Idle("watchdog entry", wdtEntryVars)
  /\ Idle("pwm", pwmVars) /\ Idle("gpio", gpioVars) /\ Idle("file", fileVars)
  /\ Idle("i2c port", portVars) /\ Idle("ledc", ledcVars)
  /\ Idle("task watchdog", twdtVars)

Next ==
  \/ Only("spi") /\ Spi!Next
  \/ Only("uart") /\ Uart!Next
  \/ Only("line") /\ Line!Next
  \/ Only("i2c") /\ I2c!Next
  \/ Only("i2c entry") /\ I2cEntry!Next
  \/ Only("watchdog") /\ Wdt!Next
  \/ Only("watchdog entry") /\ WdtEntry!Next
  \/ Only("pwm") /\ Pwm!Next
  \/ Only("gpio") /\ Gpio!Next
  \/ Only("file") /\ File!Next
  \/ Only("i2c port") /\ I2cPort!Next
  \/ Only("ledc") /\ Ledc!Next
  \/ Only("task watchdog") /\ Twdt!Next

Spec == Init /\ [][Next]_vars

-----------------------------------------------------------------------------
(* The properties, each explained in its module *)

\* spi_esp32u4.c 239-330: spi_handle is NULL or names a device on the bus.
HandleNeverDangles == Spi!HandleNeverDangles

\* spi_esp32u4.c 211-265: only a fault or a wrap leaves the bus behind.
StuckOnlyByFault == Spi!StuckOnlyByFault

\* uart_esp32u4.c 330-360: a read returns just the bytes it took, in order.
ReturnsWhatItTook == Uart!ReturnsWhatItTook

\* uart_esp32u4.c 261-306, 373-443: hosts report, and lines have, the settings
\* that were asked for last, unless calls overlapped or a request was refused.
LineIsAsked == Line!LineIsAsked

\* i2c_esp32u4.c 90-165, 233-242: the count returned tells what was on the
\* bus, and the heap gets back what a transfer takes.
SentAndPaidBack == I2c!SentAndPaidBack

\* i2c_esp32u4.c 168-304, watchdog_esp32u4.c 85-216: however loading a driver
\* fails, clients find whole controllers, and use none that was freed, until
\* HDF releases it.
ControllersAreWhole == I2cEntry!BusIsServed /\ WdtEntry!FoundIsWhole

\* watchdog_esp32u4.c 240-275: a client that feeds in time is not reset, one
\* that hangs is.
BitesJustInTime == Wdt!BitesJustInTime

\* pwm_esp32u4.c 279-316: the timer runs at the frequency asked for last.
FreqIsAsked == Pwm!FreqIsAsked

\* gpio_esp32u4.c 75, 110-120: a burst of edges is reported just once, unless
\* another pin hides it.
BurstIsHeardOnce == Gpio!BurstIsHeardOnce

\* hal_file.c 86-175: a file that its opener alone uses is where it was told.
PositionIsTold == File!PositionIsTold

\* hal_iot_i2c.c 184-227: a port that says so has a driver, unless its init
\* failed or overlapped a deinit.
StateIsTrue == I2cPort!StateIsTrue

\* hal_iot_pwm.c 56-175: what runs has a frequency that was asked for and, until
\* an init or a deinit overlaps a start of its port, the output pin.
OutputIsAsked == Ledc!OutputIsAsked

\* hal_iot_watchdog.c 37-87: the status tells whether the idle task is watched,
\* unless a function was executed twice at once.
StatusIsTrue == Twdt!StatusIsTrue
=============================================================================
