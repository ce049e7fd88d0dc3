# Verification of the Niobe U4 board support for OpenHarmony

The repository is the board support package of the Niobe U4 (an ESP32-U4WDH) for
OpenHarmony on the LiteOS-M kernel: the services that a vendor supplies under the
OpenHarmony interfaces (Wi-Fi, Bluetooth, log, OTA, flash, GPIO, UART, ...) and the
HDF platform drivers, all of them in C on top of ESP-IDF. This directory holds TLA+
models of that code, the TLC runs that check them and machine-checked proofs.

All paths below are relative to `src/niobeu4/liteos_m/`. `PROJECT.json` maps every
definition to the lines it models.

Contents: [1 inventory](#1-inventory) · [2 conventions](#2-conventions-of-the-models) ·
[3 modules](#3-modules-and-the-code) · [4 runs](#4-runs) · [5 fairness](#5-fairness) ·
[6 proofs](#6-proofs) · [7 findings](#7-where-the-code-and-its-documents-disagree) ·
[8 limits](#8-assumptions-and-what-is-not-modelled) · [9 plan](#9-plan).

To repeat a result: `tlc -config MCWifiMutex.cfg MCWifiMutex` for a run, `tlapm WifiMutexProof.tla` for a proof module.
The longest run, `wifi_device`, and the longest proof, `DriversProof`, take some minutes each.

## 1 Inventory

The system is one CPU. LiteOS-M schedules tasks preemptively by priority, with time
slices among equals; interrupts preempt tasks; the ESP event loop is a task that runs
the Wi-Fi callbacks. Kernel, ESP-IDF, the HDF core and securec are not in the
repository and are modelled from how the code uses them.

| Part | State | Operations | Interacts with |
|---|---|---|---|
| **Wi-Fi lock** `wifi_device.c` 99-117 | `muxHandle` | `WifiLock` (creates the mux on first use), `WifiUnlock` | every function below that takes it |
| **Wi-Fi life cycle** 353-479, 872-924 | `staStatus`/`apStatus` (one union), `netif`, `eventHandle[]`, `ip_ok` | `EnableWifi`, `DisableWifi`, `EnableHotspot`, `DisableHotspot`, `(Un)RegisterEspEvent`, the event handlers | lock, event loop, ESP-IDF |
| **Wi-Fi observers** 124-262 | `event[]` | `RegisterWifiEvent`, `UnRegisterWifiEvent`, five `SendOn...` walks | clients' callbacks, event loop, `Scan` |
| **Wi-Fi scanning** 270-276, 481-497, 613-670, 926-966 | `scan_ok` | `Scan`, `AdvanceScan`, `GetScanInfoList`, the SCAN_DONE handler | driver, event loop, life cycle (clears `scan_ok`) |
| **Wi-Fi networks** 499-564, 672-712 | `config[]`, `ip_ok` | `AddDeviceConfig`, `RemoveDevice`, `GetDeviceConfigs`, `ConnectTo` | lock, event loop |
| Wi-Fi queries 119-122, 722-758, 765-870 | - | status, linked info, stations, signal level, band, MAC | life cycle |
| `esp_wifi_wpa.c` | - | stubs | - |
| **Bluetooth** `bluetooth_device.c`, `bluetooth_service.c` | in ESP-IDF: controller, Bluedroid, GATT applications | `EnableBle`, `DisableBle`; GAP and GATT calls | ESP-IDF |
| **Log** `log.c` | `bufLock`, `buf[2]` | `s_vprintf` behind `printf`, `hal_trace_printf`, HiLog | UART FIFO, any task, interrupts |
| **OTA** `update_adapter.c` | `UpdateInfo` | init, deinit, read, write, restart, boot settings, metadata | partitions |
| **HAL flash** `hal_iot_flash.c` | the flash | `IoTFlashRead/Write/Erase` | flash driver |
| **HAL GPIO** `hal_iot_gpio.c` | `g_gpio` per pin: mask and trigger type | init, deinit, direction, levels, interrupts | the one ISR service, shared with HDF GPIO |
| **HAL UART** `hal_iot_uart.c` | `g_uart[]`: state, block modes, attributes | init, deinit, read, write, flow control | UART driver |
| **HAL I2C** `hal_iot_i2c.c` | `i2c_state`, baud rate per port | init, deinit, read, write | I2C driver |
| **HAL PWM** `hal_iot_pwm.c` | `g_pwm[]`: state and channel description | init, deinit, start, stop | one LEDC timer and pin for all ports |
| **HAL watchdog** `hal_iot_watchdog.c` | `g_watchdogStatus` | enable, disable, kick | task watchdog, the kicking task of startup |
| HAL low power, reset | - | one ESP-IDF call each | - |
| **HAL file** `hal_file.c` | in littlefs: descriptors and their positions | open, close, read, write, seek (three `lseek`s), stat (open, seek, close), delete | file system |
| **HDF SPI** `spi_esp32u4.c` | `openCnt`, `spi_handle`, settings | bind, init, release, open, close, config, transfer | SPI driver |
| **HDF UART** `uart_esp32u4.c` | line settings (`priv`), `num`, `block_time` | bind, init, release; open, close, read, write, mode, baud, attributes | UART driver |
| **HDF I2C** `i2c_esp32u4.c` | `device->priv`, controllers and resources, heap used by command links | transfer; bind, init, release | I2C core, I2C driver, heap |
| **HDF watchdog** `watchdog_esp32u4.c` | `timeout`, `g_watchdogStart`, `device->service` | bind, init, release; start, stop, feed, set/get timeout | RTC watchdog registers |
| **HDF GPIO** `gpio_esp32u4.c` | pin table, `lastTickCount` | direction, levels, interrupts, debouncing | ISR service |
| **HDF PWM** `pwm_esp32u4.c` | cached timer and channel configuration | bind, init, release, set config | LEDC |
| Kernel port `arch/` | task stacks, interrupt table | context switch, interrupt entry | hardware |
| Startup `target_startup.c` | - | boot, creation of the main task, kicking the watchdog | HAL watchdog |
| littlefs adapter, memory pool, syscalls, hcs files | partition or RAM block | one driver call each; data | - |

The hard behaviours, by kind (the full list, with lines, is under `hazards`):

- *Interleavings.* Tasks race for the creation of the Wi-Fi lock; the status of the device
  is tested before the lock is taken; the observer table is walked without the lock;
  `ConnectTo` reads an entry after releasing it; `bufLock` is tested and then set; the status of a HAL port or
  watchdog is tested, and stored, without a lock; a seek passes through the end of the file.
- *Ordering.* SCAN_DONE can be handled before the flag of its own scan is set; the watchdog
  is enabled before its time is programmed; a HAL I2C port is marked before its driver answers.
- *Partial failure.* Every ESP-IDF call can fail and most functions go on, return
  early without undoing, or forget the result. A driver that fails to load leaves pointers to what it freed.
- *Sharing.* One pin uninstalls the interrupt service of all; all pins share one tick count;
  two readers share one UART buffer; all PWM ports share one timer and one pin; line settings are stored and
  read field by field.
- *Crash.* Power can go between the erase and the restoration of the surroundings.
- *Numeric edges.* `openCnt` wraps, `timeout * ticks` overflows, ticks wrap, a read subtracts
  a running total, an end address is off by one.

What makes each component correct: the lock excludes and is recursive; status, radio, netif and handlers
agree, nothing leaks and every call returns; an observer that stays hears every event once; a scan flag
is true and is not for ever; entries are whole and the network that is joined is the one that was checked;
a printed text is its printer's; a written range holds its data and its surroundings are kept; a pin hears what it
registered for and nothing else; a handle never dangles; a read returns the bytes it took; a count tells
what was sent; a watchdog bites in time and not before; a timer runs as asked; the Bluetooth host runs only on its controller; a
line is set as asked; what a client can find of a driver is whole; a port's state tells whether it has a driver; a
descriptor stands where its results say.

## 2 Conventions of the models

- **One step per access to shared state or external call.** A function of the source is cut into
  actions where another task, an interrupt or a callback can come in between and matter. Where
  a lock of the HDF core or `WifiLock` makes a call indivisible, it is one action.
- **External code** (kernel, ESP-IDF, HDF, the heap, hardware) is a small nondeterministic
  model of what the code relies on: a call succeeds or fails as its results allow.
- **Data is abstract.** Credentials are a model value in two parts; a text is a number of
  pieces; a file is its size; flash bytes say where they came from; UART bytes are numbered as they arrive.
- **History variables** (`heard`, `left`, `fresh`, `cut`, `before`, `refused`, `further`, `asked`, `overlap`, ...) record what
  properties refer to. They are declared as such and guard no action.
- **Scenario variables** never change and are chosen by `Init`: `warm` (the lock exists before the
  tasks start), `role` (what a task calls), `disciplined` (clients register an observer once), `calm`
  (one scanner, no SCAN_DONE between a start and its mark), `removes`, `atomic` (no preemption
  between test and store of `bufLock`), `prio` (the priorities of the printing tasks). They let one run check what holds always and what
  holds only for clients that keep a rule, which is then written as the premise of the property.
- **Types.** Each module with several variables has its `TypeOK`; it is the first conjunct of the inductive invariant of its
  proof, and checked by a run for `WifiMutex`.
- **Assumptions.** A module that is run alone names the assumptions on its constants; one that is instantiated in a composition
  gathers them in `ConstantsOK`, which the composition assumes of all its instances.

## 3 Modules and the code

### Wi-Fi service

`RecLock` is the specification of a recursive lock: an owner and a depth.

`WifiMutex` is `WifiLock`/`WifiUnlock`. `LockTest`, `MuxCreate`, `StoreHandle` are the lazy creation;
`LoadHandle`, `MuxPend`, `UnlockLoad`, `MuxPost` the kernel mux with its recursion count. It shows what
the lock promises *exactly*: exclusion unless a second mux was created or a creation failed, a
recursion count that equals the nesting, and, if created beforehand,
an implementation of `RecLock`.

`WifiDevice` is the life cycle. `EnableCheck`, `DisableCheck` are the unlocked tests; the helpers
`UnregisterEspEvent` and `RegisterEspEvent` are cut at each ESP-IDF call, nested in the lock of
`DisableWifi`. It uses `RecLock`'s lock, which `WifiMutex` implements. The event loop runs a handler under a mutex
that unregistering also takes. `GotIp`, `EventHandler` and `CallbackReturns` are its steps.

`BoundedSet` is a set of at most so many members; `WifiEvent` is the observer table and its unlocked
walks. The compiler may read `event[i]` once or three times in `TestSlot`..`CallBack` (`Reads`): both are explored.
A NULL that is dereferenced is the state `fault`, in which the CPU stops.

`WifiScan` is `scan_ok`. A scanner stops, starts and marks; the driver completes; the event loop consumes
SCAN_DONE; a reader polls `MaxIndex` rounds; a session task clears the flag.

`NetTable` is a table where a network gets the least free id; `WifiConfig` is `config[]` with
`ConnectTo` reading ssid and key after its check. A half-written entry is visible to the unlocked reader.

### Services of hals/

`LogPrintf` is `s_vprintf` under the LiteOS-M scheduler (`Runs`): a task of the highest ready
priority runs, an interrupt runs to its end. The test of `bufLock` is a step whatever its outcome, and the yield after it
another (`TestLock`, `Yield`). `FlashWrite` is `IoTFlashWrite` as its six driver calls (save head,
save tail, erase, restore head, restore tail, write), with failure half way (`Fail`) and
`PowerLoss`; after either (`ended`) a call stays where it was until `Return`, so that a property can look at what is left. `GpioIsr` is
the interrupt functions of the HAL *and* of the HDF driver over the one ISR service. `HalUart` is `IoTUartRead`
as a loop of driver calls, with the remainder that shrinks by the running total.
`BleStack` is the two-sided life cycle of controller and host, where every call may fail and `BluedroidDisable`
ignores it. `HotaHal` is `UpdateInfo`.

`HalFile` has any tasks at any descriptors of one file; a seek is `SeekBegin`, `SeekMeasure` and `SeekBack` or `SeekSet`, a stat
opens a descriptor of its own. `HalI2c`, `HalPwm` and `TaskWatchdog` cut each function of their files between the unlocked
test, the store and each ESP-IDF call. Their properties say what survives: they name the overlaps (an init
with a deinit of one port; a start with an init or a deinit of its port; two tasks in one function of the watchdog) after
which the state is no longer true, or the pin no longer the right one.

### HDF drivers

`SpiDevice` is the life cycle and `openCnt`; `UartHost` the three calls of a read; `UartSettings` the entry of the UART
driver and the way of the settings from the hcs node and the clients to the line: two scales per
attribute, fields stored and read one by one, an answer nobody looks at; `I2cHost` the
command links of a transfer over a finite heap; `RtcWatchdog` the two register writes of a start against
a clock; `PwmHost` the cached frequency across bind, init and release; `GpioDebounce` the debouncing handler
with its shared, wrapping tick count. `I2cDriver` and `WatchdogDriver` are the entries of their drivers: which controllers are
allocated, freed and still named by a device, by HDF's table or by a client when a load fails or a driver is released.

### Compositions

`WifiDevice` and `WifiConfig` stand on `RecLock`'s lock instead of `WifiMutex`, which is justified by
the refinement. `GpioIsr` composes the two drivers that share the ISR service. `HalServices` (log,
flash, UART, Bluetooth) and `Drivers` (the thirteen others) put components without common state side by side, for every value of
their constants: the variable `service` or `driver` selects one, the others stay in their initial states; as they share nothing,
that is every behaviour of each. `MCHalServices` and `MCDrivers` give the small instances; the proofs are about the compositions.

## 4 Runs

Eight runs pass and four show a disagreement (section 7). Each property has a mutant in `PROJECT.json`: a
plausible bug for which TLC reports a violation in the same run.

| Run | Instance | Shows |
|---|---|---|
| `wifi_mutex` | 3 interchangeable tasks, 4 muxes, nesting 2, cold and warm start | exclusion unless split, count is nesting, refinement of `RecLock` |
| `wifi_device` | 2 tasks in 3 casts (a lone client; one enables, one disables; both do everything), one netif, one handler per base, one poll round | status matches radio whenever the lock is free; a disable is complete when it unlocks; nothing leaks with one enabling task; a lone client's active device has its netif; every call returns |
| `wifi_event` | 3 observers, 2 with the callback, 2 slots, 2 senders | a walk faults only if the observer it found at its last test is unregistered since; who stays registered hears it, and once if clients are disciplined; the table is a `BoundedSet` |
| `wifi_scan` | 2 scanners, 1 reader, 3 rounds, 2 pending events | a list is handed out once per scan; in calm behaviours SCANING is true and ends |
| `wifi_config` | 2 tasks, 2 networks, 2 entries | entries are whole; `ConnectTo` joins what it checked unless somebody removes; the table is a `NetTable` |
| `gpio_isr` | 2 HAL pins, 1 HDF pin | quiet after unregistration; a lost handler was lost to an uninstallation for another pin; a pin believed on delivers |
| `drivers` (13 instances, 1.3 million states, two minutes) | SPI: counter modulo 4, 6 opens. UART: 2 readers, 3 places, 5 bytes. UART settings: 2 tasks, a host with and one without node, a request out of range. I2C: 2 tasks, 10 blocks. I2C and watchdog entries: 3 and 2 devices, one without node, 3 controllers. Watchdog: 2 ticks/s, 8 values, 5 s. PWM: 4 periods. GPIO: 2 pins, 12 ticks, counter modulo 5. File: 2 tasks, 2 descriptors, 2 bytes. HAL I2C: 2 tasks, both ports. HAL PWM: 2 tasks, 2 ports, 3 frequencies. HAL watchdog: 2 tasks | no handle dangles; only a fault leaves the bus behind; a read returns what it took; a line is set as asked; a transfer tells what it sent and pays back its link; what the entries leave is whole; the watchdog bites just in time; the timer has the frequency asked for; a burst is heard once; a descriptor is where it was told; the states of HAL ports and watchdog are true; an output runs as asked |
| `hal_services` | Log: 2 tasks of one priority or two, 1 interrupt, 2 pieces. Flash: 3 sectors of 2 bytes, 2 calls, of any length and of one byte. UART: 2 readers, 5 bytes. Bluetooth: 3 tasks | a text is its printer's; printing goes on; a write is exact; a failure or a power loss costs only what was erased and not yet restored; a success is a full buffer unless the bytes came in parts; the host runs on its controller unless it refused a disable |

Why the bounds are enough:

- *Tasks.* Every race of the code is between a test and a later use by one other task; two tasks
  show it. The lock has three, so that a task waits while two others hold different muxes.
- *Muxes, slots, entries.* One more mux than tasks, so that a fourth creation would be seen; fewer slots than
  observers and as many entries as networks, so that "full" happens.
- *`MaxLive` = 1* is the heap of `WifiDevice`: there is room for one netif and for one handler of each base. A leak therefore shows as a
  lost pointer rather than as a growing number; the query run allows two.
- *Polling.* `PollLimit` and `MaxIndex` only need a round that fails and a last one.
- *Wrapping numbers* are given a modulus that the run passes: `openCnt` wraps at 4 with 6 opens, the watchdog's word is 8
  with products of 10, the tick counter turns twice.
- *Flash.* Sectors of two bytes have a first and a last byte; three of them allow a range with
  a partial first, a whole middle and a partial last sector. The first task writes any range; the second one byte (`Longest`),
  which is enough to share a sector with it, or not, and to see its restoration undone.
- *Files.* Two descriptors: one to seek in, and one that a stat or a writer uses meanwhile. The size passes the position
  and falls behind it.
- *Loads.* Two devices for one bus show a bus that is taken; the third has no node; three controllers allow a
  device to be loaded again.
- *UART.* The buffer and the largest read are of one size, smaller than the number of bytes, so a read can be served
  at once, in parts, from a wrapped count, or not at all.

`CHECK_DEADLOCK FALSE` is set in two passing runs where the system may really stop: in `wifi_event`
after a fault of the CPU, and in `hal_services`, where the number of flash calls and UART bytes
is a bound of the model. Everywhere else TLC also shows that some step is always possible.

## 5 Fairness

Fairness is stated for three properties only; all others are safety.

- `EveryCallReturns` (`WifiDevice`): strong fairness of each task's steps, weak fairness of the event
  loop. A step that takes the lock is disabled while another task holds it; LiteOS-M hands a released mutex to
  a waiting task and time slices run every ready task of a priority, so a task for which the lock becomes free again
  and again gets it. The property excludes callbacks that take the Wi-Fi lock (section 8).
- `ScaningEnds` (`WifiScan`): weak fairness of a scanner inside its call and of the driver's completion, strong fairness
  of the handler of SCAN_DONE, which has to wait while `calm` keeps it out between a start and its mark.
- `PrintsGoOn` (`LogPrintf`): strong fairness of each task's printing steps, weak fairness of the interrupt's. A step of
  `s_vprintf` needs nothing but the CPU, for a test of `bufLock` that finds it set is a step as well, after which the task
  yields. So the fairness says that a ready task of the highest ready priority gets the CPU in its turn (strong, because
  interrupts and woken tasks of higher priority take it away), and nothing of what it finds there. What
  it gives is less than "every print returns": nothing is handed over between the release (70) and the next store
  (50), so a given task may find the buffer taken at each of its tests and wait for ever. The property says that who has passed
  the test returns, and that while a task waits tasks pass the test again and again; both unless a ready task of higher priority
  that does not print, or waits itself, keeps one off the CPU (`KeptOff`), which `LOS_TaskDelay(0)` does not resolve.

Clients are never required to call anything.

## 6 Proofs

Every safety property of the passing runs is also a theorem, `Spec => []P`, for every value of the constants that the assumptions
allow: any number of tasks, pins, observers, entries, any sizes and moduli. Each comes from an inductive invariant
(`Init => Inv`, `Inv /\ [Next]_vars => Inv'`, `Inv => P`), proved with one step per action and one below it per conjunct
the action can disturb. The assumptions are named in the module that declares the constants, and TLC evaluates them in the runs.

### WifiMutexProof

| Theorem | Statement |
|---|---|
| `TypeCorrect` | the variables keep their types |
| `ExclusionUnlessSplitHolds` | two tasks are inside together only after a second creation or a failed one |
| `MutualExclusionHolds` | a lock created before the tasks start excludes them |
| `CountIsNestingHolds` | with a single mux its recursion count is the nesting of its owner |
| `Refinement` | a warm lock implements `RecLock!Spec` |

Assumed: the owner of a free mux is no task; `MuxLimit` and `MaxNest` are positive. `IInv` strengthens the types with

- `Balanced`: a mux is free exactly when its count is 0, and a task about to post is inside;
- `HandleSeen`: a task past the test holds a handle, `muxHandle` is never cleared, and an owned mux implies a stored handle;
- `HandlesExist`: every handle names a mux that was created;
- `SingleCounts`: while one mux exists, mux 0 accounts for all nesting;
- `WarmStays`: the lock of a warm start remains the only one.

The key fact is lemma `HandleNames`: while one mux exists, whoever pends or posts does so on mux 0, since the handle it
holds is non-zero and below `created + MUX_HANDLE_OFFSET`. Then `MuxPend` on an owned mux is possible for its owner
only, which keeps `SingleCounts`, and two tasks inside would both own mux 0. The refinement maps owner and depth to those of mux 0
and uses `WarmStays` for the steps that would create another.

### WifiDeviceProof

| Theorem | Statement |
|---|---|
| `TypeCorrect` | the types; nothing is released more often than created |
| `OneInsideAlways` | one task at a time is at a label between `WifiLock` and `WifiUnlock` |
| `LockIsReturned` | whatever fails in it, a call returns with the lock released |
| `StatusMatchesRadioHolds` | with the lock free, `staStatus` and the driver agree |
| `DisableIsCompleteHolds` | a `DisableWifi` about to unlock has taken everything down |
| `NothingLeaksHolds` | with one enabling task nothing is out of reach |
| `ActiveHasNetifHolds` | a lone client's active device has the netif of its mode |

Assumed: `NoTask` is no task; a cast gives roles to tasks; `MaxLive` is positive, `PollLimit` a natural. The argument rests on
`LockInv`: label and call of a task determine how deep it is in the lock (`DepthOf`, 2 in the nested `UnregisterEspEvent`), so
two tasks are never inside together and what one has done since it took the lock still stands. `StatusInv` names the labels at
which status and driver are allowed to differ (`HalfWay`); `DisableInv` says, label by label, how much a `DisableWifi` has taken
down; `LeakInv` and `ClientInv` carry the premises "one task enables" and "one client", under which what a task has seen before
it took the lock is still so inside. `PointsAtLive` keeps the counters of live objects from going below zero.

### WifiEventProof and WifiConfigProof

| Theorem | Statement |
|---|---|
| `TypeCorrect` (both) | the walks and calls stay inside their tables |
| `FaultOnlyByUnregisterHolds` | a walk faults only if the very observer it found at its last test of a slot was unregistered since |
| `StayedHeardOnceHolds` | who stays for a round is called in it, and once if clients are disciplined |
| `Refinement` | disciplined clients' table implements `BoundedSet!Spec` |
| `EntriesWholeHolds` | with the lock free, a valid entry is one network's |
| `LockIsReturned` | no call returns, and `ConnectTo` does not go on, with the lock held |
| `JoinsWhatItCheckedHolds` | without removals, `ConnectTo` joins the network whose entry it tested |
| `Refinement` | `config[]` implements `NetTable!Spec` |

Assumed: the listening observers are observers, `NULL` and `NoNet` are no values of theirs, `NoTask` is no task, both tables have
an entry, `PollLimit` is a natural. In `WifiEvent`, registering only fills empty slots: what a sender has read is still there
unless that observer was unregistered (`ReadInv`), and an observer that stays has been heard or is in a slot still `Ahead` of the sender
(`HeardInv`). Once needs that the table has no duplicates, so that a slot that was passed is the only one (`OnceInv`); that is
also why the set of its observers grows by one, which the refinement needs with its bound. In `WifiConfig`, the half written entry is
the owner's (`WriteInv`, `WholeInv`), and `AddDeviceConfig` chooses one that is not valid, so it is never the entry another
task's `ConnectTo` has tested (`JoinInv`). The refinement maps an entry to its ssid if it is valid; lemma `LeastFreeIsAdd` says
that filling the first free entry gives a network the least free id, `WriteInv` carries "all below are valid" to the step that
makes the entry valid.

### WifiScanProof and GpioIsrProof

| Theorem | Statement |
|---|---|
| `TypeCorrect` (both) | the types; no reader polls longer than `MAX_INDEX` |
| `ListIsFreshHolds` | one reader is handed a scan at most once |
| `ScaningIsTrueHolds` | in calm behaviours, SCANING means a scan runs or its end is queued |
| `QuietAfterUnregisterHolds` | no edge reaches the handler of an unregistered pin |
| `LostOnlyByUninstallHolds` | a handler is lost only by the uninstallation for another pin |
| `BelievedIsDeliveredHolds` | a pin the HAL holds for on delivers, unless it was cut off |

Assumed: no task is scanner and reader, `MAX_INDEX` and the queue are positive, one scanner is the calm one; no pin belongs to both
drivers. `FreshInv`: `scan_ok` says "ended" only while the list of that scan was not handed out, and that stays true between a lone
reader's test and its taking. `CalmInv`: the mark of the one scanner meets its scan running or its end queued, since SCAN_DONE is
not consumed in between. For the pins, a handler in the table was asked for, was forgotten by `IoTGpioDeinit` while
masked, or is about to be removed by a task that has already disabled the interrupt (`QuietInv`); the table is empty without the
service (`ServiceInv`); whoever has asked and has no handler was cut off (`LostInv`, `CutInv`).

### DriversProof

The instances share no variables (`EachSteps`: a step of the composition is a step of each or leaves it alone), so each has an
invariant of its own. Assumed: `DriversAssumption`, the `ConstantsOK` of every instance.

| Theorem | Invariant and why it holds |
|---|---|
| `TypesCorrect` | the types of the eight instances whose `TypeOK` holds as it stands; the others' are in their invariants |
| `HandleNeverDanglesHolds`, `StuckOnlyByFaultHolds` | `SpiInv`: in every state of the controller a handle is that of a device on the bus, and a controller that is not ready has no opens to pay back |
| `ReturnsWhatItTookHolds` | `UartInv`: each place of a reader's buffer holds the byte taken for it, in the order of arrival; the first byte is taken alone |
| `LineIsAskedHolds` | `LineInv`: a set whose request still has a meaning is alone and has stored what it was asked, an open that knows what it brings finds it in the fields it has read and those it will read |
| `SentAndPaidBackHolds` | `I2cInv`: after every message the count tells what was on the bus; `HeapInv`: what is not free is held by a link, whose commands are counted as a finite set of pairs |
| `ControllersAreWholeHolds` | `I2cEntryInv`, `WdtEntryInv`: what a device or the table names was allocated, and for that device |
| `BitesJustInTimeHolds` | `WdtInv`: the counter is the time since the last feeding and the register the promised time modulo its word |
| `FreqIsAskedHolds` | `PwmInv`: what is cached is what the timer has, unless it was never accepted |
| `BurstIsHeardOnceHolds` | `GpioInv`: the shared tick count is that of the last edge of any pin, modulo the wrap |
| `PositionIsToldHolds` | `FileInv`: while its owner alone works on it, a descriptor is where it was told, or was when the seek began that will bring it back |
| `StateIsTrueHolds` | `I2cPortInv`: unless init and deinit crossed, a call that has tested a port finds the mark it tested |
| `OutputIsAskedHolds` | `LedcInv`: a description is empty or its port's, and an initialised port has its own or an init is about to fill it (`LedcDescribed`), so a start that no init or deinit overlaps finds its own (`LedcCalm`); the timer has a frequency asked for |
| `StatusIsTrueHolds` | `TwdtInv`: unless crowded, one task is in either function, and each of its labels says what the watchdog is |

### HalServicesProof

Assumed: `ServicesAssumption`, the `ConstantsOK` of log, flash and UART: the interrupt is no task, a sector has at least two
bytes, the UART buffer holds the largest read, the other sizes, lengths, priorities and budgets are naturals.

| Theorem | Invariant and why it holds |
|---|---|
| `TextIntactHolds` | `LogInv`: buffer 1 is the interrupt's alone; if test and store are one step, one task is past the test (`Passed`) and the guard is set until its end |
| `WriteIsExactHolds`, `OnlyUnrestoredIsLostHolds` | `FlashInv`: `Intact`, `Cleared`, `Written` say, for each label, which addresses a call has left, erased and written; `Accounted` what a call that has failed half way, or was cut off, may leave at each; calls that touch one address know it (`FlashApart`), so others do not disturb these; the backup holds what was there before |
| `FullUnlessFurtherHolds` | `UartInv`: the remainder is right until the driver is called again after giving bytes, and too small from then on |
| `HostOnControllerHolds` | `BleInv`: the controller is initialised once, so one task at most ever enables; nobody disables until it has brought up the host; then the controller is taken down only after the host, or a refusal |

Only model-checked: the liveness properties `EveryCallReturns`, `ScaningEnds` and `PrintsGoOn`, whose proofs need ENABLED, which
the provers do not reason about; and the four disagreements, which are counterexamples. `HotaHal` has no property but the
one that is refuted. No module uses a RECURSIVE operator.

## 7 Where the code and its documents disagree

- `wifi_device_query`: `IsHotspotActive` reads the union of both modes' status and answers that a hotspot is active
  when the station is (757; README_zh.md 56 offers a status query of each mode).
- `gpio_set_irq`: after any `IoTGpioUnregisterIsrFunc` uninstalled the service, `gpio_isr_handler_add` fails with a code
  the HDF driver does not test for, and `Esp32u4GpioSetIrq` succeeds with no handler (156 says "enable the interrupt").
- `watchdog_unit`: the timeout counts seconds; line 45 says ms (the hcs file says s).
- `hota_deinit`: `HotaHalInit` clears the flag it has just set, so `HotaHalDeInit` always fails (52-57 say it succeeds).

## 8 Assumptions and what is not modelled

Assumptions the properties depend on, each a rule a client must keep:

- No callback of an observer takes `WifiLock`. Unregistering handlers waits for the event loop with the lock held, so such
  a callback would deadlock with `DisableWifi`.
- `ListIsFresh` holds for one reader; two readers can both pass the test at 662.
- `ScaningIsTrue`, `ScaningEnds` hold if SCAN_DONE does not come between `esp_wifi_scan_start` and the marking at 495; if it
  does, SCANING stays until the next scan ends.
- `NothingLeaks` holds with one enabling task, `ActiveHasNetif` with one client. Both fail otherwise.
- That an observer hears an event once, and the set of observers, hold for clients that register an observer once.
- `TextIntact` holds among tasks if no preemption comes between the test and the store of `bufLock`.
- `PrintsGoOn` promises no task that its own text is printed, and nothing to a task that one of higher priority keeps off the CPU.
- `WriteIsExact` and `OnlyUnrestoredIsLost` hold for calls that share no sector; the first but for the one byte after the range,
  which may stay erased. The second says how much a failure or a power loss can cost, not that it costs nothing.
- `HostOnController` excepts a host that refused a disable: `DisableBle` ignores the refusal and takes down the controller under it.
- Nobody closes a UART while a reader sleeps in its driver; a GPIO pin has one client task; the HDF core serialises
  the methods of a controller.
- `FreqIsAsked` excepts a cache that the timer never accepted: one left uninitialised by the driver or stored although
  programming failed.
- `BurstIsHeardOnce` excepts bursts hidden by the shared tick count.
- HDF calls the entries of one driver one after the other, initialises a device once between two releases, and releases
  a UART host while no call of it is under way. `LineIsAsked` forgets what was asked when calls that store and read the
  settings overlap, and after a request that was refused half stored, until the next request. `ControllersAreWhole` ends for
  a controller with its release: afterwards pointers to freed memory stay behind, and a second release uses one.
- `PositionIsTold` is about a descriptor that one task uses: a shared one is seen at the end of the file in the middle of a seek. A
  seek to before the beginning fails and does leave the position at the end.
- `StateIsTrue` holds until an init and a deinit of one port overlap, and except for a port whose init failed; `StatusIsTrue` until
  two tasks are in the same function. Both fail otherwise.
- `OutputIsAsked` promises the output pin until a start is overlapped by a deinit or an init of its port, wherever in the start
  that is; then channel 0 may start on pin 0. The frequency, and the pins of the other channels, are promised always.
- `FullUnlessFurther` says when a HAL UART read is right: its bytes come from one call of the driver. Port numbers are valid: the HAL
  tests `id > UART_NUM_MAX` (hal_iot_uart.c 147, 189, 225, 247, 261), which lets `UART_NUM_MAX` through to read behind `g_uart[]`.
- `ReturnsWhatItTook` is about reads of a byte or more. A read of size 0 of the HDF UART takes a byte all the same (uart_esp32u4.c
  344) and then asks for `size - 1`, which is 2^32 - 1 (352).

Left out inside the modelled files: the contents of scan lists and payloads of callbacks; queries that copy
what ESP-IDF returns; the hotspot configuration, which is copied as one structure under the lock; direction and level of pins,
and the table of pins that the GPIO driver fills once before any client; sending on UARTs, flow control and pins of the
lines; the duty of the HDF PWM, which the driver caches and gives to no call, and of the HAL PWM, where
`(2 >> bits) - 1` is -1 at every resolution that a start accepts, so that all duties come out nearly the same; deleting files; OTA constants.

Not modelled: WPA stubs, low power, reset, memory pool, system calls, littlefs callbacks (no state, one call each);
the kernel port (below the level of the models, it provides their atomicity); hcs data (its values are the constants);
GAP and GATT calls (one call of the stack each, no state; the callbacks translate its events); startup (one task, one sequence).

## 9 Plan

Done, in this order of importance: the Wi-Fi lock with its proofs, the life cycle, observers, scanning, networks; log and flash;
the shared interrupt service; the HDF controllers; OTA; HAL UART, Bluetooth, PWM, debouncing; the entries of the UART, I2C and
watchdog drivers and the line settings; HAL file, I2C, PWM and watchdog.

Then the proofs: every safety property of the passing runs, for every value of the constants (section 6).

Next:

1. What a proof rests on and no run looks at: the inductive invariants of the larger modules as invariants of small runs, and the
   lemmas that several proofs repeat (types of EXCEPT, counting of links) stated once.
2. Action properties from the same invariants, checked by TLC first: who may change `staStatus`, an entry of `config[]`, a slot of `event[]`, and from where.
