------------------------------- MODULE GpioIsr -------------------------------
(***************************************************************************)
(* Interrupts of GPIO pins.  The HAL (hal_iot_gpio.c) and the HDF driver   *)
(* (gpio_esp32u4.c) put their handlers into one ISR service of ESP-IDF:    *)
(* the HAL installs it at every registration and uninstalls it at every    *)
(* unregistration, the HDF driver installs it once, when it is loaded.     *)
(*                                                                         *)
(* One task uses each pin; the tasks preempt each other between two calls  *)
(* of ESP-IDF.  The trigger types are reduced to "on" and "disable".       *)
(* Directions and levels, which no interrupt depends on, are left out.     *)
(***************************************************************************)
EXTENDS Naturals, FiniteSets

CONSTANTS HalPins,   \* pins used through IoTGpio...
          HdfPins    \* pins used through the HDF driver

ASSUME PinsAssumption == HalPins \cap HdfPins = {}

Pins == HalPins \cup HdfPins

VARIABLES
  \* g_gpioMap of the HAL
  gpio_state,     \* the pin is GPIO_PIN_INIT
  pin_bit_mask,   \* gpio_attr.pin_bit_mask is set: gpio_config has a pin
  intr_type,      \* gpio_attr.intr_type
  \* the GPIO driver of ESP-IDF
  service,        \* the ISR service is installed
  handler,        \* the pin has a handler in its table
  hw_type,        \* trigger type in the pin's register
  hw_enabled,     \* the pin's interrupt is enabled
  pc,             \* per pin of the HAL: the call of its task
  \* history
  asked,          \* the last successful call asks for interrupts
  forgotten,      \* a deinit left the handler of a masked pin behind
  cut             \* the service was uninstalled for another pin since
                  \* the pin was last asked for with the service installed

halVars == <<gpio_state, pin_bit_mask, intr_type>>
idfVars == <<service, handler, hw_type, hw_enabled>>
history == <<asked, forgotten, cut>>
vars == <<halVars, idfVars, pc, history>>

Type == {"disable", "on"}
Labels == {"idle", "install", "add", "remove", "uninstall", "deinit remove",
           "deinit uninstall"}

TypeOK ==
  /\ gpio_state \in [HalPins -> BOOLEAN] /\ pin_bit_mask \in [HalPins -> BOOLEAN]
  /\ intr_type \in [HalPins -> Type]
  /\ service \in BOOLEAN
  /\ handler \in [Pins -> BOOLEAN]
  /\ hw_type \in [Pins -> Type] /\ hw_enabled \in [Pins -> BOOLEAN]
  /\ pc \in [HalPins -> Labels]
  /\ asked \in [Pins -> BOOLEAN] /\ forgotten \in [Pins -> BOOLEAN]
  /\ cut \in [Pins -> BOOLEAN]

\* AttachGpioDevice has installed the service.
Init ==
  /\ gpio_state = [p \in HalPins |-> FALSE]
  /\ pin_bit_mask = [p \in HalPins |-> FALSE]
  /\ intr_type = [p \in HalPins |-> "disable"]
  /\ service = TRUE
  /\ handler = [p \in Pins |-> FALSE]
  /\ hw_type = [p \in Pins |-> "disable"]
  /\ hw_enabled = [p \in Pins |-> FALSE]
  /\ pc = [p \in HalPins |-> "idle"]
  /\ asked = [p \in Pins |-> FALSE]
  /\ forgotten = [p \in Pins |-> FALSE]
  /\ cut = [p \in Pins |-> FALSE]

-----------------------------------------------------------------------------
(* The calls of ESP-IDF *)

\* gpio_config, which refuses a configuration without pin.
Config(p, bits, type) ==
  IF bits
    THEN /\ hw_type' = [hw_type EXCEPT ![p] = type]
         /\ hw_enabled' = [hw_enabled EXCEPT ![p] = type # "disable"]
    ELSE UNCHANGED <<hw_type, hw_enabled>>

\* gpio_isr_handler_add also enables the interrupt.
HandlerAdd(p) ==
  IF service
    THEN /\ handler' = [handler EXCEPT ![p] = TRUE]
         /\ hw_enabled' = [hw_enabled EXCEPT ![p] = TRUE]
    ELSE UNCHANGED <<handler, hw_enabled>>

\* gpio_isr_handler_remove also disables it.
HandlerRemove(p) ==
  IF service
    THEN /\ handler' = [handler EXCEPT ![p] = FALSE]
         /\ hw_enabled' = [hw_enabled EXCEPT ![p] = FALSE]
    ELSE UNCHANGED <<handler, hw_enabled>>

\* gpio_uninstall_isr_service frees the table with the handlers of all pins.
UninstallService(p) ==
  /\ service' = FALSE
  /\ handler' = [q \in Pins |-> FALSE]
  /\ cut' = [q \in Pins |-> cut[q] \/ q # p]

-----------------------------------------------------------------------------
(* The HAL *)

Idle(p) == pc[p] = "idle"
GoTo(p, label) == pc' = [pc EXCEPT ![p] = label]

IoTGpioInit(p) ==
  /\ Idle(p)
  /\ IF gpio_state[p]
       THEN UNCHANGED <<halVars, hw_type, hw_enabled>>
       ELSE /\ gpio_state' = [gpio_state EXCEPT ![p] = TRUE]
            /\ pin_bit_mask' = [pin_bit_mask EXCEPT ![p] = TRUE]
            /\ intr_type' = [intr_type EXCEPT ![p] = "disable"]
            /\ Config(p, TRUE, "disable")
  /\ UNCHANGED <<service, handler, pc, history>>

\* A pin that is not initialised can be registered too.
RegisterTypes(p) ==
  /\ Idle(p)
  /\ IF intr_type[p] # "disable"
       THEN UNCHANGED <<intr_type, hw_type, pc>>
       ELSE /\ intr_type' = [intr_type EXCEPT ![p] = "on"]
            /\ hw_type' = [hw_type EXCEPT ![p] = "on"]
            /\ GoTo(p, "install")
  /\ UNCHANGED <<gpio_state, pin_bit_mask, service, handler, hw_enabled,
                 history>>

\* An installed service stays; what the call returns is not looked at.
RegisterInstall(p) ==
  /\ pc[p] = "install" /\ service' = TRUE /\ GoTo(p, "add")
  /\ UNCHANGED <<halVars, handler, hw_type, hw_enabled, history>>

\* Mutant of RegisterAdd: the result of gpio_isr_handler_add is not looked at.
RegisterAddUntested(p) ==
  /\ pc[p] = "add"
  /\ HandlerAdd(p)
  /\ asked' = [asked EXCEPT ![p] = TRUE]
  /\ cut' = [cut EXCEPT ![p] = FALSE]
  /\ GoTo(p, "idle")
  /\ UNCHANGED <<halVars, service, hw_type, forgotten>>

RegisterAdd(p) ==
  /\ pc[p] = "add"
  /\ HandlerAdd(p)
  /\ IF service
       THEN /\ asked' = [asked EXCEPT ![p] = TRUE]
            /\ cut' = [cut EXCEPT ![p] = FALSE]
            /\ forgotten' = [forgotten EXCEPT ![p] = FALSE]
       ELSE UNCHANGED history
  /\ GoTo(p, "idle")
  /\ UNCHANGED <<halVars, service, hw_type>>

IoTGpioRegisterIsrFunc(p) ==
  RegisterTypes(p) \/ RegisterInstall(p) \/ RegisterAdd(p)

UnregisterDisable(p) ==
  /\ Idle(p)
  /\ IF intr_type[p] = "disable"
       THEN UNCHANGED <<intr_type, hw_enabled, pc, asked>>
       ELSE /\ intr_type' = [intr_type EXCEPT ![p] = "disable"]
            /\ hw_enabled' = [hw_enabled EXCEPT ![p] = FALSE]
            /\ asked' = [asked EXCEPT ![p] = FALSE]
            /\ GoTo(p, "remove")
  /\ UNCHANGED <<gpio_state, pin_bit_mask, service, handler, hw_type,
                 forgotten, cut>>

Remove(p) ==
  /\ pc[p] \in {"remove", "deinit remove"}
  /\ HandlerRemove(p)
  /\ GoTo(p, IF pc[p] = "remove" THEN "uninstall" ELSE "deinit uninstall")
  /\ UNCHANGED <<halVars, service, hw_type, history>>

\* Whoever else has a handler in the table; a deinit then resets intr_type
\* and returns, with the rest of gpio_attr as it was.
Uninstall(p) ==
  /\ pc[p] \in {"uninstall", "deinit uninstall"}
  /\ UninstallService(p) /\ GoTo(p, "idle")
  /\ intr_type' = [intr_type EXCEPT ![p] = "disable"]
  /\ UNCHANGED <<gpio_state, pin_bit_mask, hw_type, hw_enabled, asked,
                 forgotten>>

IoTGpioUnregisterIsrFunc(p) == UnregisterDisable(p) \/ Remove(p) \/ Uninstall(p)

\* IoTGpioSetIsrMask with mask 1; 0 does nothing.
IoTGpioSetIsrMask(p) ==
  /\ Idle(p) /\ intr_type[p] # "disable"
  /\ intr_type' = [intr_type EXCEPT ![p] = "disable"]
  /\ hw_type' = [hw_type EXCEPT ![p] = IF pin_bit_mask[p] THEN "disable" ELSE @]
  /\ hw_enabled' = [hw_enabled EXCEPT ![p] = FALSE]
  /\ UNCHANGED <<gpio_state, pin_bit_mask, service, handler, pc, history>>

\* Mutant of IoTGpioSetIsrMode: the pin is not configured.
SetIsrModeOnlyNoted(p) ==
  /\ Idle(p)
  /\ \E type \in Type : intr_type' = [intr_type EXCEPT ![p] = type]
  /\ UNCHANGED <<gpio_state, pin_bit_mask, idfVars, pc, history>>

\* A polarity that is not known means "disable".
IoTGpioSetIsrMode(p) ==
  /\ Idle(p)
  /\ \E type \in Type :
       /\ intr_type' = [intr_type EXCEPT ![p] = type]
       /\ Config(p, pin_bit_mask[p], type)
  /\ UNCHANGED <<gpio_state, pin_bit_mask, service, handler, pc, history>>

\* Mutant of IoTGpioDeinit: a pin with a registered interrupt keeps it.
DeinitKeepsIsr(p) ==
  /\ Idle(p) /\ gpio_state[p]
  /\ gpio_state' = [gpio_state EXCEPT ![p] = FALSE]
  /\ pin_bit_mask' = [pin_bit_mask EXCEPT ![p] = FALSE]
  /\ intr_type' = [intr_type EXCEPT ![p] = "disable"]
  /\ asked' = [asked EXCEPT ![p] = FALSE]
  /\ UNCHANGED <<idfVars, pc, forgotten, cut>>

\* The structure is cleared only when no interrupt is registered; its
\* gpio_config then names no pin and does nothing.
IoTGpioDeinit(p) ==
  /\ Idle(p)
  /\ IF ~gpio_state[p]
       THEN UNCHANGED <<halVars, hw_enabled, pc, asked, forgotten>>
       ELSE /\ gpio_state' = [gpio_state EXCEPT ![p] = FALSE]
            /\ asked' = [asked EXCEPT ![p] = FALSE]
            /\ \/ /\ intr_type[p] # "disable"
                  /\ hw_enabled' = [hw_enabled EXCEPT ![p] = FALSE]
                  /\ GoTo(p, "deinit remove")
                  /\ UNCHANGED <<pin_bit_mask, intr_type, forgotten>>
               \/ /\ intr_type[p] = "disable"
                  /\ pin_bit_mask' = [pin_bit_mask EXCEPT ![p] = FALSE]
                  /\ forgotten' = [forgotten EXCEPT ![p] = handler[p]]
                  /\ UNCHANGED <<intr_type, hw_enabled, pc>>
  /\ UNCHANGED <<service, handler, hw_type, cut>>

-----------------------------------------------------------------------------
(* The HDF driver *)

\* Success, whatever gpio_isr_handler_add returns; only malloc can fail it.
\* An unknown mode and OSAL_IRQF_TRIGGER_NONE mean "disable".
Esp32u4GpioSetIrq(p) ==
  /\ \E type \in Type, allocated \in BOOLEAN :
       /\ hw_type' = [hw_type EXCEPT ![p] = type]
       /\ IF allocated THEN HandlerAdd(p) ELSE UNCHANGED <<handler, hw_enabled>>
       /\ asked' = [asked EXCEPT ![p] = IF allocated THEN type = "on" ELSE @]
       /\ cut' = [cut EXCEPT ![p] = IF service /\ allocated THEN FALSE ELSE @]
  /\ UNCHANGED <<halVars, service, pc, forgotten>>

Esp32u4GpioUnsetIrq(p) ==
  /\ hw_type' = [hw_type EXCEPT ![p] = "disable"]
  /\ HandlerRemove(p)
  /\ asked' = [asked EXCEPT ![p] = FALSE]
  /\ UNCHANGED <<halVars, service, pc, forgotten, cut>>

Esp32u4GpioSwitchIrq(p) ==
  /\ \E on \in BOOLEAN : hw_enabled' = [hw_enabled EXCEPT ![p] = on]
  /\ UNCHANGED <<halVars, service, handler, hw_type, pc, history>>

-----------------------------------------------------------------------------
Next ==
  \/ \E p \in HalPins :
       \/ IoTGpioInit(p) \/ IoTGpioDeinit(p)
       \/ IoTGpioRegisterIsrFunc(p) \/ IoTGpioUnregisterIsrFunc(p)
       \/ IoTGpioSetIsrMask(p) \/ IoTGpioSetIsrMode(p)
  \/ \E p \in HdfPins :
       Esp32u4GpioSetIrq(p) \/ Esp32u4GpioUnsetIrq(p) \/ Esp32u4GpioSwitchIrq(p)

Spec == Init /\ [][Next]_vars

-----------------------------------------------------------------------------
(* Properties *)

\* An edge on pin p reaches its handler.
Delivers(p) ==
  service /\ handler[p] /\ hw_enabled[p] /\ hw_type[p] = "on"

\* hal_iot_gpio.c 177-275.  Once a pin was unregistered or deinitialised no
\* edge reaches the old handler, whatever is initialised, configured and
\* registered on this and other pins.  The exception is a pin that was masked
\* when it was deinitialised.
QuietAfterUnregister ==
  \A p \in HalPins : Delivers(p) => asked[p] \/ forgotten[p]

\* hal_iot_gpio.c 177-246.  A pin that was initialised and registered, whose
\* type the HAL holds for switched on, delivers its edges, unless the service
\* was uninstalled for another pin.
BelievedIsDelivered ==
  \A p \in HalPins :
    Idle(p) /\ asked[p] /\ pin_bit_mask[p] /\ intr_type[p] = "on" =>
      Delivers(p) \/ cut[p]

\* hal_iot_gpio.c 192-213, gpio_esp32u4.c 152-172.  The handler of a pin, of
\* the HAL or of the HDF driver, that was asked for and is not in the table
\* was lost to the uninstallation of the service for another pin.
LostOnlyByUninstall ==
  \A p \in Pins : asked[p] /\ ~handler[p] => cut[p]

\* gpio_esp32u4.c 156 says of gpio_isr_handler_add that it enables the
\* interrupt: after a successful Esp32u4GpioSetIrq the handler is there.
SetIrqEnables ==
  [][\A p \in HdfPins : asked'[p] /\ ~asked[p] => handler'[p]]_vars
=============================================================================
