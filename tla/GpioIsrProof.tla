---------------------------- MODULE GpioIsrProof ----------------------------
(***************************************************************************)
(* Proofs about GpioIsr for every set of pins of the HAL and of the HDF    *)
(* driver.  The argument: the table of handlers is empty while the service *)
(* is not installed; a handler of the HAL that is in the table was asked   *)
(* for, was forgotten, or is about to be removed by a task that has        *)
(* disabled its interrupt; and whoever asked for interrupts and lost its   *)
(* handler was cut off by an uninstallation for another pin.               *)
(***************************************************************************)
EXTENDS GpioIsr, TLAPS

Removal == {"remove", "uninstall", "deinit remove", "deinit uninstall"}

\* Without the service there is no table.
ServiceInv == \A p \in Pins : handler[p] => service

\* A task that registers has set both types, one that removes has withdrawn
\* what the pin asked for.
CallInv ==
  \A p \in HalPins :
    /\ pc[p] \in {"install", "add"} => intr_type[p] = "on" /\ hw_type[p] = "on"
    /\ pc[p] \in Removal => ~asked[p]

\* A handler nobody asks for belongs to a masked pin that was deinitialised,
\* or its task has disabled the interrupt and removes it next.
QuietInv ==
  \A p \in HalPins :
    handler[p] => \/ asked[p] \/ forgotten[p]
                  \/ (pc[p] \in {"remove", "deinit remove"} /\ ~hw_enabled[p])

LostInv == \A p \in Pins : asked[p] /\ ~handler[p] => cut[p]
CutInv == ~service => \A p \in HdfPins : cut[p]

\* Between two calls the registers hold what intr_type says, unless the pin
\* was cut off.
RegisterInv ==
  \A p \in HalPins :
    pc[p] = "idle" /\ asked[p] /\ pin_bit_mask[p] /\ intr_type[p] = "on" =>
      cut[p] \/ (hw_enabled[p] /\ hw_type[p] = "on")

IInv ==
  TypeOK /\ ServiceInv /\ CallInv /\ QuietInv /\ LostInv /\ CutInv
    /\ RegisterInv
-----------------------------------------------------------------------------
USE PinsAssumption DEF Pins

LEMMA InitIInv == Init => IInv
<1> SUFFICES ASSUME Init PROVE IInv
  OBVIOUS
<1>1. TypeOK
  BY Zenon DEF Init, TypeOK, Type, Labels
<1>2. ServiceInv /\ CallInv /\ QuietInv /\ LostInv /\ CutInv /\ RegisterInv
  BY DEF Init, ServiceInv, CallInv, QuietInv, LostInv, CutInv, RegisterInv,
     Removal
<1> QED BY <1>1, <1>2 DEF IInv

LEMMA NextIInv == IInv /\ [Next]_vars => IInv'
<1> SUFFICES ASSUME IInv, [Next]_vars PROVE IInv'
  OBVIOUS
<1> USE DEF IInv, Idle, GoTo, Removal, history, halVars, idfVars
<1>1. ASSUME NEW p \in HalPins, IoTGpioInit(p) PROVE IInv'
  <2>1. TypeOK'
    BY <1>1 DEF IoTGpioInit, Config, TypeOK, Type, Labels
  <2>2. ServiceInv'
    BY <1>1 DEF IoTGpioInit, Config, TypeOK, ServiceInv
  <2>3. CallInv'
    BY <1>1 DEF IoTGpioInit, Config, TypeOK, CallInv
  <2>4. QuietInv'
    BY <1>1 DEF IoTGpioInit, Config, TypeOK, QuietInv
  <2>5. LostInv'
    BY <1>1 DEF IoTGpioInit, Config, TypeOK, LostInv
  <2>6. CutInv'
    BY <1>1 DEF IoTGpioInit, Config, TypeOK, CutInv
  <2>7. RegisterInv'
    BY <1>1 DEF IoTGpioInit, Config, TypeOK, RegisterInv
  <2> QED BY <2>1, <2>2, <2>3, <2>4, <2>5, <2>6, <2>7
<1>2. ASSUME NEW p \in HalPins, RegisterTypes(p) PROVE IInv'
  <2>1. TypeOK'
    BY <1>2 DEF RegisterTypes, TypeOK, Type, Labels
  <2>2. ServiceInv'
    BY <1>2 DEF RegisterTypes, TypeOK, ServiceInv
  <2>3. CallInv'
    BY <1>2 DEF RegisterTypes, TypeOK, CallInv
  <2>4. QuietInv'
    BY <1>2 DEF RegisterTypes, TypeOK, QuietInv
  <2>5. LostInv'
    BY <1>2 DEF RegisterTypes, TypeOK, LostInv
  <2>6. CutInv'
    BY <1>2 DEF RegisterTypes, TypeOK, CutInv
  <2>7. RegisterInv'
    BY <1>2 DEF RegisterTypes, TypeOK, RegisterInv
  <2> QED BY <2>1, <2>2, <2>3, <2>4, <2>5, <2>6, <2>7
<1>3. ASSUME NEW p \in HalPins, RegisterInstall(p) PROVE IInv'
  <2>1. TypeOK'
    BY <1>3 DEF RegisterInstall, TypeOK, Type, Labels
  <2>2. ServiceInv'
    BY <1>3 DEF RegisterInstall, TypeOK, ServiceInv
  <2>3. CallInv'
    BY <1>3 DEF RegisterInstall, TypeOK, CallInv
  <2>4. QuietInv'
    BY <1>3 DEF RegisterInstall, TypeOK, QuietInv
  <2>5. LostInv'
    BY <1>3 DEF RegisterInstall, TypeOK, LostInv
  <2>6. CutInv'
    BY <1>3 DEF RegisterInstall, TypeOK, CutInv
  <2>7. RegisterInv'
    BY <1>3 DEF RegisterInstall, TypeOK, RegisterInv
  <2> QED BY <2>1, <2>2, <2>3, <2>4, <2>5, <2>6, <2>7
<1>4. ASSUME NEW p \in HalPins, RegisterAdd(p) PROVE IInv'
  <2>1. TypeOK'
    BY <1>4 DEF RegisterAdd, HandlerAdd, TypeOK, Type, Labels
  <2>2. ServiceInv'
    BY <1>4 DEF RegisterAdd, HandlerAdd, TypeOK, ServiceInv
  <2>3. CallInv'
    BY <1>4 DEF RegisterAdd, HandlerAdd, TypeOK, CallInv
  <2>4. QuietInv'
    BY <1>4 DEF RegisterAdd, HandlerAdd, TypeOK, QuietInv
  <2>5. LostInv'
    BY <1>4 DEF RegisterAdd, HandlerAdd, TypeOK, LostInv
  <2>6. CutInv'
    BY <1>4 DEF RegisterAdd, HandlerAdd, TypeOK, CutInv
  <2>7. RegisterInv'
    <3>1. CASE service
      BY <1>4, <3>1 DEF RegisterAdd, HandlerAdd, TypeOK, RegisterInv, CallInv
    <3>2. CASE ~service
      BY <1>4, <3>2 DEF RegisterAdd, HandlerAdd, RegisterInv, ServiceInv,
         LostInv, TypeOK
    <3> QED BY <3>1, <3>2
  <2> QED BY <2>1, <2>2, <2>3, <2>4, <2>5, <2>6, <2>7
<1>5. ASSUME NEW p \in HalPins, UnregisterDisable(p) PROVE IInv'
  <2>1. TypeOK'
    BY <1>5 DEF UnregisterDisable, TypeOK, Type, Labels
  <2>2. ServiceInv'
    BY <1>5 DEF UnregisterDisable, TypeOK, ServiceInv
  <2>3. CallInv'
    BY <1>5 DEF UnregisterDisable, TypeOK, CallInv
  <2>4. QuietInv'
    BY <1>5 DEF UnregisterDisable, TypeOK, QuietInv
  <2>5. LostInv'
    BY <1>5 DEF UnregisterDisable, TypeOK, LostInv
  <2>6. CutInv'
    BY <1>5 DEF UnregisterDisable, TypeOK, CutInv
  <2>7. RegisterInv'
    BY <1>5 DEF UnregisterDisable, TypeOK, RegisterInv
  <2> QED BY <2>1, <2>2, <2>3, <2>4, <2>5, <2>6, <2>7
<1>6. ASSUME NEW p \in HalPins, Remove(p) PROVE IInv'
  <2>1. TypeOK'
    BY <1>6 DEF Remove, HandlerRemove, TypeOK, Type, Labels
  <2>2. ServiceInv'
    BY <1>6 DEF Remove, HandlerRemove, TypeOK, ServiceInv
  <2>3. CallInv'
    BY <1>6 DEF Remove, HandlerRemove, TypeOK, CallInv
  <2>4. QuietInv'
    <3>1. CASE service
      BY <1>6, <3>1 DEF Remove, HandlerRemove, TypeOK, QuietInv, CallInv
    <3>2. CASE ~service
      BY <1>6, <3>2 DEF Remove, HandlerRemove, TypeOK, QuietInv, ServiceInv
    <3> QED BY <3>1, <3>2
  <2>5. LostInv'
    <3>1. CASE service
      BY <1>6, <3>1 DEF Remove, HandlerRemove, TypeOK, LostInv, CallInv
    <3>2. CASE ~service
      BY <1>6, <3>2 DEF Remove, HandlerRemove, TypeOK, LostInv, ServiceInv
    <3> QED BY <3>1, <3>2
  <2>6. CutInv'
    BY <1>6 DEF Remove, HandlerRemove, TypeOK, CutInv
  <2>7. RegisterInv'
    BY <1>6 DEF Remove, HandlerRemove, TypeOK, RegisterInv
  <2> QED BY <2>1, <2>2, <2>3, <2>4, <2>5, <2>6, <2>7
<1>7. ASSUME NEW p \in HalPins, Uninstall(p) PROVE IInv'
  <2>1. TypeOK'
    BY <1>7 DEF Uninstall, UninstallService, TypeOK, Type, Labels
  <2>2. ServiceInv'
    BY <1>7 DEF Uninstall, UninstallService, TypeOK, ServiceInv
  <2>3. CallInv'
    BY <1>7 DEF Uninstall, UninstallService, TypeOK, CallInv
  <2>4. QuietInv'
    BY <1>7 DEF Uninstall, UninstallService, TypeOK, QuietInv
  <2>5. LostInv'
    BY <1>7 DEF Uninstall, UninstallService, TypeOK, LostInv, CallInv
  <2>6. CutInv'
    BY <1>7 DEF Uninstall, UninstallService, TypeOK, CutInv
  <2>7. RegisterInv'
    BY <1>7 DEF Uninstall, UninstallService, TypeOK, RegisterInv
  <2> QED BY <2>1, <2>2, <2>3, <2>4, <2>5, <2>6, <2>7
<1>8. ASSUME NEW p \in HalPins, IoTGpioSetIsrMask(p) PROVE IInv'
  <2>1. TypeOK'
    BY <1>8 DEF IoTGpioSetIsrMask, TypeOK, Type, Labels
  <2>2. ServiceInv'
    BY <1>8 DEF IoTGpioSetIsrMask, TypeOK, ServiceInv
  <2>3. CallInv'
    BY <1>8 DEF IoTGpioSetIsrMask, TypeOK, CallInv
  <2>4. QuietInv'
    BY <1>8 DEF IoTGpioSetIsrMask, TypeOK, QuietInv
  <2>5. LostInv'
    BY <1>8 DEF IoTGpioSetIsrMask, TypeOK, LostInv
  <2>6. CutInv'
    BY <1>8 DEF IoTGpioSetIsrMask, TypeOK, CutInv
  <2>7. RegisterInv'
    BY <1>8 DEF IoTGpioSetIsrMask, TypeOK, RegisterInv
  <2> QED BY <2>1, <2>2, <2>3, <2>4, <2>5, <2>6, <2>7
<1>9. ASSUME NEW p \in HalPins, IoTGpioSetIsrMode(p) PROVE IInv'
  <2>1. TypeOK'
    BY <1>9 DEF IoTGpioSetIsrMode, Config, TypeOK, Type, Labels
  <2>2. ServiceInv'
    BY <1>9 DEF IoTGpioSetIsrMode, Config, TypeOK, ServiceInv
  <2>3. CallInv'
    BY <1>9 DEF IoTGpioSetIsrMode, Config, TypeOK, CallInv
  <2>4. QuietInv'
    BY <1>9 DEF IoTGpioSetIsrMode, Config, TypeOK, QuietInv
  <2>5. LostInv'
    BY <1>9 DEF IoTGpioSetIsrMode, Config, TypeOK, LostInv
  <2>6. CutInv'
    BY <1>9 DEF IoTGpioSetIsrMode, Config, TypeOK, CutInv
  <2>7. RegisterInv'
    BY <1>9 DEF IoTGpioSetIsrMode, Config, TypeOK, RegisterInv
  <2> QED BY <2>1, <2>2, <2>3, <2>4, <2>5, <2>6, <2>7
<1>10. ASSUME NEW p \in HalPins, IoTGpioDeinit(p) PROVE IInv'
  <2>1. TypeOK'
    <3>1. CASE ~gpio_state[p]
      BY <1>10, <3>1 DEF IoTGpioDeinit, Type, Labels, TypeOK
    <3>2. CASE gpio_state[p] /\ intr_type[p] # "disable"
      BY <1>10, <3>2 DEF IoTGpioDeinit, Type, Labels, TypeOK
    <3>3. CASE gpio_state[p] /\ intr_type[p] = "disable"
      <4>1. /\ gpio_state' = [gpio_state EXCEPT ![p] = FALSE]
            /\ asked' = [asked EXCEPT ![p] = FALSE]
            /\ pin_bit_mask' = [pin_bit_mask EXCEPT ![p] = FALSE]
            /\ forgotten' = [forgotten EXCEPT ![p] = handler[p]]
            /\ UNCHANGED <<intr_type, hw_enabled, pc, service, handler,
                           hw_type, cut>>
        BY <1>10, <3>3 DEF IoTGpioDeinit
      <4>2. /\ gpio_state' \in [HalPins -> BOOLEAN]
            /\ pin_bit_mask' \in [HalPins -> BOOLEAN]
        BY <4>1, Zenon DEF TypeOK
      <4>3. asked' \in [Pins -> BOOLEAN]
        BY <4>1, Zenon DEF TypeOK
      <4>4. forgotten' \in [Pins -> BOOLEAN]
        <5>1. handler[p] \in BOOLEAN
          BY Zenon DEF TypeOK
        <5> QED BY <4>1, <5>1, Zenon DEF TypeOK
      <4> QED BY <4>1, <4>2, <4>3, <4>4, Zenon DEF TypeOK
    <3> QED BY <3>1, <3>2, <3>3
  <2>2. ServiceInv'
    BY <1>10 DEF IoTGpioDeinit, TypeOK, ServiceInv
  <2>3. CallInv'
    BY <1>10 DEF IoTGpioDeinit, TypeOK, CallInv
  <2>4. QuietInv'
    <3>1. CASE ~gpio_state[p]
      BY <1>10, <3>1 DEF IoTGpioDeinit, TypeOK, QuietInv
    <3>2. CASE gpio_state[p] /\ intr_type[p] # "disable"
      BY <1>10, <3>2 DEF IoTGpioDeinit, TypeOK, QuietInv
    <3>3. CASE gpio_state[p] /\ intr_type[p] = "disable"
      <4>1. /\ UNCHANGED <<pc, handler, hw_enabled>>
            /\ asked' = [asked EXCEPT ![p] = FALSE]
            /\ forgotten' = [forgotten EXCEPT ![p] = handler[p]]
        BY <1>10, <3>3 DEF IoTGpioDeinit
      <4>2. forgotten'[p] = handler[p]
        BY <4>1, Zenon DEF TypeOK
      <4>3. \A q \in HalPins \ {p} :
              asked'[q] = asked[q] /\ forgotten'[q] = forgotten[q]
        BY <4>1 DEF TypeOK
      <4> QED BY <4>1, <4>2, <4>3 DEF QuietInv
    <3> QED BY <3>1, <3>2, <3>3
  <2>5. LostInv'
    BY <1>10 DEF IoTGpioDeinit, TypeOK, LostInv
  <2>6. CutInv'
    BY <1>10 DEF IoTGpioDeinit, TypeOK, CutInv
  <2>7. RegisterInv'
    <3>1. CASE ~gpio_state[p]
      BY <1>10, <3>1 DEF IoTGpioDeinit, TypeOK, RegisterInv
    <3>2. CASE gpio_state[p] /\ intr_type[p] # "disable"
      BY <1>10, <3>2 DEF IoTGpioDeinit, TypeOK, RegisterInv
    <3>3. CASE gpio_state[p] /\ intr_type[p] = "disable"
      BY <1>10, <3>3 DEF IoTGpioDeinit, TypeOK, RegisterInv
    <3> QED BY <3>1, <3>2, <3>3
  <2> QED BY <2>1, <2>2, <2>3, <2>4, <2>5, <2>6, <2>7
<1>11. ASSUME NEW p \in HdfPins, Esp32u4GpioSetIrq(p) PROVE IInv'
  <2>0. PICK type \in Type, allocated \in BOOLEAN :
          /\ hw_type' = [hw_type EXCEPT ![p] = type]
          /\ IF allocated THEN HandlerAdd(p)
               ELSE UNCHANGED <<handler, hw_enabled>>
          /\ asked' = [asked EXCEPT ![p] = IF allocated THEN type = "on" ELSE @]
          /\ cut'
               = [cut EXCEPT ![p] = IF service /\ allocated THEN FALSE ELSE @]
    BY <1>11, Zenon DEF Esp32u4GpioSetIrq
  <2>u. UNCHANGED <<gpio_state, pin_bit_mask, intr_type, service, pc,
          forgotten>>
    BY <1>11 DEF Esp32u4GpioSetIrq
  <2>o. \A q \in HalPins : /\ q # p /\ hw_type'[q] = hw_type[q]
                          /\ handler'[q] = handler[q] /\ asked'[q] = asked[q]
                          /\ hw_enabled'[q] = hw_enabled[q] /\ cut'[q] = cut[q]
    BY <2>0 DEF HandlerAdd, TypeOK
  <2>1. TypeOK'
    <3>1. hw_type' \in [Pins -> Type]
      BY <2>0 DEF TypeOK
    <3>2. handler' \in [Pins -> BOOLEAN] /\ hw_enabled' \in [Pins -> BOOLEAN]
      BY <2>0, Zenon DEF HandlerAdd, TypeOK
    <3>3. asked' \in [Pins -> BOOLEAN] /\ cut' \in [Pins -> BOOLEAN]
      BY <2>0, Zenon DEF TypeOK
    <3> QED BY <2>u, <3>1, <3>2, <3>3 DEF TypeOK
  <2>2. ServiceInv'
    BY <1>11 DEF Esp32u4GpioSetIrq, HandlerAdd, TypeOK, ServiceInv
  <2>3. CallInv'
    BY <2>o, <2>u DEF CallInv
  <2>4. QuietInv'
    BY <2>o, <2>u DEF QuietInv
  <2>5. LostInv'
    <3>1. CASE allocated /\ service
      BY <2>0, <3>1 DEF HandlerAdd, TypeOK, LostInv
    <3>2. CASE allocated /\ ~service
      BY <2>0, <3>2 DEF HandlerAdd, TypeOK, LostInv, CutInv
    <3>3. CASE ~allocated
      BY <2>0, <3>3 DEF TypeOK, LostInv
    <3> QED BY <3>1, <3>2, <3>3
  <2>6. CutInv'
    BY <1>11 DEF Esp32u4GpioSetIrq, HandlerAdd, TypeOK, CutInv
  <2>7. RegisterInv'
    BY <2>o, <2>u DEF RegisterInv
  <2> QED BY <2>1, <2>2, <2>3, <2>4, <2>5, <2>6, <2>7
<1>12. ASSUME NEW p \in HdfPins, Esp32u4GpioUnsetIrq(p) PROVE IInv'
  <2>1. TypeOK'
    BY <1>12 DEF Esp32u4GpioUnsetIrq, HandlerRemove, TypeOK, Type, Labels
  <2>2. ServiceInv'
    BY <1>12 DEF Esp32u4GpioUnsetIrq, HandlerRemove, TypeOK, ServiceInv
  <2>3. CallInv'
    BY <1>12 DEF Esp32u4GpioUnsetIrq, HandlerRemove, TypeOK, CallInv
  <2>4. QuietInv'
    BY <1>12 DEF Esp32u4GpioUnsetIrq, HandlerRemove, TypeOK, QuietInv
  <2>5. LostInv'
    BY <1>12 DEF Esp32u4GpioUnsetIrq, HandlerRemove, TypeOK, LostInv
  <2>6. CutInv'
    BY <1>12 DEF Esp32u4GpioUnsetIrq, HandlerRemove, TypeOK, CutInv
  <2>7. RegisterInv'
    BY <1>12 DEF Esp32u4GpioUnsetIrq, HandlerRemove, TypeOK, RegisterInv
  <2> QED BY <2>1, <2>2, <2>3, <2>4, <2>5, <2>6, <2>7
<1>13. ASSUME NEW p \in HdfPins, Esp32u4GpioSwitchIrq(p) PROVE IInv'
  <2>1. TypeOK'
    BY <1>13 DEF Esp32u4GpioSwitchIrq, TypeOK, Type, Labels
  <2>2. ServiceInv'
    BY <1>13 DEF Esp32u4GpioSwitchIrq, TypeOK, ServiceInv
  <2>3. CallInv'
    BY <1>13 DEF Esp32u4GpioSwitchIrq, TypeOK, CallInv
  <2>4. QuietInv'
    BY <1>13 DEF Esp32u4GpioSwitchIrq, TypeOK, QuietInv
  <2>5. LostInv'
    BY <1>13 DEF Esp32u4GpioSwitchIrq, TypeOK, LostInv
  <2>6. CutInv'
    BY <1>13 DEF Esp32u4GpioSwitchIrq, TypeOK, CutInv
  <2>7. RegisterInv'
    BY <1>13 DEF Esp32u4GpioSwitchIrq, TypeOK, RegisterInv
  <2> QED BY <2>1, <2>2, <2>3, <2>4, <2>5, <2>6, <2>7
<1>14. CASE UNCHANGED vars
  BY <1>14 DEF vars, TypeOK, ServiceInv, CallInv, QuietInv, LostInv, CutInv,
     RegisterInv
<1> QED
  BY <1>1, <1>2, <1>3, <1>4, <1>5, <1>6, <1>7, <1>8, <1>9, <1>10, <1>11, <1>12,
     <1>13, <1>14
     DEF Next, IoTGpioRegisterIsrFunc, IoTGpioUnregisterIsrFunc

LEMMA Invariance == Spec => []IInv
  BY InitIInv, NextIInv, PTL DEF Spec

-----------------------------------------------------------------------------
\* hal_iot_gpio.c 41-60, 177-275, gpio_esp32u4.c 135-199.  Types of the state
\* both drivers keep.
THEOREM TypeCorrect == Spec => []TypeOK
  BY Invariance, PTL DEF IInv

\* hal_iot_gpio.c 177-275.  No edge reaches the handler of a pin that was
\* unregistered or deinitialised, however many pins share the service.
THEOREM QuietAfterUnregisterHolds == Spec => []QuietAfterUnregister
<1>1. IInv => QuietAfterUnregister
  BY DEF IInv, QuietInv, QuietAfterUnregister, Delivers
<1> QED BY <1>1, Invariance, PTL

\* hal_iot_gpio.c 192-213, gpio_esp32u4.c 152-172.  Handlers that were asked for
\* are lost to the uninstallation of the service for another pin and to
\* nothing else.
THEOREM LostOnlyByUninstallHolds == Spec => []LostOnlyByUninstall
<1>1. IInv => LostOnlyByUninstall
  BY DEF IInv, LostInv, LostOnlyByUninstall
<1> QED BY <1>1, Invariance, PTL

\* hal_iot_gpio.c 177-246.  What the HAL holds for switched on delivers its
\* edges, unless another pin had the service uninstalled.
THEOREM BelievedIsDeliveredHolds == Spec => []BelievedIsDelivered
<1>1. IInv => BelievedIsDelivered
  BY DEF IInv, ServiceInv, LostInv, RegisterInv, BelievedIsDelivered, Delivers,
     Idle
<1> QED BY <1>1, Invariance, PTL
=============================================================================
