---------------------------- MODULE DriversProof ----------------------------
(***************************************************************************)
(* What holds of the drivers whatever the tasks, devices, settings and     *)
(* bounds.  The instances share nothing, so that a step of the composition *)
(* is a step of each or leaves it alone (EachSteps), and each has an       *)
(* inductive invariant of its own: Inv, Init => Inv and Inv /\ Next =>     *)
(* Inv'.  The theorems are at the end.                                     *)
(***************************************************************************)
EXTENDS Drivers, FiniteSetTheorems, TLAPS

\* The drivers share nothing: a step of the composition is a step of each of
\* them or leaves it alone.
LEMMA EachSteps ==
  ASSUME [Next]_vars
  PROVE  /\ [Spi!Next]_spiVars
         /\ [Uart!Next]_uartVars
         /\ [Line!Next]_lineVars
         /\ [I2c!Next]_i2cVars
         /\ [I2cEntry!Next]_i2cEntryVars
         /\ [Wdt!Next]_wdtVars
         /\ [WdtEntry!Next]_wdtEntryVars
         /\ [Pwm!Next]_pwmVars
         /\ [Gpio!Next]_gpioVars
         /\ [File!Next]_fileVars
         /\ [I2cPort!Next]_portVars
         /\ [Ledc!Next]_ledcVars
         /\ [Twdt!Next]_twdtVars
<1>1. [Spi!Next]_spiVars
  BY DEF Next, Only, Idle, vars
<1>2. [Uart!Next]_uartVars
  BY DEF Next, Only, Idle, vars
<1>3. [Line!Next]_lineVars
  BY DEF Next, Only, Idle, vars
<1>4. [I2c!Next]_i2cVars
  BY DEF Next, Only, Idle, vars
<1>5. [I2cEntry!Next]_i2cEntryVars
  BY DEF Next, Only, Idle, vars
<1>6. [Wdt!Next]_wdtVars
  BY DEF Next, Only, Idle, vars
<1>7. [WdtEntry!Next]_wdtEntryVars
  BY DEF Next, Only, Idle, vars
<1>8. [Pwm!Next]_pwmVars
  BY DEF Next, Only, Idle, vars
<1>9. [Gpio!Next]_gpioVars
  BY DEF Next, Only, Idle, vars
<1>10. [File!Next]_fileVars
  BY DEF Next, Only, Idle, vars
<1>11. [I2cPort!Next]_portVars
  BY DEF Next, Only, Idle, vars
<1>12. [Ledc!Next]_ledcVars
  BY DEF Next, Only, Idle, vars
<1>13. [Twdt!Next]_twdtVars
  BY DEF Next, Only, Idle, vars
<1> QED
  BY <1>1, <1>2, <1>3, <1>4, <1>5, <1>6, <1>7, <1>8, <1>9, <1>10, <1>11, <1>12,
     <1>13

-----------------------------------------------------------------------------
(* Remainders, as the counters of the drivers wrap by them *)

LEMMA ModRange ==
  ASSUME NEW a \in Int, NEW w \in Nat \ {0}
  PROVE  a % w \in 0 .. w - 1 /\ a \div w \in Int
           /\ a = w * (a \div w) + (a % w)
  OBVIOUS

LEMMA ModOf ==
  ASSUME NEW w \in Nat \ {0}, NEW k \in Int, NEW r \in 0 .. w - 1
  PROVE  (w * k + r) % w = r
  OBVIOUS

LEMMA ModSmall ==
  ASSUME NEW a \in Nat, NEW w \in Nat \ {0}
  PROVE  a % w <= a /\ (a < w => a % w = a)
<1>1. a \div w >= 0 /\ a % w \in Nat
  BY ModRange
<1> QED OBVIOUS

\* The difference of two readings of a counter that wraps at w is the time
\* between them, if that is shorter than a turn.
LEMMA ModDiff ==
  ASSUME NEW w \in Nat \ {0}, NEW a \in Nat, NEW b \in Nat, b <= a, a - b < w
  PROVE  ((a % w) - (b % w)) % w = a - b
<1> DEFINE k == (b \div w) - (a \div w)
<1>1. k \in Int
  BY ModRange
<1>2. (a % w) - (b % w) = w * k + (a - b)
  <2>1. w * k = w * (b \div w) - w * (a \div w)
    BY ModRange
  <2> HIDE DEF k
  <2> QED BY <1>1, <2>1, ModRange
<1> HIDE DEF k
<1> QED BY <1>1, <1>2, ModOf

-----------------------------------------------------------------------------
(* SpiDevice *)

\* The handle is that of a device on the bus, in every state of the controller;
\* without priv nobody has the device open.
SpiInv ==
  /\ Spi!TypeOK
  /\ handle => attached
  /\ cntlr # "ready" => openCnt = 0
  /\ Spi!StuckOnlyByFault

LEMMA SpiInit == Init => SpiInv
<1> SUFFICES ASSUME Init PROVE SpiInv
  OBVIOUS
<1>1. Spi!DefaultSpeed \in Speeds
  BY DriversAssumption DEF Spi!ConstantsOK, Spi!DefaultSpeed
<1>2. /\ handle \in BOOLEAN /\ bus \in BOOLEAN /\ attached \in BOOLEAN
      /\ faulted \in BOOLEAN /\ wrapped \in BOOLEAN
  BY Zenon DEF Init, Spi!Init
<1>3. /\ cntlr = "none" /\ openCnt = 0 /\ speed \in Speeds
           /\ busSpeed \in Speeds
      /\ opens = 0 /\ ~handle /\ ~bus
  BY <1>1 DEF Init, Spi!Init
<1> QED
  BY <1>2, <1>3, DriversAssumption DEF SpiInv, Spi!TypeOK, Spi!ConstantsOK,
     Spi!StuckOnlyByFault

LEMMA SpiNext == SpiInv /\ [Next]_vars => SpiInv'
<1> SUFFICES ASSUME SpiInv, [Spi!Next]_spiVars PROVE SpiInv'
  BY EachSteps
<1>1. CASE UNCHANGED spiVars
  BY <1>1 DEF SpiInv, Spi!TypeOK, Spi!StuckOnlyByFault, spiVars
<1>2. Spi!DefaultSpeed \in Speeds /\ CountMod \in Nat \ {0, 1}
        /\ MaxOpens \in Nat
  BY DriversAssumption DEF Spi!ConstantsOK, Spi!DefaultSpeed
<1> USE DEF SpiInv, Spi!StuckOnlyByFault, Spi!devVars, Spi!espVars,
      Spi!historyVars
<1>3. CASE Spi!SpiDriverBind
  BY <1>2, <1>3 DEF Spi!SpiDriverBind, Spi!TypeOK
<1>4. CASE Spi!SpiDriverInit
  <2>1. /\ handle' \in BOOLEAN /\ bus' \in BOOLEAN /\ attached' \in BOOLEAN
        /\ faulted' \in BOOLEAN /\ wrapped' \in BOOLEAN
    BY <1>4, Zenon DEF Spi!SpiDriverInit, Spi!TypeOK
  <2>2. Spi!TypeOK'
    BY <1>2, <1>4, <2>1 DEF Spi!SpiDriverInit, Spi!TypeOK
  <2>3. (handle => attached)' /\ (cntlr # "ready" => openCnt = 0)'
    BY <1>4 DEF Spi!SpiDriverInit, Spi!TypeOK
  <2>4. Spi!StuckOnlyByFault'
    BY <1>2, <1>4 DEF Spi!SpiDriverInit, Spi!TypeOK
  <2> QED BY <2>2, <2>3, <2>4
<1>5. CASE Spi!SpiDriverRelease
  <2>1. /\ handle' \in BOOLEAN /\ bus' \in BOOLEAN /\ attached' \in BOOLEAN
        /\ faulted' \in BOOLEAN /\ wrapped' \in BOOLEAN
    BY <1>5, Zenon DEF Spi!SpiDriverRelease, Spi!CloseLast, Spi!TearDown,
       Spi!TypeOK
  <2>2. Spi!TypeOK'
    BY <1>2, <1>5, <2>1 DEF Spi!SpiDriverRelease, Spi!CloseLast, Spi!TearDown,
       Spi!TypeOK
  <2>3. (handle => attached)' /\ (cntlr # "ready" => openCnt = 0)'
    BY <1>5 DEF Spi!SpiDriverRelease, Spi!CloseLast, Spi!TearDown, Spi!TypeOK
  <2>4. Spi!StuckOnlyByFault'
    BY <1>2, <1>5 DEF Spi!SpiDriverRelease, Spi!CloseLast, Spi!TearDown,
       Spi!TypeOK
  <2> QED BY <2>2, <2>3, <2>4
<1>6. CASE Spi!SpiDevOpen
  <2>1. /\ handle' \in BOOLEAN /\ bus' \in BOOLEAN /\ attached' \in BOOLEAN
        /\ faulted' \in BOOLEAN /\ wrapped' \in BOOLEAN
    BY <1>6, Zenon DEF Spi!SpiDevOpen, Spi!TypeOK
  <2>2. Spi!TypeOK'
    BY <1>2, <1>6, <2>1 DEF Spi!SpiDevOpen, Spi!TypeOK
  <2>3. (handle => attached)' /\ (cntlr # "ready" => openCnt = 0)'
    BY <1>6 DEF Spi!SpiDevOpen, Spi!TypeOK
  <2>4. Spi!StuckOnlyByFault'
    <3>1. CASE openCnt > 0
      <4>1. CASE openCnt + 1 = CountMod
        <5>1. openCnt # 0
          BY <3>1 DEF Spi!TypeOK
        <5>2. wrapped'
          BY <1>6, <5>1, <4>1, Zenon DEF Spi!SpiDevOpen
        <5> QED BY <5>2
      <4>2. CASE openCnt + 1 # CountMod
        <5>1. openCnt' = openCnt + 1
          BY <1>2, <1>6, <3>1, <4>2 DEF Spi!SpiDevOpen, Spi!TypeOK
        <5> QED BY <3>1, <5>1 DEF Spi!TypeOK
      <4> QED BY <4>1, <4>2
    <3>2. CASE openCnt = 0
      <4>1. ~(openCnt > 0)
        BY <3>2
      <4>2. \/ openCnt' = 1 \/ faulted'
            \/ bus
        BY <1>6, <4>1, Zenon DEF Spi!SpiDevOpen
      <4>3. faulted => faulted'
        BY <1>6, <4>1, Zenon DEF Spi!SpiDevOpen
      <4>4. wrapped' = wrapped
        BY <1>6, <3>2, <4>1 DEF Spi!SpiDevOpen
      <4> QED BY <3>2, <4>2, <4>3, <4>4
    <3> QED BY <3>1, <3>2 DEF Spi!TypeOK
  <2> QED BY <2>2, <2>3, <2>4
<1>7. CASE Spi!SpiDevClose
  <2>1. /\ handle' \in BOOLEAN /\ bus' \in BOOLEAN /\ attached' \in BOOLEAN
        /\ faulted' \in BOOLEAN /\ wrapped' \in BOOLEAN
    BY <1>7, Zenon DEF Spi!SpiDevClose, Spi!CloseLast, Spi!TearDown, Spi!TypeOK
  <2>2. Spi!TypeOK'
    BY <1>2, <1>7, <2>1 DEF Spi!SpiDevClose, Spi!CloseLast, Spi!TearDown,
       Spi!TypeOK
  <2>3. (handle => attached)' /\ (cntlr # "ready" => openCnt = 0)'
    BY <1>7 DEF Spi!SpiDevClose, Spi!CloseLast, Spi!TearDown, Spi!TypeOK
  <2>4. Spi!StuckOnlyByFault'
    <3>1. CASE openCnt > 1
      <4>1. openCnt' = openCnt - 1
        BY <1>7, <3>1 DEF Spi!SpiDevClose, Spi!TypeOK
      <4> QED BY <3>1, <4>1 DEF Spi!TypeOK
    <3>2. CASE openCnt = 1
      <4>1. ~bus' \/ faulted'
        BY <1>7, <3>2 DEF Spi!SpiDevClose, Spi!CloseLast, Spi!TearDown
      <4> QED BY <4>1
    <3>3. CASE openCnt = 0
      <4>1. UNCHANGED <<openCnt, bus, faulted, wrapped>>
        BY <1>7, <3>3 DEF Spi!SpiDevClose
      <4> QED BY <4>1
    <3> QED BY <3>1, <3>2, <3>3 DEF Spi!TypeOK
  <2> QED BY <2>2, <2>3, <2>4
<1>8. CASE Spi!SpiDevSetCfg
  BY <1>2, <1>8 DEF Spi!SpiDevSetCfg, Spi!TypeOK
<1> QED BY <1>1, <1>3, <1>4, <1>5, <1>6, <1>7, <1>8 DEF Spi!Next

-----------------------------------------------------------------------------
(* UartHost *)

\* The bytes of r, place by place of its buffer: none before the first byte is
\* taken, only the first while the rest is to come, in the end what it took.
UartCall(r) ==
  /\ uart_pc[r] \in {"idle", "first"} =>
       rcv_bytes[r] = 0 /\ \A i \in 1 .. MaxSize : data[r][i] = 0
  /\ uart_pc[r] \in {"look", "rest"} =>
       /\ data[r][1] <= head /\ \A i \in 2 .. MaxSize : data[r][i] = 0
       /\ rcv_bytes[r] = IF data[r][1] = 0 THEN 0 ELSE 1
       /\ data[r][1] = 0 => waits[r] = 0
  /\ uart_pc[r] = "done" =>
       /\ data[r][1] = 0 => waits[r] = 0
       /\ data[r][1] # 0 =>
            \A i \in 1 .. MaxSize : data[r][i] # 0 <=> i <= rcv_bytes[r]
       /\ \A i, j \in 1 .. MaxSize :
            i < j /\ data[r][j] # 0 => data[r][i] < data[r][j]

UartTypes == Uart!TypeOK /\ rcv_bytes \in [Tasks -> Nat]

UartInv == UartTypes /\ \A r \in Tasks : UartCall(r)

LEMMA UartInit == Init => UartInv
<1> SUFFICES ASSUME Uart!Init PROVE UartInv
  BY DEF Init
<1>0. Capacity \in Nat \ {0} /\ MaxSize \in Nat \ {0} /\ MaxBytes \in Nat
  BY DriversAssumption DEF Uart!ConstantsOK
<1>1. UartTypes
  BY <1>0 DEF Uart!Init, UartTypes, Uart!TypeOK, Uart!Buffer, Uart!Unwritten,
     Uart!Forever
<1>2. ASSUME NEW r \in Tasks PROVE UartCall(r)
  BY DEF Uart!Init, UartCall, Uart!Unwritten
<1> QED BY <1>1, <1>2 DEF UartInv

\* The calls of the others do not notice that head moves on.
LEMMA UartOthers ==
  ASSUME UartTypes, UartTypes', NEW q \in Tasks, UartCall(q), head' >= head,
         /\ uart_pc'[q] = uart_pc[q] /\ data'[q] = data[q]
         /\ rcv_bytes'[q] = rcv_bytes[q] /\ waits'[q] = waits[q]
  PROVE  UartCall(q)'
<1>0. MaxSize \in Nat \ {0} /\ MaxBytes \in Nat
  BY DriversAssumption DEF Uart!ConstantsOK
<1>1. data[q][1] \in Nat /\ head \in Nat /\ head' \in Nat
  BY <1>0 DEF UartTypes, Uart!TypeOK, Uart!Buffer
<1> QED BY <1>1 DEF UartCall

LEMMA UartReturn ==
  ASSUME UartInv, NEW r \in Tasks, Uart!Return(r),
         UNCHANGED <<installed, tail, block_time>>, head' = head
  PROVE  UartInv'
<1>0. Capacity \in Nat \ {0} /\ MaxSize \in Nat \ {0} /\ MaxBytes \in Nat
  BY DriversAssumption DEF Uart!ConstantsOK
<1>1. UartTypes'
  BY <1>0 DEF UartInv, UartTypes, Uart!TypeOK, Uart!Return, Uart!GoTo,
     Uart!Buffer, Uart!Unwritten
<1>2. UartCall(r)'
  BY <1>0 DEF UartInv, UartTypes, Uart!TypeOK, Uart!Return, Uart!GoTo,
     Uart!Unwritten, UartCall
<1>3. ASSUME NEW q \in Tasks, q # r PROVE UartCall(q)'
  BY <1>1, <1>3, UartOthers DEF UartInv, UartTypes, Uart!TypeOK, Uart!Return,
     Uart!GoTo
<1> QED BY <1>1, <1>2, <1>3 DEF UartInv

LEMMA UartNext == UartInv /\ [Next]_vars => UartInv'
<1> SUFFICES ASSUME UartInv, [Uart!Next]_uartVars PROVE UartInv'
  BY EachSteps
<1>0. Capacity \in Nat \ {0} /\ MaxSize \in Nat \ {0} /\ MaxBytes \in Nat
  BY DriversAssumption DEF Uart!ConstantsOK
<1>a. UartTypes /\ \A r \in Tasks : UartCall(r)
  BY DEF UartInv
<1>1. CASE UNCHANGED uartVars
  BY <1>1 DEF UartInv, UartCall, UartTypes, Uart!TypeOK, uartVars
<1>2. CASE \/ Uart!Arrive \/ Uart!UartHostDevInit
           \/ Uart!UartHostDevDeinit \/ Uart!UartHostDevSetTransMode
  <2>1. UartTypes' /\ head' >= head
    <3>1. CASE Uart!Arrive
      BY <1>0, <1>a, <3>1 DEF UartTypes, Uart!TypeOK, Uart!Arrive, Uart!readVars
    <3>2. CASE Uart!UartHostDevInit
      <4>1. installed' \in BOOLEAN /\ head' = head /\ tail' = tail
            /\ block_time' = block_time /\ UNCHANGED Uart!readVars
        BY <1>a, <3>2 DEF UartTypes, Uart!TypeOK, Uart!UartHostDevInit,
           Uart!fifoVars
      <4> QED BY <1>a, <4>1 DEF UartTypes, Uart!TypeOK, Uart!readVars
    <3>3. CASE Uart!UartHostDevDeinit
      <4>1. /\ installed' = FALSE /\ head' = tail /\ tail' = tail
            /\ block_time' = block_time /\ UNCHANGED Uart!readVars
        BY <3>3 DEF Uart!UartHostDevDeinit
      <4>2. /\ tail' - head' <= Capacity /\ head' \in 0 .. MaxBytes
            /\ head' >= head /\ tail' \in head' .. MaxBytes
        BY <1>0, <1>a, <4>1 DEF UartTypes, Uart!TypeOK
      <4> QED BY <1>0, <1>a, <4>1, <4>2 DEF UartTypes, Uart!TypeOK,
            Uart!readVars
    <3>4. CASE Uart!UartHostDevSetTransMode
      BY <1>a, <3>4 DEF UartTypes, Uart!TypeOK, Uart!UartHostDevSetTransMode,
         Uart!fifoVars, Uart!readVars
    <3> QED BY <1>2, <3>1, <3>2, <3>3, <3>4
  <2>2. UNCHANGED Uart!readVars
    BY <1>2 DEF Uart!Arrive, Uart!UartHostDevInit, Uart!UartHostDevDeinit,
       Uart!UartHostDevSetTransMode
  <2>3. ASSUME NEW q \in Tasks PROVE UartCall(q)'
    BY <1>a, <2>1, <2>2, UartOthers DEF Uart!readVars
  <2> QED BY <2>1, <2>3 DEF UartInv
<1>3. ASSUME NEW r \in Tasks, Uart!Call(r) PROVE UartInv'
  <2>0. PICK n \in 1 .. MaxSize : size' = [size EXCEPT ![r] = n]
    BY <1>3 DEF Uart!Call
  <2>a. /\ UNCHANGED <<installed, head, tail, block_time, data, rcv_bytes>>
        /\ waits' = [waits EXCEPT ![r] = block_time]
        /\ uart_pc[r] = "idle" /\ uart_pc' = [uart_pc EXCEPT ![r] = "first"]
    BY <1>3 DEF Uart!Call, Uart!fifoVars, Uart!GoTo
  <2>b. rcv_bytes[r] = 0
    BY <1>a, <2>a DEF UartCall
  <2>c. size' \in [Tasks -> 1 .. MaxSize]
          /\ waits' \in [Tasks -> {0, Uart!Forever}]
    BY <1>a, <2>0, <2>a DEF UartTypes, Uart!TypeOK
  <2>d. \A q \in Tasks : rcv_bytes[q] \in 0 .. size'[q]
    BY <1>0, <1>a, <2>0, <2>b DEF UartTypes, Uart!TypeOK
  <2>1. UartTypes' /\ head' >= head
    BY <1>0, <1>a, <2>a, <2>c, <2>d DEF UartTypes, Uart!TypeOK
  <2>2. UartCall(r)'
    BY <1>a, <1>3 DEF UartCall, UartTypes, Uart!TypeOK, Uart!Call, Uart!GoTo
  <2>3. ASSUME NEW q \in Tasks, q # r PROVE UartCall(q)'
    BY <1>a, <1>3, <2>1, <2>3, UartOthers DEF UartTypes, Uart!TypeOK, Uart!Call,
       Uart!GoTo
  <2> QED BY <2>1, <2>2, <2>3 DEF UartInv
<1>4. ASSUME NEW r \in Tasks, Uart!ReadFirst(r) PROVE UartInv'
  <2>1. CASE ~installed /\ Uart!Return(r) /\ UNCHANGED head
    BY <1>4, <2>1, UartReturn DEF Uart!ReadFirst
  <2>2. CASE /\ head < tail /\ head' = head + 1
             /\ data' = [data EXCEPT ![r][1] = head + 1]
             /\ rcv_bytes' = [rcv_bytes EXCEPT ![r] = 1]
             /\ Uart!GoTo(r, "look") /\ UNCHANGED <<size, waits>>
    <3>1. head + 1 \in 1 .. MaxBytes /\ head' >= head
      BY <1>0, <1>a, <2>2 DEF UartTypes, Uart!TypeOK
    <3>2. data' \in [Tasks -> Uart!Buffer]
      BY <1>0, <1>a, <2>2, <3>1 DEF UartTypes, Uart!TypeOK, Uart!Buffer
    <3>3. UartTypes'
      BY <1>0, <1>4, <1>a, <2>2, <3>1, <3>2 DEF UartTypes, Uart!TypeOK,
         Uart!ReadFirst, Uart!GoTo
    <3>4. /\ data'[r][1] = head + 1
          /\ \A i \in 2 .. MaxSize : data'[r][i] = data[r][i]
      BY <1>0, <1>a, <2>2 DEF UartTypes, Uart!TypeOK, Uart!Buffer
    <3>5. /\ uart_pc[r] = "first" /\ uart_pc'[r] = "look" /\ rcv_bytes'[r] = 1
      BY <1>4, <1>a, <2>2 DEF UartTypes, Uart!TypeOK, Uart!ReadFirst, Uart!GoTo
    <3>6. UartCall(r)'
      BY <1>0, <1>a, <2>2, <3>1, <3>4, <3>5 DEF UartCall
    <3>7. ASSUME NEW q \in Tasks, q # r PROVE UartCall(q)'
      BY <1>a, <2>2, <3>1, <3>3, <3>7, UartOthers DEF UartTypes, Uart!TypeOK,
         Uart!GoTo
    <3> QED BY <3>3, <3>6, <3>7 DEF UartInv
  <2>3. CASE /\ waits[r] = 0 /\ Uart!GoTo(r, "look")
             /\ UNCHANGED <<head, size, data, rcv_bytes, waits>>
    <3>1. UartTypes' /\ head' >= head
      BY <1>4, <1>a, <2>3 DEF UartTypes, Uart!TypeOK, Uart!ReadFirst, Uart!GoTo
    <3>2. UartCall(r)'
      BY <1>0, <1>4, <1>a, <2>3 DEF UartCall, UartTypes, Uart!TypeOK,
         Uart!ReadFirst, Uart!GoTo
    <3>3. ASSUME NEW q \in Tasks, q # r PROVE UartCall(q)'
      BY <1>a, <2>3, <3>1, <3>3, UartOthers DEF UartTypes, Uart!TypeOK,
         Uart!GoTo
    <3> QED BY <3>1, <3>2, <3>3 DEF UartInv
  <2> QED BY <1>4, <2>1, <2>2, <2>3 DEF Uart!ReadFirst
<1>5. ASSUME NEW r \in Tasks, Uart!LookAtLength(r) PROVE UartInv'
  <2>1. UartTypes' /\ head' >= head
    BY <1>0, <1>5, <1>a DEF UartTypes, Uart!TypeOK, Uart!LookAtLength,
       Uart!GoTo, Uart!fifoVars
  <2>2. /\ uart_pc[r] = "look" /\ uart_pc'[r] \in {"rest", "done"}
        /\ UNCHANGED <<head, data, rcv_bytes, waits>>
    BY <1>5, <1>a DEF UartTypes, Uart!TypeOK, Uart!LookAtLength, Uart!GoTo,
       Uart!fifoVars
  <2>3. /\ \A i \in 2 .. MaxSize : data[r][i] = 0
        /\ rcv_bytes[r] = IF data[r][1] = 0 THEN 0 ELSE 1
        /\ data[r][1] = 0 => waits[r] = 0
        /\ data[r][1] <= head
    BY <1>a, <2>2 DEF UartCall
  <2>4. UartCall(r)'
    BY <1>0, <2>2, <2>3 DEF UartCall
  <2>5. ASSUME NEW q \in Tasks, q # r PROVE UartCall(q)'
    BY <1>5, <1>a, <2>1, <2>5, UartOthers DEF UartTypes, Uart!TypeOK,
       Uart!LookAtLength, Uart!GoTo
  <2> QED BY <2>1, <2>4, <2>5 DEF UartInv
<1>6. ASSUME NEW r \in Tasks, Uart!ReadRest(r) PROVE UartInv'
  <2>1. CASE ~installed /\ Uart!Return(r) /\ UNCHANGED head
    BY <1>6, <2>1, UartReturn DEF Uart!ReadRest
  <2>2. CASE ~(~installed /\ Uart!Return(r) /\ UNCHANGED head)
    <3> DEFINE k == Uart!Least(size[r] - 1, tail - head)
    <3>1. /\ head' = head + k
          /\ data' = [data EXCEPT ![r] = [i \in 1 .. MaxSize |->
                        IF i \in 2 .. k + 1 THEN head + i - 1 ELSE @[i]]]
          /\ rcv_bytes' = [rcv_bytes EXCEPT ![r] = @ + k]
          /\ Uart!GoTo(r, "done") /\ UNCHANGED <<size, waits>>
          /\ uart_pc[r] = "rest" /\ UNCHANGED <<installed, tail, block_time>>
      BY <1>6, <2>2 DEF Uart!ReadRest
    <3>2. k \in Nat /\ k <= size[r] - 1 /\ head + k <= tail
      BY <1>0, <1>a DEF Uart!Least, UartTypes, Uart!TypeOK
    <3> HIDE DEF k
    <3>3. /\ data[r][1] <= head /\ \A i \in 2 .. MaxSize : data[r][i] = 0
          /\ rcv_bytes[r] = IF data[r][1] = 0 THEN 0 ELSE 1
          /\ data[r][1] = 0 => waits[r] = 0
      BY <1>a, <3>1 DEF UartCall
    <3>4. /\ size[r] \in 1 .. MaxSize /\ head \in Nat /\ tail \in Nat
          /\ tail <= MaxBytes /\ data[r] \in Uart!Buffer
          /\ data[r][1] \in 0 .. MaxBytes
      BY <1>0, <1>a DEF UartTypes, Uart!TypeOK, Uart!Buffer
    <3>5. /\ data'[r] = [i \in 1 .. MaxSize |->
                          IF i \in 2 .. k + 1 THEN head + i - 1 ELSE data[r][i]]
          /\ rcv_bytes'[r] = rcv_bytes[r] + k /\ uart_pc'[r] = "done"
          /\ waits'[r] = waits[r]
      BY <1>a, <3>1 DEF UartTypes, Uart!TypeOK, Uart!GoTo
    <3>6. data'[r] \in Uart!Buffer
      <4>1. \A i \in 1 .. MaxSize : data[r][i] \in 0 .. MaxBytes
        BY <3>4 DEF Uart!Buffer
      <4>2. \A i \in 2 .. k + 1 : head + i - 1 \in 0 .. MaxBytes
        BY <1>0, <3>2, <3>4
      <4> QED BY <3>5, <4>1, <4>2 DEF Uart!Buffer
    <3>7. data' \in [Tasks -> Uart!Buffer]
      BY <1>a, <3>1, <3>5, <3>6 DEF UartTypes, Uart!TypeOK
    <3>8. rcv_bytes'[r] \in 0 .. size[r]
      BY <3>2, <3>3, <3>4, <3>5
    <3>9. UartTypes' /\ head' >= head
      <4>1. /\ head' \in 0 .. MaxBytes /\ tail' \in head' .. MaxBytes
            /\ tail' - head' <= Capacity /\ head' >= head
        BY <1>0, <1>a, <3>1, <3>2, <3>4 DEF UartTypes, Uart!TypeOK
      <4>2. rcv_bytes' \in [Tasks -> Nat]
        BY <1>a, <3>1, <3>2 DEF UartTypes
      <4>3. \A q \in Tasks : rcv_bytes'[q] \in 0 .. size'[q]
        BY <1>a, <3>1, <3>8 DEF UartTypes, Uart!TypeOK
      <4>4. uart_pc' \in [Tasks -> {"idle", "first", "look", "rest", "done"}]
        BY <1>a, <3>1 DEF UartTypes, Uart!TypeOK, Uart!GoTo
      <4> QED BY <1>a, <3>1, <3>7, <4>1, <4>2, <4>3, <4>4 DEF UartTypes,
            Uart!TypeOK
    <3>10. /\ data'[r][1] = data[r][1]
           /\ \A i \in 2 .. MaxSize :
                data'[r][i] = IF i <= k + 1 THEN head + i - 1 ELSE 0
      BY <1>0, <3>2, <3>3, <3>5
    <3>11. UartCall(r)'
      <4>1. data'[r][1] = 0 => waits'[r] = 0
        BY <3>3, <3>5, <3>10
      <4>2. ASSUME data'[r][1] # 0, NEW i \in 1 .. MaxSize
            PROVE  data'[r][i] # 0 <=> i <= rcv_bytes'[r]
        <5>1. rcv_bytes'[r] = k + 1
          BY <3>2, <3>3, <3>5, <3>10, <4>2
        <5>2. CASE i = 1
          BY <3>2, <4>2, <5>1, <5>2
        <5>3. CASE i \in 2 .. MaxSize
          BY <3>2, <3>4, <3>10, <5>1, <5>3
        <5> QED BY <1>0, <5>2, <5>3
      <4>3. ASSUME NEW i \in 1 .. MaxSize, NEW j \in 1 .. MaxSize, i < j,
                   data'[r][j] # 0
            PROVE  data'[r][i] < data'[r][j]
        <5>1. j \in 2 .. MaxSize /\ j <= k + 1 /\ data'[r][j] = head + j - 1
          BY <1>0, <3>10, <4>3
        <5>2. CASE i = 1
          BY <3>3, <3>4, <3>10, <5>1, <5>2
        <5>3. CASE i \in 2 .. MaxSize
          <6>1. data'[r][i] = head + i - 1
            BY <3>2, <3>10, <4>3, <5>1, <5>3
          <6> QED BY <3>4, <4>3, <5>1, <6>1
        <5> QED BY <1>0, <5>2, <5>3
      <4> QED BY <3>5, <4>1, <4>2, <4>3 DEF UartCall
    <3>12. ASSUME NEW q \in Tasks, q # r PROVE UartCall(q)'
      BY <1>a, <3>1, <3>9, <3>12, UartOthers DEF UartTypes, Uart!TypeOK,
         Uart!GoTo
    <3> QED BY <3>9, <3>11, <3>12 DEF UartInv
  <2> QED BY <2>1, <2>2
<1>7. ASSUME NEW r \in Tasks, Uart!ReadReturns(r) PROVE UartInv'
  BY <1>7, UartReturn DEF Uart!ReadReturns, Uart!fifoVars
<1> QED
  BY <1>1, <1>2, <1>3, <1>4, <1>5, <1>6, <1>7 DEF Uart!Next,
     Uart!UartHostDevRead

LEMMA UartReturns == UartInv => Uart!ReturnsWhatItTook
<1> SUFFICES ASSUME UartInv, NEW r \in Tasks, uart_pc[r] = "done"
             PROVE  /\ \/ Uart!Presented(r) = Uart!Taken(r)
                       \/ data[r][1] = Uart!Unwritten /\ waits[r] = 0
                    /\ \A i, j \in 1 .. MaxSize :
                         i < j /\ data[r][j] # Uart!Unwritten
                           => data[r][i] < data[r][j]
  BY DEF Uart!ReturnsWhatItTook
<1>0. MaxSize \in Nat \ {0} /\ Uart!Unwritten = 0
  BY DriversAssumption DEF Uart!ConstantsOK, Uart!Unwritten
<1>1. UartCall(r) /\ rcv_bytes[r] \in 0 .. MaxSize
  BY <1>0 DEF UartInv, UartTypes, Uart!TypeOK
<1>2. CASE data[r][1] = 0
  BY <1>0, <1>1, <1>2 DEF UartCall
<1>3. CASE data[r][1] # 0
  <2>1. \A i \in 1 .. MaxSize : data[r][i] # 0 <=> i <= rcv_bytes[r]
    BY <1>1, <1>3 DEF UartCall
  <2>2. \A i \in 1 .. MaxSize : i \in 1 .. rcv_bytes[r] <=> data[r][i] # 0
    BY <1>0, <1>1, <2>1
  <2>3. \A i \in 1 .. rcv_bytes[r] : i \in 1 .. MaxSize
    BY <1>0, <1>1
  <2>4. Uart!Presented(r) = Uart!Taken(r)
    BY <1>0, <2>2, <2>3, Zenon DEF Uart!Presented, Uart!Taken
  <2> QED BY <1>0, <1>1, <2>4 DEF UartCall
<1> QED BY <1>2, <1>3

-----------------------------------------------------------------------------
(* UartSettings *)

LinePriv == [baudrate : Int, data_bits : Int, parity : Int, stop_bits : Int]
LineParity == {"none", "even", "odd", "mark", "space"}
LineAttr == [baudrate : Int, dataBits : Int, parity : LineParity,
             stopBits : Int]
LineWant == LineAttr \cup {Line!NULL, Line!Unknown}
LineSet == [op : {"set"}, host : Hosts, at : 1..3, attr : Settings,
            want : LineWant]
LineOpen == [op : {"open"}, host : Hosts, baudrate : Int, read : Seq(Int),
             want : LineWant]
LineInstall == [op : {"install"}, host : Hosts]

LineTypes ==
  /\ num \in [Hosts -> UartPorts]
  /\ priv \in [Hosts -> LinePriv \cup {Line!NULL}]
  /\ line_asked \in [Hosts -> LineWant]
  /\ line_call
       \in [Tasks -> {Line!Out} \cup LineSet \cup LineOpen \cup LineInstall]
  /\ \A t \in Tasks : line_call[t].op = "open" => Len(line_call[t].read) <= 3

\* A host with a node keeps the number of its port, and one that a call is for
\* is neither released nor new.
LineHosts ==
  /\ \A h \in served : HostNode[h] # Line!NoNode => num[h] = Line!Port(h)
  /\ \A t \in Tasks : line_call[t] # Line!Out =>
       line_call[t].host \in served /\ priv[line_call[t].host] # Line!NULL
  /\ \A h \in Hosts : priv[h] # Line!NULL => line_asked[h] # Line!NULL

\* The i-th field of a record of settings, and what attr brings to it.
LineField(s, i) ==
  CASE i = 1 -> s.data_bits [] i = 2 -> s.parity [] i = 3 -> s.stop_bits
LineBrought(attr, i) ==
  CASE i = 1 -> 3 - attr.dataBits [] i = 2 -> Line!ParityOf[attr.parity]
    [] i = 3 -> 1 + attr.stopBits

\* A set whose request still has a meaning is alone, and what it has stored is
\* what it was asked for.
LineSetOrder(t) ==
  LET c == line_call[t] IN
  c.op = "set" /\ c.want # Line!Unknown =>
    /\ c.want = c.attr
    /\ \A u \in Tasks \ {t} :
         line_call[u].op = "set" => line_call[u].host # c.host
    /\ \A i \in 1..3 : i < c.at =>
         LineField(priv[c.host], i) = LineBrought(c.attr, i)

\* An open that knows what it brings meets no set, and finds it in the fields
\* it has read and in those it has still to read.
LineSeen(c, i) ==
  IF i <= Len(c.read) THEN c.read[i] ELSE LineField(priv[c.host], i)
LineOpenOrder(t) ==
  LET c == line_call[t] IN
  c.op = "open" /\ c.want # Line!Unknown =>
    /\ ~Line!Within("set", c.host)
    /\ Line!WireOf(c.want) =
         [baud |-> c.baudrate, bits |-> 5 + LineSeen(c, 1),
          parity |-> LineSeen(c, 2), halves |-> LineSeen(c, 3) + 1]

\* The three parts of LineIsAsked.
LineReport(h) ==
  priv[h] # Line!NULL /\ line_asked[h] # Line!Unknown /\ ~Line!Within("set", h)
    => Line!Reported(h) = Line!WireOf(line_asked[h])
LineWire(p) ==
  line[p] # Line!Reset /\ line_wanted[p] # Line!Unknown
    => line[p] = Line!WireOf(line_wanted[p])
LineReach ==
  /\ line = [p \in UartPorts |-> line[p]]
  /\ line_wanted = [p \in UartPorts |-> line_wanted[p]]
  /\ \A pair \in reached :
       HostNode[pair[1]] # Line!NoNode => pair[2] = Line!Port(pair[1])

LineInv ==
  /\ LineTypes /\ LineHosts
  /\ \A t \in Tasks : LineSetOrder(t) /\ LineOpenOrder(t)
  /\ \A h \in Hosts : LineReport(h)
  /\ \A p \in UartPorts : LineWire(p)
  /\ LineReach

LEMMA LineConstants ==
  /\ Openers \subseteq Tasks /\ 0 \in UartPorts /\ Bauds \subseteq Int
  /\ Settings \subseteq LineAttr
  /\ \A h \in Hosts : HostNode[h] # Line!NoNode =>
       HostNode[h].uart_port \in UartPorts /\ HostNode[h].baudrate \in Int
<1>1. [baudrate : Nat, dataBits : 0..4,
       parity : {"none", "even", "odd", "mark", "space"}, stopBits : 0..2]
        \subseteq LineAttr
  BY DEF LineAttr, LineParity
<1> QED BY <1>1, DriversAssumption DEF Line!ConstantsOK, Line!NoNode

\* Storing a field of the settings s.
LEMMA LineStored ==
  ASSUME NEW s \in LinePriv, NEW k \in 1..3, NEW v \in Int
  PROVE  LET r == [s EXCEPT ![Line!Fields[k]] = v]
         IN  /\ r \in LinePriv /\ r.baudrate = s.baudrate
             /\ LineField(r, k) = v
             /\ \A i \in 1..3 \ {k} : LineField(r, i) = LineField(s, i)
<1>1. CASE k = 1
  <2>1. Line!Fields[k] = "data_bits"
    BY <1>1 DEF Line!Fields
  <2> QED BY <1>1, <2>1 DEF LinePriv, LineField
<1>2. CASE k = 2
  <2>1. Line!Fields[k] = "parity"
    BY <1>2 DEF Line!Fields
  <2> QED BY <1>2, <2>1 DEF LinePriv, LineField
<1>3. CASE k = 3
  <2>1. Line!Fields[k] = "stop_bits"
    BY <1>3 DEF Line!Fields
  <2> QED BY <1>3, <2>1 DEF LinePriv, LineField
<1>4. k = 1 \/ k = 2 \/ k = 3
  OBVIOUS
<1> QED BY <1>1, <1>2, <1>3, <1>4, Zenon

\* What a set stores next.
LEMMA LineConverted ==
  ASSUME NEW c \in LineSet,
         Line!Fields[c.at] = "parity" => c.attr.parity \in DOMAIN Line!ParityOf
  PROVE  /\ Line!Converted(c) = LineBrought(c.attr, c.at)
         /\ Line!Converted(c) \in Int
<1>0. c.attr \in LineAttr /\ c.at \in 1..3
  BY LineConstants DEF LineSet
<1>1. CASE c.at = 1
  <2>1. Line!Fields[c.at] = "data_bits"
    BY <1>1 DEF Line!Fields
  <2> QED BY <1>0, <1>1, <2>1 DEF Line!Converted, LineBrought,
        Line!OH_ESP_DATABITS_EX, LineAttr
<1>2. CASE c.at = 2
  <2>1. Line!Fields[c.at] = "parity"
    BY <1>2 DEF Line!Fields
  <2>2. Line!Converted(c) = Line!ParityOf[c.attr.parity]
    BY <2>1 DEF Line!Converted
  <2>3. c.attr.parity \in {"none", "even", "odd"}
    BY <2>1 DEF Line!ParityOf
  <2>4. Line!ParityOf[c.attr.parity] \in Int
    BY <2>3 DEF Line!ParityOf
  <2> QED BY <1>2, <2>2, <2>4 DEF LineBrought
<1>3. CASE c.at = 3
  <2>1. Line!Fields[c.at] = "stop_bits"
    BY <1>3 DEF Line!Fields
  <2> QED BY <1>0, <1>3, <2>1 DEF Line!Converted, LineBrought,
        Line!OH2ESP_STOPBITS, LineAttr
<1> QED BY <1>0, <1>1, <1>2, <1>3

\* A host reports what attr was once all three fields are stored.
LEMMA LineRoundTrip ==
  ASSUME NEW s \in LinePriv, NEW a \in LineAttr, a.baudrate = s.baudrate,
         \A i \in 1..3 : LineField(s, i) = LineBrought(a, i)
  PROVE  Line!WireOf(a) =
           [baud |-> s.baudrate,
            bits |-> 8 - Line!OH_ESP_DATABITS_EX(s.data_bits),
            parity |-> s.parity, halves |-> (s.stop_bits - 1) + 2]
<1>1. /\ s.data_bits = 3 - a.dataBits /\ s.parity = Line!ParityOf[a.parity]
      /\ s.stop_bits = 1 + a.stopBits
  BY DEF LineField, LineBrought
<1> QED BY <1>1 DEF Line!WireOf, Line!OH_ESP_DATABITS_EX, LineAttr

\* The settings of a node, and what it has in mind.
LEMMA LineNode ==
  ASSUME NEW node, node.baudrate \in Int
  PROVE  LET s == [baudrate |-> node.baudrate,
                   data_bits |-> Line!GetWordLengthFromStr(node.data_bits),
                   parity |-> Line!GetParityFromStr(node.parity),
                   stop_bits |-> Line!GetStopBitsFromStr(node.stop_bits)]
         IN  /\ s \in LinePriv /\ Line!Meant(node) \in LineAttr
             /\ Line!Meant(node).baudrate = s.baudrate
             /\ \A i \in 1..3 :
                  LineField(s, i) = LineBrought(Line!Meant(node), i)
<1> DEFINE s == [baudrate |-> node.baudrate,
                 data_bits |-> Line!GetWordLengthFromStr(node.data_bits),
                 parity |-> Line!GetParityFromStr(node.parity),
                 stop_bits |-> Line!GetStopBitsFromStr(node.stop_bits)]
           m == Line!Meant(node)
<1>1. s \in LinePriv
  BY DEF LinePriv, Line!GetWordLengthFromStr, Line!GetParityFromStr,
     Line!GetStopBitsFromStr
<1>2. m.dataBits \in Int /\ s.data_bits = 3 - m.dataBits
  BY DEF Line!Meant, Line!GetWordLengthFromStr
<1>3. m.parity \in LineParity /\ s.parity = Line!ParityOf[m.parity]
  <2> DEFINE names == [UART_PARITY_EVEN |-> "even", UART_PARITY_ODD |-> "odd"]
  <2>0. m.parity = IF node.parity \in DOMAIN names THEN names[node.parity]
                   ELSE "none"
    BY DEF Line!Meant
  <2>1. /\ Line!ParityOf["none"] = 0 /\ Line!ParityOf["even"] = 2
        /\ Line!ParityOf["odd"] = 3
    BY DEF Line!ParityOf
  <2>2. m.parity = CASE node.parity = "UART_PARITY_EVEN" -> "even"
                     [] node.parity = "UART_PARITY_ODD" -> "odd"
                     [] OTHER -> "none"
    BY <2>0
  <2> HIDE DEF m
  <2> QED BY <2>1, <2>2 DEF Line!GetParityFromStr, LineParity
<1>4. m.stopBits \in Int /\ s.stop_bits = 1 + m.stopBits
  BY DEF Line!Meant, Line!GetStopBitsFromStr
<1>5. m \in LineAttr /\ m.baudrate = s.baudrate
  BY <1>2, <1>3, <1>4 DEF Line!Meant, LineAttr
<1>6. \A i \in 1..3 : LineField(s, i) = LineBrought(m, i)
  BY <1>2, <1>3, <1>4 DEF LineField, LineBrought
<1> QED BY <1>1, <1>5, <1>6

LEMMA LineInit == Init => LineInv
<1> SUFFICES ASSUME Line!Init PROVE LineInv
  BY DEF Init
<1> USE DEF Line!Init
<1>1. LineTypes
  BY LineConstants DEF LineTypes, LineWant, Line!Out
<1>2. LineHosts
  BY DEF LineHosts
<1>3. ASSUME NEW t \in Tasks PROVE LineSetOrder(t) /\ LineOpenOrder(t)
  BY DEF LineSetOrder, LineOpenOrder, Line!Out
<1>4. ASSUME NEW h \in Hosts PROVE LineReport(h)
  BY DEF LineReport
<1>5. ASSUME NEW p \in UartPorts PROVE LineWire(p)
  BY DEF LineWire
<1> QED BY <1>1, <1>2, <1>3, <1>4, <1>5 DEF LineInv, LineReach

\* A step that leaves the hosts and the calls alone.
LEMMA LineCallsStay ==
  ASSUME LineInv, UNCHANGED <<served, num, priv, line_call, line_asked>>
  PROVE  /\ LineTypes' /\ LineHosts'
         /\ \A t \in Tasks : LineSetOrder(t)' /\ LineOpenOrder(t)'
         /\ \A h \in Hosts : LineReport(h)'
<1>0. \A h \in Hosts : Line!Within("set", h)' <=> Line!Within("set", h)
  BY DEF Line!Within
<1>1. LineTypes'
  BY DEF LineInv, LineTypes
<1>2. LineHosts'
  BY DEF LineInv, LineHosts, Line!Port
<1>3. ASSUME NEW t \in Tasks PROVE LineSetOrder(t)' /\ LineOpenOrder(t)'
  <2>1. LineSetOrder(t)'
    BY DEF LineInv, LineSetOrder
  <2>2. LineOpenOrder(t)'
    BY DEF LineInv, LineOpenOrder, LineSeen, Line!Within
  <2> QED BY <2>1, <2>2
<1>4. ASSUME NEW h \in Hosts PROVE LineReport(h)'
  BY <1>0 DEF LineInv, LineReport, Line!Reported
<1> QED BY <1>1, <1>2, <1>3, <1>4

\* The calls, by their kind.
LEMMA LineKinds ==
  ASSUME LineTypes, NEW t \in Tasks
  PROVE  /\ line_call[t].op = "set" => line_call[t] \in LineSet
         /\ line_call[t].op = "open" => line_call[t] \in LineOpen
         /\ line_call[t].op = "install" => line_call[t] \in LineInstall
         /\ line_call[t].op \in {"set", "open", "install"} =>
              line_call[t] # Line!Out
         /\ line_call[t] # Line!Out =>
              /\ line_call[t].op \in {"set", "open", "install"}
              /\ line_call[t].host \in Hosts
<1>1. line_call[t] \in {Line!Out} \cup LineSet \cup LineOpen \cup LineInstall
  BY DEF LineTypes
<1>2. Line!Out.op = "none"
  BY DEF Line!Out
<1> QED BY <1>1, <1>2 DEF LineSet, LineOpen, LineInstall

LEMMA LineDriverInit ==
  ASSUME LineInv, NEW h \in Hosts, Line!UartDriverInit(h)
  PROVE  LineInv'
<1>0. /\ h \notin served /\ served' = served \cup {h}
      /\ UNCHANGED <<line, line_installed, line_call, line_wanted, reached>>
  BY DEF Line!UartDriverInit, Line!lineVars
<1>1. \A t \in Tasks : line_call[t] # Line!Out => line_call[t].host # h
  BY <1>0 DEF LineInv, LineHosts
<1>2. \A g \in Hosts : Line!Within("set", g)' <=> Line!Within("set", g)
  BY <1>0 DEF Line!Within
<1>3. (\A p \in UartPorts : LineWire(p)') /\ LineReach'
  BY <1>0, LineConstants DEF LineInv, LineWire, LineReach, Line!Port
<1>4. CASE HostNode[h] = Line!NoNode
  <2>1. UNCHANGED <<num, priv, line_asked>>
    BY <1>4 DEF Line!UartDriverInit
  <2>2. LineTypes' /\ LineHosts'
    BY <1>0, <1>4, <2>1 DEF LineInv, LineTypes, LineHosts, Line!Port
  <2>3. ASSUME NEW t \in Tasks PROVE LineSetOrder(t)' /\ LineOpenOrder(t)'
    BY <1>0, <2>1 DEF LineInv, LineSetOrder, LineOpenOrder, LineSeen,
       Line!Within
  <2>4. ASSUME NEW g \in Hosts PROVE LineReport(g)'
    BY <1>2, <2>1 DEF LineInv, LineReport, Line!Reported
  <2> QED BY <1>3, <2>2, <2>3, <2>4 DEF LineInv
<1>5. CASE HostNode[h] # Line!NoNode
  <2> DEFINE n == HostNode[h]
             s == [baudrate |-> n.baudrate,
                   data_bits |-> Line!GetWordLengthFromStr(n.data_bits),
                   parity |-> Line!GetParityFromStr(n.parity),
                   stop_bits |-> Line!GetStopBitsFromStr(n.stop_bits)]
             m == Line!Meant(n)
  <2>1. /\ priv' = [priv EXCEPT ![h] = s]
             /\ num' = [num EXCEPT ![h] = n.uart_port]
        /\ line_asked' = [line_asked EXCEPT ![h] = m]
    BY <1>5 DEF Line!UartDriverInit, Line!FindSource
  <2>2. /\ s \in LinePriv /\ m \in LineAttr /\ m.baudrate = s.baudrate
        /\ \A i \in 1..3 : LineField(s, i) = LineBrought(m, i)
    BY <1>5, LineConstants, LineNode
  <2>3. n.uart_port \in UartPorts /\ n.uart_port = Line!Port(h)
    BY <1>5, LineConstants DEF Line!Port
  <2>4. m # Line!NULL
    BY <2>2 DEF LineAttr, Line!NULL
  <2> HIDE DEF s, m, n
  <2>5. /\ priv'[h] = s /\ num'[h] = n.uart_port /\ line_asked'[h] = m
        /\ \A g \in Hosts \ {h} : /\ priv'[g] = priv[g] /\ num'[g] = num[g]
                                  /\ line_asked'[g] = line_asked[g]
        /\ LineTypes'
    BY <1>0, <2>1, <2>2, <2>3 DEF LineInv, LineTypes, LineWant
  <2>6. LineHosts'
    <3>1. \A g \in served' : HostNode[g] # Line!NoNode => num'[g] = Line!Port(g)
      BY <1>0, <2>1, <2>3, <2>5 DEF LineInv, LineHosts, LineTypes
    <3>2. \A t \in Tasks : line_call'[t] # Line!Out =>
            line_call'[t].host \in served'
              /\ priv'[line_call'[t].host] # Line!NULL
      BY <1>0, <1>1, <2>5, LineKinds DEF LineInv, LineHosts
    <3>3. \A g \in Hosts : priv'[g] # Line!NULL => line_asked'[g] # Line!NULL
      BY <2>4, <2>5 DEF LineInv, LineHosts
    <3> QED BY <3>1, <3>2, <3>3 DEF LineHosts, Line!Port
  <2>7. ASSUME NEW t \in Tasks PROVE LineSetOrder(t)' /\ LineOpenOrder(t)'
    <3>1. line_call[t] # Line!Out
            => priv'[line_call[t].host] = priv[line_call[t].host]
      BY <1>1, <2>5, LineKinds DEF LineInv
    <3>2. line_call[t].op \in {"set", "open"} => line_call[t] # Line!Out
      BY LineKinds DEF LineInv
    <3>3. LineSetOrder(t)'
      BY <1>0, <3>1, <3>2 DEF LineInv, LineSetOrder
    <3>4. LineOpenOrder(t)'
      BY <1>0, <3>1, <3>2 DEF LineInv, LineOpenOrder, LineSeen, Line!Within
    <3> QED BY <3>3, <3>4
  <2>8. ASSUME NEW g \in Hosts PROVE LineReport(g)'
    <3>1. CASE g = h
      <4>1. Line!Reported(h)' = Line!WireOf(m)
        BY <2>2, <2>5, LineRoundTrip DEF Line!Reported
      <4> QED BY <2>5, <3>1, <4>1 DEF LineReport
    <3>2. CASE g # h
      BY <1>2, <2>5, <3>2 DEF LineInv, LineReport, Line!Reported
    <3> QED BY <3>1, <3>2
  <2> QED BY <1>3, <2>5, <2>6, <2>7, <2>8 DEF LineInv
<1> QED BY <1>4, <1>5

LEMMA LineRelease ==
  ASSUME LineInv, NEW h \in Hosts, Line!UartDriverRelease(h)
  PROVE  LineInv'
<1>0. /\ served' = served \ {h}
      /\ \A t \in Tasks : line_call[t] # Line!Out => line_call[t].host # h
      /\ priv' = [priv EXCEPT ![h] = Line!NULL] /\ num' = [num EXCEPT ![h] = 0]
      /\ UNCHANGED <<line, line_installed, line_call, line_asked, line_wanted,
                     reached>>
  BY DEF Line!UartDriverRelease, Line!lineVars, Line!history
<1>1. /\ priv'[h] = Line!NULL
      /\ \A g \in Hosts \ {h} : priv'[g] = priv[g] /\ num'[g] = num[g]
      /\ LineTypes'
  BY <1>0, LineConstants DEF LineInv, LineTypes
<1>2. \A g \in Hosts : Line!Within("set", g)' <=> Line!Within("set", g)
  BY <1>0 DEF Line!Within
<1>3. (\A p \in UartPorts : LineWire(p)') /\ LineReach'
  BY <1>0 DEF LineInv, LineWire, LineReach, Line!Port
<1>4. LineHosts'
  <2>1. \A g \in served' : HostNode[g] # Line!NoNode => num'[g] = Line!Port(g)
    BY <1>0 DEF LineInv, LineHosts, LineTypes
  <2>2. \A t \in Tasks : line_call'[t] # Line!Out =>
          line_call'[t].host \in served'
            /\ priv'[line_call'[t].host] # Line!NULL
    BY <1>0, <1>1, LineKinds DEF LineInv, LineHosts
  <2>3. \A g \in Hosts : priv'[g] # Line!NULL => line_asked'[g] # Line!NULL
    BY <1>0, <1>1 DEF LineInv, LineHosts
  <2> QED BY <2>1, <2>2, <2>3 DEF LineHosts, Line!Port
<1>5. ASSUME NEW t \in Tasks PROVE LineSetOrder(t)' /\ LineOpenOrder(t)'
  <2>1. line_call[t] # Line!Out
          => priv'[line_call[t].host] = priv[line_call[t].host]
    BY <1>0, <1>1, LineKinds DEF LineInv
  <2>2. line_call[t].op \in {"set", "open"} => line_call[t] # Line!Out
    BY LineKinds DEF LineInv
  <2>3. LineSetOrder(t)'
    BY <1>0, <2>1, <2>2 DEF LineInv, LineSetOrder
  <2>4. LineOpenOrder(t)'
    BY <1>0, <2>1, <2>2 DEF LineInv, LineOpenOrder, LineSeen, Line!Within
  <2> QED BY <2>3, <2>4
<1>6. ASSUME NEW g \in Hosts PROVE LineReport(g)'
  BY <1>0, <1>1, <1>2 DEF LineInv, LineReport, Line!Reported
<1> QED BY <1>1, <1>3, <1>4, <1>5, <1>6 DEF LineInv

LEMMA LineSetBaud ==
  ASSUME LineInv, NEW h \in Hosts, NEW b \in Bauds, Line!UartHostDevSetBaud(h,
  b)
  PROVE  LineInv'
<1>0. /\ h \in served /\ priv[h] # Line!NULL
      /\ priv' = [priv EXCEPT ![h] = [priv[h] EXCEPT !.baudrate = b]]
      /\ line_asked' = IF line_asked[h] = Line!Unknown THEN line_asked
           ELSE [line_asked EXCEPT ![h] = [line_asked[h] EXCEPT !.baudrate = b]]
      /\ UNCHANGED <<served, num, line, line_installed, line_call, line_wanted,
                     reached>>
  BY DEF Line!UartHostDevSetBaud, Line!lineVars
<1> DEFINE s == [priv[h] EXCEPT !.baudrate = b]
           a == [line_asked[h] EXCEPT !.baudrate = b]
<1>1. priv[h] \in LinePriv /\ b \in Int
  BY <1>0, LineConstants DEF LineInv, LineTypes
<1>2. /\ s \in LinePriv /\ s.baudrate = b
      /\ \A i \in 1..3 : LineField(s, i) = LineField(priv[h], i)
      /\ s # Line!NULL
  BY <1>1 DEF LinePriv, LineField, Line!NULL
<1>3. ASSUME line_asked[h] # Line!Unknown
      PROVE  /\ line_asked[h] \in LineAttr /\ a \in LineAttr /\ a # Line!NULL
             /\ a.baudrate = b /\ a.dataBits = line_asked[h].dataBits
             /\ a.parity = line_asked[h].parity
             /\ a.stopBits = line_asked[h].stopBits
  <2>1. line_asked[h] \in LineAttr
    BY <1>0, <1>3 DEF LineInv, LineTypes, LineHosts, LineWant
  <2> QED BY <1>1, <2>1 DEF LineAttr, Line!NULL
<1>4. /\ priv'[h] = s
      /\ \A g \in Hosts \ {h} : /\ priv'[g] = priv[g]
                                /\ line_asked'[g] = line_asked[g]
      /\ line_asked'[h] = IF line_asked[h] = Line!Unknown THEN Line!Unknown
           ELSE a
      /\ LineTypes'
  BY <1>0, <1>1, <1>2, <1>3 DEF LineInv, LineTypes, LineWant
<1> HIDE DEF s
<1>5. \A g \in Hosts, i \in 1..3 :
        LineField(priv'[g], i) = LineField(priv[g], i)
  BY <1>2, <1>4
<1>6. (\A p \in UartPorts : LineWire(p)') /\ LineReach'
  BY <1>0 DEF LineInv, LineWire, LineReach, Line!Port
<1>7. \A g \in Hosts : Line!Within("set", g)' <=> Line!Within("set", g)
  BY <1>0 DEF Line!Within
<1>8. LineHosts'
  <2>1. \A t \in Tasks : line_call'[t] # Line!Out =>
          line_call'[t].host \in served'
            /\ priv'[line_call'[t].host] # Line!NULL
    BY <1>0, <1>2, <1>4, LineKinds DEF LineInv, LineHosts
  <2>2. Line!Unknown # Line!NULL
    BY DEF Line!Unknown, Line!NULL
  <2>3. \A g \in Hosts : priv'[g] # Line!NULL => line_asked'[g] # Line!NULL
    BY <1>3, <1>4, <2>2 DEF LineInv, LineHosts
  <2> QED BY <1>0, <2>1, <2>3 DEF LineInv, LineHosts, Line!Port
<1>9. ASSUME NEW t \in Tasks PROVE LineSetOrder(t)' /\ LineOpenOrder(t)'
  <2>1. line_call[t].op \in {"set", "open"} => line_call[t].host \in Hosts
    BY LineKinds DEF LineInv
  <2>2. LineSetOrder(t)'
    BY <1>0, <1>5, <2>1 DEF LineInv, LineSetOrder
  <2>3. LineOpenOrder(t)'
    BY <1>0, <1>5, <2>1 DEF LineInv, LineOpenOrder, LineSeen, Line!Within
  <2> QED BY <2>2, <2>3
<1>10. ASSUME NEW g \in Hosts PROVE LineReport(g)'
  <2>1. CASE g = h
    <3>1. SUFFICES ASSUME line_asked[h] # Line!Unknown, ~Line!Within("set", h)
                   PROVE  Line!Reported(h)' = Line!WireOf(line_asked[h])'
      BY <1>4, <1>7, <2>1 DEF LineReport
    <3>2. Line!Reported(h) = Line!WireOf(line_asked[h])
      BY <1>0, <3>1 DEF LineInv, LineReport
    <3>3. /\ s.data_bits = priv[h].data_bits /\ s.parity = priv[h].parity
          /\ s.stop_bits = priv[h].stop_bits
      BY <1>1 DEF s, LinePriv
    <3> QED BY <1>2, <1>3, <1>4, <3>1, <3>2, <3>3 DEF Line!Reported, Line!WireOf
  <2>2. CASE g # h
    BY <1>4, <1>7, <2>2 DEF LineInv, LineReport, Line!Reported
  <2> QED BY <2>1, <2>2
<1> QED BY <1>4, <1>6, <1>8, <1>9, <1>10 DEF LineInv

\* The calls that a set overlaps with.
LEMMA LineBlur ==
  ASSUME NEW c \in LineSet \cup LineOpen
  PROVE  LET b == [c EXCEPT !.want = Line!Unknown]
         IN  /\ c \in LineSet => b \in LineSet /\ b.at = c.at
             /\ c \in LineOpen => b \in LineOpen /\ b.read = c.read
             /\ b.op = c.op /\ b.host = c.host /\ b.want = Line!Unknown
             /\ b # Line!Out
<1>1. Line!Unknown \in LineWant /\ Line!Out.op = "none"
  BY DEF LineWant, Line!Out
<1> QED BY <1>1 DEF LineSet, LineOpen

LEMMA LineSetAttribute ==
  ASSUME LineInv, NEW t \in Tasks, NEW h \in Hosts, NEW attribute \in Settings,
         Line!UartHostDevSetAttribute(t, h, attribute)
  PROVE  LineInv'
<1> DEFINE c == [op |-> "set", host |-> h, at |-> 1, attr |-> attribute,
                 want |-> IF Line!Within("set", h) THEN Line!Unknown
                          ELSE attribute]
           Blurred(u) == line_call[u].op \in {"set", "open"}
             /\ line_call[u].host = h
           Left(u) == IF Blurred(u)
             THEN [line_call[u] EXCEPT !.want = Line!Unknown]
                      ELSE line_call[u]
<1>0. /\ line_call[t] = Line!Out /\ h \in served /\ priv[h] # Line!NULL
      /\ line_call' = [u \in Tasks |-> IF u = t THEN c ELSE Left(u)]
      /\ UNCHANGED <<served, num, priv, line, line_installed, line_asked,
                     line_wanted, reached>>
  BY DEF Line!UartHostDevSetAttribute, Line!Enter, Line!lineVars, Line!history
<1>1. /\ c \in LineSet /\ c.op = "set" /\ c.host = h /\ c.at = 1
      /\ c.want # Line!Unknown => c.want = c.attr /\ ~Line!Within("set", h)
      /\ c # Line!Out
  BY LineConstants DEF LineSet, LineWant, Line!Out
<1> HIDE DEF c
<1>2. ASSUME NEW u \in Tasks
      PROVE  /\ Left(u) \in {Line!Out} \cup LineSet \cup LineOpen
                  \cup LineInstall
             /\ Left(u) = Line!Out <=> line_call[u] = Line!Out
             /\ Left(u).op = line_call[u].op
             /\ line_call[u] # Line!Out => Left(u).host = line_call[u].host
             /\ Blurred(u) => Left(u).want = Line!Unknown
             /\ ~Blurred(u) => Left(u) = line_call[u]
             /\ Left(u).op = "open" => Left(u).read = line_call[u].read
  <2>1. CASE Blurred(u)
    <3>1. line_call[u] \in LineSet \cup LineOpen
      BY <2>1, LineKinds DEF LineInv
    <3>2. /\ line_call[u].op = "open" => line_call[u] \in LineOpen
          /\ line_call[u] # Line!Out
      BY <2>1, LineKinds DEF LineInv
    <3> QED BY <2>1, <3>1, <3>2, LineBlur
  <2>2. CASE ~Blurred(u)
    BY <2>2 DEF LineInv, LineTypes
  <2> QED BY <2>1, <2>2
<1>3. /\ line_call'[t] = c
      /\ \A u \in Tasks \ {t} : line_call'[u] = Left(u)
  BY <1>0
<1> HIDE DEF Left
<1>4. LineTypes'
  <2>1. line_call'
          \in [Tasks -> {Line!Out} \cup LineSet \cup LineOpen \cup LineInstall]
    BY <1>0, <1>1, <1>2
  <2>2. \A u \in Tasks : line_call'[u].op = "open"
          => Len(line_call'[u].read) <= 3
    BY <1>1, <1>2, <1>3 DEF LineInv, LineTypes
  <2> QED BY <1>0, <2>1, <2>2 DEF LineInv, LineTypes
<1>5. \A u \in Tasks \ {t} :
        /\ line_call'[u] = Line!Out <=> line_call[u] = Line!Out
        /\ line_call'[u].op = line_call[u].op
        /\ line_call[u] # Line!Out =>
             line_call'[u].host = line_call[u].host
  BY <1>2, <1>3
<1>6. Line!Out.op = "none"
  BY DEF Line!Out
<1>7. LineHosts'
  <2>1. \A u \in Tasks : line_call'[u] # Line!Out =>
          line_call'[u].host \in served'
            /\ priv'[line_call'[u].host] # Line!NULL
    BY <1>0, <1>1, <1>3, <1>5 DEF LineInv, LineHosts
  <2> QED BY <1>0, <2>1 DEF LineInv, LineHosts, Line!Port
<1>8. \A g \in Hosts : Line!Within("set", g) => Line!Within("set", g)'
  <2> SUFFICES ASSUME NEW g \in Hosts, NEW u \in Tasks, line_call[u].op = "set",
                      line_call[u].host = g
               PROVE  Line!Within("set", g)'
    BY DEF Line!Within
  <2>1. u # t /\ line_call[u] # Line!Out
    BY <1>0, <1>6
  <2> QED BY <1>5, <2>1 DEF Line!Within
<1>9. ASSUME NEW u \in Tasks, u # t PROVE LineSetOrder(u)' /\ LineOpenOrder(u)'
  <2>1. CASE Blurred(u)
    BY <1>2, <1>3, <1>9, <2>1 DEF LineSetOrder, LineOpenOrder
  <2>2. CASE ~Blurred(u)
    <3>1. line_call'[u] = line_call[u]
      BY <1>2, <1>3, <1>9, <2>2
    <3>2. line_call[u].op \in {"set", "open"} =>
            /\ line_call[u].host # h
            /\ line_call[u].host \in Hosts
      BY <2>2, LineKinds DEF LineInv
    <3>3. ASSUME NEW v \in Tasks \ {u}, line_call'[v].op = "set",
                 line_call[u].op = "set", line_call[u].want # Line!Unknown
          PROVE  line_call'[v].host # line_call[u].host
      <4>1. CASE v = t
        BY <1>1, <1>3, <3>2, <3>3, <4>1
      <4>2. CASE v # t
        <5>1. line_call[v].op = "set" /\ line_call'[v].host = line_call[v].host
          BY <1>5, <1>6, <3>3, <4>2
        <5> QED BY <3>3, <5>1 DEF LineInv, LineSetOrder
      <4> QED BY <4>1, <4>2
    <3>4. LineSetOrder(u)'
      BY <1>0, <3>1, <3>3 DEF LineInv, LineSetOrder
    <3>5. ASSUME line_call[u].op = "open", line_call[u].want # Line!Unknown
          PROVE  ~Line!Within("set", line_call[u].host)'
      <4> SUFFICES ASSUME NEW v \in Tasks, line_call'[v].op = "set",
                          line_call'[v].host = line_call[u].host
                   PROVE  FALSE
        BY <3>1 DEF Line!Within
      <4>1. v # t
        BY <1>1, <1>3, <3>2, <3>5
      <4>2. line_call[v].op = "set" /\ line_call'[v].host = line_call[v].host
        BY <1>5, <1>6, <4>1
      <4> QED BY <3>5, <4>2 DEF LineInv, LineOpenOrder, Line!Within
    <3>6. LineOpenOrder(u)'
      BY <1>0, <3>1, <3>5 DEF LineInv, LineOpenOrder, LineSeen
    <3> QED BY <3>4, <3>6
  <2> QED BY <2>1, <2>2
<1>10. LineSetOrder(t)'
  <2>1. ASSUME c.want # Line!Unknown, NEW u \in Tasks \ {t},
                 line_call'[u].op = "set"
        PROVE  line_call'[u].host # h
    <3>1. line_call[u].op = "set" /\ line_call'[u].host = line_call[u].host
      BY <1>5, <1>6, <2>1
    <3> QED BY <1>1, <2>1, <3>1 DEF Line!Within
  <2> QED BY <1>1, <1>3, <2>1 DEF LineSetOrder
<1>11. LineOpenOrder(t)'
  BY <1>1, <1>3 DEF LineOpenOrder
<1>12. ASSUME NEW g \in Hosts PROVE LineReport(g)'
  BY <1>0, <1>8 DEF LineInv, LineReport, Line!Reported
<1>13. (\A p \in UartPorts : LineWire(p)') /\ LineReach'
  BY <1>0 DEF LineInv, LineWire, LineReach, Line!Port
<1> QED BY <1>4, <1>7, <1>9, <1>10, <1>11, <1>12, <1>13 DEF LineInv

\* A call of t goes on or ends without touching the settings of a host: what
\* holds of the others is kept when no set begins.
LEMMA LineOthers ==
  ASSUME LineInv, LineTypes', NEW t \in Tasks, UNCHANGED <<served, num, priv>>,
         \A u \in Tasks \ {t} : line_call'[u] = line_call[u],
         \/ line_call'[t] = Line!Out
         \/ /\ line_call[t] # Line!Out /\ line_call'[t].host = line_call[t].host
            /\ line_call'[t].op = "set" => line_call[t].op = "set"
         \/ /\ line_call'[t].host \in served /\ line_call'[t].op # "set"
            /\ priv[line_call'[t].host] # Line!NULL,
         \A h \in Hosts : priv[h] # Line!NULL => line_asked'[h] # Line!NULL
  PROVE  /\ LineHosts'
         /\ \A u \in Tasks \ {t} : LineSetOrder(u)' /\ LineOpenOrder(u)'
         /\ \A h \in Hosts : Line!Within("set", h)' => Line!Within("set", h)
<1>0. Line!Out.op = "none"
  BY DEF Line!Out
<1>1. LineHosts'
  <2>1. \A u \in Tasks : line_call'[u] # Line!Out =>
          line_call'[u].host \in served /\ priv[line_call'[u].host] # Line!NULL
    BY DEF LineInv, LineHosts
  <2> QED BY <2>1 DEF LineInv, LineHosts, Line!Port
<1>2. \A u \in Tasks : line_call'[u].op = "set" =>
        line_call[u].op = "set" /\ line_call'[u].host = line_call[u].host
  BY <1>0
<1>3. \A h : Line!Within("set", h)' => Line!Within("set", h)
  BY <1>2 DEF Line!Within
<1>4. ASSUME NEW u \in Tasks \ {t} PROVE LineSetOrder(u)' /\ LineOpenOrder(u)'
  <2>1. LineSetOrder(u)'
    BY <1>2 DEF LineInv, LineSetOrder
  <2>2. LineOpenOrder(u)'
    BY <1>3 DEF LineInv, LineOpenOrder, LineSeen
  <2> QED BY <2>1, <2>2
<1> QED BY <1>1, <1>3, <1>4

LEMMA LineParityRefused ==
  ASSUME LineInv, NEW t \in Tasks, Line!ParityRefused(t, line_call[t])
  PROVE  LineInv'
<1> DEFINE c == line_call[t]
<1>0. /\ c.op = "set" /\ line_call' = [line_call EXCEPT ![t] = Line!Out]
      /\ line_asked' = [line_asked EXCEPT ![c.host] = Line!Unknown]
      /\ UNCHANGED <<served, num, priv, line, line_installed, line_wanted,
           reached>>
  BY DEF Line!ParityRefused, Line!lineVars
<1>1. c # Line!Out /\ c.host \in Hosts
  BY <1>0, LineKinds DEF LineInv
<1>a. /\ line_call'
           \in [Tasks -> {Line!Out} \cup LineSet \cup LineOpen \cup LineInstall]
      /\ line_asked' \in [Hosts -> LineWant]
  BY <1>0, <1>1 DEF LineInv, LineTypes, LineWant
<1>b. Line!Out.op # "open"
  BY DEF Line!Out
<1>2. /\ LineTypes' /\ line_call'[t] = Line!Out
      /\ \A u \in Tasks \ {t} : line_call'[u] = line_call[u]
      /\ line_asked'[c.host] = Line!Unknown
      /\ \A h \in Hosts \ {c.host} : line_asked'[h] = line_asked[h]
  BY <1>0, <1>1, <1>a, <1>b DEF LineInv, LineTypes
<1>3. Line!Unknown # Line!NULL /\ Line!Out.op = "none"
  BY DEF Line!Unknown, Line!NULL, Line!Out
<1>4. \A h \in Hosts : priv[h] # Line!NULL => line_asked'[h] # Line!NULL
  BY <1>2, <1>3 DEF LineInv, LineHosts
<1>5. /\ LineHosts'
      /\ \A u \in Tasks \ {t} : LineSetOrder(u)' /\ LineOpenOrder(u)'
  BY <1>0, <1>2, <1>4, LineOthers
<1>6. LineSetOrder(t)' /\ LineOpenOrder(t)'
  BY <1>2, <1>3 DEF LineSetOrder, LineOpenOrder
<1>7. ASSUME NEW h \in Hosts PROVE LineReport(h)'
  <2>1. CASE h = c.host
    BY <1>2, <2>1 DEF LineReport
  <2>2. CASE h # c.host
    <3>1. Line!Within("set", h) => Line!Within("set", h)'
      BY <1>2, <2>2 DEF Line!Within
    <3> QED BY <1>0, <1>2, <2>2, <3>1 DEF LineInv, LineReport, Line!Reported
  <2> QED BY <2>1, <2>2
<1>8. (\A p \in UartPorts : LineWire(p)') /\ LineReach'
  BY <1>0 DEF LineInv, LineWire, LineReach, Line!Port
<1> QED BY <1>2, <1>5, <1>6, <1>7, <1>8 DEF LineInv

LEMMA LineHostInit ==
  ASSUME LineInv, NEW t \in Tasks, NEW h \in Hosts, Line!UartHostDevInit(t, h)
  PROVE  LineInv'
<1> DEFINE c == [op |-> "open", host |-> h, baudrate |-> priv[h].baudrate,
                 read |-> <<>>,
                 want |-> IF Line!Within("set", h) THEN Line!Unknown
                          ELSE line_asked[h]]
<1>0. /\ line_call[t] = Line!Out /\ h \in served /\ priv[h] # Line!NULL
      /\ line_call' = [u \in Tasks |-> IF u = t THEN c ELSE line_call[u]]
      /\ UNCHANGED <<served, num, priv, line, line_installed, line_asked,
                     line_wanted, reached>>
  BY DEF Line!UartHostDevInit, Line!Enter, Line!lineVars, Line!history
<1>1. priv[h] \in LinePriv /\ line_asked[h] \in LineWant
  BY <1>0 DEF LineInv, LineTypes
<1>2. /\ c \in LineOpen /\ c.op = "open" /\ c.host = h /\ c.read = <<>>
      /\ c.baudrate = priv[h].baudrate /\ Len(c.read) = 0
      /\ c.want # Line!Unknown
           => c.want = line_asked[h] /\ ~Line!Within("set", h)
  BY <1>1 DEF LineOpen, LineWant, LinePriv
<1> HIDE DEF c
<1>3. /\ LineTypes' /\ line_call'[t] = c
      /\ \A u \in Tasks \ {t} : line_call'[u] = line_call[u]
  BY <1>0, <1>2 DEF LineInv, LineTypes
<1>4. /\ LineHosts'
      /\ \A u \in Tasks \ {t} : LineSetOrder(u)' /\ LineOpenOrder(u)'
      /\ \A g \in Hosts : Line!Within("set", g)' => Line!Within("set", g)
  <2>1. \A g \in Hosts : priv[g] # Line!NULL => line_asked'[g] # Line!NULL
    BY <1>0 DEF LineInv, LineHosts
  <2> QED BY <1>0, <1>2, <1>3, <2>1, LineOthers
<1>5. LineSetOrder(t)'
  BY <1>2, <1>3 DEF LineSetOrder
<1>6. LineOpenOrder(t)'
  <2>1. SUFFICES ASSUME c.want # Line!Unknown
                 PROVE  /\ ~Line!Within("set", h)'
                        /\ Line!WireOf(c.want) =
                             [baud |-> priv[h].baudrate,
                              bits |-> 5 + priv[h].data_bits,
                              parity |-> priv[h].parity,
                              halves |-> priv[h].stop_bits + 1]
    BY <1>0, <1>2, <1>3 DEF LineOpenOrder, LineSeen, LineField
  <2>2. Line!Reported(h) = Line!WireOf(c.want)
    BY <1>0, <1>2, <2>1 DEF LineInv, LineReport
  <2> QED BY <1>1, <1>2, <1>4, <2>1, <2>2 DEF Line!Reported,
        Line!OH_ESP_DATABITS_EX, LinePriv
<1>7. ASSUME NEW g \in Hosts PROVE LineReport(g)'
  <2>1. Line!Within("set", g) => Line!Within("set", g)'
    <3> SUFFICES ASSUME NEW u \in Tasks, line_call[u].op = "set",
                        line_call[u].host = g
                 PROVE  Line!Within("set", g)'
      BY DEF Line!Within
    <3>1. u # t
      BY <1>0 DEF Line!Out
    <3> QED BY <1>3, <3>1 DEF Line!Within
  <2> QED BY <1>0, <2>1 DEF LineInv, LineReport, Line!Reported
<1>8. (\A p \in UartPorts : LineWire(p)') /\ LineReach'
  BY <1>0 DEF LineInv, LineWire, LineReach, Line!Port
<1> QED BY <1>3, <1>4, <1>5, <1>6, <1>7, <1>8 DEF LineInv

LEMMA LineStoreField ==
  ASSUME LineInv, NEW t \in Tasks, Line!StoreField(t, line_call[t])
  PROVE  LineInv'
<1> DEFINE c == line_call[t]
           g == c.host
           last == c.at = 3
           brought == [c.want EXCEPT !.baudrate = priv[g].baudrate]
           s == [priv[g] EXCEPT ![Line!Fields[c.at]] = Line!Converted(c)]
           d == IF last THEN Line!Out ELSE [c EXCEPT !.at = @ + 1]
           a == IF last
                THEN IF c.want = Line!Unknown THEN Line!Unknown ELSE brought
                ELSE line_asked[g]
<1>0. /\ c.op = "set" /\ UNCHANGED <<served, num, line, line_installed,
                                     line_wanted, reached>>
      /\ Line!Fields[c.at] = "parity" => c.attr.parity \in DOMAIN Line!ParityOf
  BY DEF Line!StoreField, Line!lineVars
<1>1. c \in LineSet /\ c # Line!Out /\ g \in Hosts /\ c.at \in 1..3
      /\ c.want \in LineWant /\ c.attr \in LineAttr
  BY <1>0, LineKinds, LineConstants DEF LineInv, LineSet
<1>2. /\ priv' = [priv EXCEPT ![g] = s]
      /\ c.at < 3 =>
           /\ line_call' = [line_call EXCEPT ![t] = [c EXCEPT !.at = @ + 1]]
           /\ line_asked' = line_asked
      /\ c.at >= 3 =>
           /\ line_call' = [line_call EXCEPT ![t] = Line!Out]
           /\ line_asked' = [line_asked EXCEPT ![g] =
                IF c.want = Line!Unknown THEN Line!Unknown ELSE brought]
  <2>1. Len(Line!Fields) = 3
    BY DEF Line!Fields
  <2> QED BY <1>1, <2>1 DEF Line!StoreField
<1>3. /\ line_call' = [line_call EXCEPT ![t] = d]
      /\ line_asked' = [line_asked EXCEPT ![g] = a]
  <2>1. line_asked = [line_asked EXCEPT ![g] = line_asked[g]]
    BY <1>1 DEF LineInv, LineTypes
  <2> QED BY <1>1, <1>2, <2>1
<1>4. priv[g] \in LinePriv /\ line_asked[g] # Line!NULL
  BY <1>1 DEF LineInv, LineHosts, LineTypes
<1>5. /\ s \in LinePriv /\ s.baudrate = priv[g].baudrate
      /\ LineField(s, c.at) = LineBrought(c.attr, c.at)
      /\ \A i \in 1..3 \ {c.at} : LineField(s, i) = LineField(priv[g], i)
  BY <1>0, <1>1, <1>4, LineConverted, LineStored
<1>6. s # Line!NULL
  BY <1>5 DEF LinePriv, Line!NULL
<1>7. ASSUME c.want # Line!Unknown
      PROVE  /\ c.want = c.attr /\ brought \in LineAttr
             /\ brought.baudrate = priv[g].baudrate
             /\ \A i \in 1..3 : LineBrought(brought, i) = LineBrought(c.attr, i)
             /\ brought # Line!NULL
  <2>1. c.want = c.attr
    BY <1>0, <1>7 DEF LineInv, LineSetOrder
  <2>2. /\ brought \in LineAttr /\ brought.dataBits = c.attr.dataBits
        /\ brought.parity = c.attr.parity /\ brought.stopBits = c.attr.stopBits
        /\ brought.baudrate = priv[g].baudrate
    BY <1>1, <1>4, <2>1 DEF LineAttr, LinePriv
  <2>3. brought # Line!NULL
    BY <2>2 DEF LineAttr, Line!NULL
  <2> QED BY <2>1, <2>2, <2>3 DEF LineBrought
<1>8. a \in LineWant /\ a # Line!NULL
  <2>1. Line!Unknown # Line!NULL
    BY DEF Line!Unknown, Line!NULL
  <2> QED BY <1>1, <1>4, <1>7, <2>1 DEF LineInv, LineTypes, LineWant
<1>9. /\ ~last => /\ d \in LineSet /\ d.op = "set" /\ d.host = g
                  /\ d.at = c.at + 1 /\ d.attr = c.attr /\ d.want = c.want
                  /\ d # Line!Out
      /\ last => d = Line!Out
  BY <1>0, <1>1 DEF LineSet, Line!Out
<1> HIDE DEF s, a, d, brought
<1>10. /\ priv'[g] = s /\ line_asked'[g] = a /\ line_call'[t] = d
       /\ \A h \in Hosts \ {g} : priv'[h] = priv[h]
            /\ line_asked'[h] = line_asked[h]
       /\ \A u \in Tasks \ {t} : line_call'[u] = line_call[u]
       /\ priv' \in [Hosts -> LinePriv \cup {Line!NULL}]
       /\ line_asked' \in [Hosts -> LineWant]
       /\ line_call'
            \in [Tasks -> {Line!Out} \cup LineSet \cup LineOpen
              \cup LineInstall]
  BY <1>1, <1>2, <1>3, <1>5, <1>8, <1>9 DEF LineInv, LineTypes
<1>a. Line!Out.op = "none"
  BY DEF Line!Out
<1>11. LineTypes'
  <2>1. \A u \in Tasks : line_call'[u].op = "open"
          => Len(line_call'[u].read) <= 3
    BY <1>9, <1>10, <1>a DEF LineInv, LineTypes
  <2> QED BY <1>0, <1>10, <2>1 DEF LineInv, LineTypes
<1>12. \A h \in Hosts : priv'[h] # Line!NULL <=> priv[h] # Line!NULL
  BY <1>1, <1>6, <1>10 DEF LineInv, LineHosts
<1>13. LineHosts'
  <2>1. \A u \in Tasks : line_call'[u] # Line!Out =>
          line_call'[u].host \in served'
            /\ priv'[line_call'[u].host] # Line!NULL
    <3> SUFFICES ASSUME NEW u \in Tasks, line_call'[u] # Line!Out
                 PROVE  /\ line_call'[u].host \in served'
                        /\ priv'[line_call'[u].host] # Line!NULL
      OBVIOUS
    <3>1. line_call[u] # Line!Out /\ line_call'[u].host = line_call[u].host
      BY <1>1, <1>9, <1>10
    <3>2. line_call[u].host \in Hosts
      BY <3>1, LineKinds DEF LineInv
    <3> QED BY <1>0, <1>12, <3>1, <3>2 DEF LineInv, LineHosts
  <2>2. \A h \in Hosts : priv'[h] # Line!NULL => line_asked'[h] # Line!NULL
    BY <1>8, <1>10, <1>12 DEF LineInv, LineHosts
  <2> QED BY <1>0, <2>1, <2>2 DEF LineInv, LineHosts, Line!Port
<1>14. \A u \in Tasks : line_call'[u].op = "set" =>
         line_call[u].op = "set" /\ line_call'[u].host = line_call[u].host
  BY <1>0, <1>9, <1>10, <1>a
<1>15. \A h : Line!Within("set", h)' => Line!Within("set", h)
  BY <1>14 DEF Line!Within
<1>16. ASSUME NEW u \in Tasks \ {t} PROVE LineSetOrder(u)' /\ LineOpenOrder(u)'
  <2>1. LineSetOrder(u)'
    <3>1. SUFFICES ASSUME line_call[u].op = "set",
                          line_call[u].want # Line!Unknown
                   PROVE  LineSetOrder(u)'
      BY <1>10 DEF LineSetOrder
    <3>2. line_call[u].host # g /\ line_call[u].host \in Hosts
      BY <1>0, <3>1, LineKinds DEF LineInv, LineSetOrder
    <3> QED BY <1>10, <1>14, <3>1, <3>2 DEF LineInv, LineSetOrder
  <2>2. LineOpenOrder(u)'
    <3>1. SUFFICES ASSUME line_call[u].op = "open",
                          line_call[u].want # Line!Unknown
                   PROVE  LineOpenOrder(u)'
      BY <1>10 DEF LineOpenOrder
    <3>2. ~Line!Within("set", line_call[u].host)
      BY <3>1 DEF LineInv, LineOpenOrder
    <3>3. line_call[u].host # g /\ line_call[u].host \in Hosts
      BY <1>0, <3>1, <3>2, LineKinds DEF LineInv, Line!Within
    <3> QED BY <1>10, <1>15, <3>1, <3>2, <3>3 DEF LineInv, LineOpenOrder,
          LineSeen
  <2> QED BY <2>1, <2>2
<1>17. LineSetOrder(t)'
  <2>1. SUFFICES ASSUME ~last, c.want # Line!Unknown PROVE LineSetOrder(t)'
    BY <1>9, <1>10, <1>a DEF LineSetOrder
  <2>2. /\ c.want = c.attr
        /\ \A u \in Tasks \ {t} : line_call[u].op = "set"
             => line_call[u].host # g
        /\ \A i \in 1..3 : i < c.at
             => LineField(priv[g], i) = LineBrought(c.attr, i)
    BY <1>0, <2>1 DEF LineInv, LineSetOrder
  <2>3. \A i \in 1..3 : i < c.at + 1 => LineField(s, i) = LineBrought(c.attr, i)
    BY <1>1, <1>5, <2>2
  <2> QED BY <1>9, <1>10, <2>1, <2>2, <2>3 DEF LineSetOrder
<1>18. LineOpenOrder(t)'
  BY <1>9, <1>10, <1>a DEF LineOpenOrder
<1>19. ASSUME NEW h \in Hosts PROVE LineReport(h)'
  <2>1. CASE h # g
    <3>1. Line!Within("set", h) => Line!Within("set", h)'
      BY <1>10, <2>1 DEF Line!Within
    <3> QED BY <1>10, <2>1, <3>1 DEF LineInv, LineReport, Line!Reported
  <2>2. CASE h = g /\ ~last
    BY <1>9, <1>10, <2>2 DEF LineReport, Line!Within
  <2>3. CASE h = g /\ last
    <3>1. SUFFICES ASSUME c.want # Line!Unknown PROVE LineReport(h)'
      BY <1>10, <2>3 DEF LineReport, a
    <3>2. a = brought
      BY <2>3, <3>1 DEF a
    <3>3. \A i \in 1..3 : i < c.at
            => LineField(priv[g], i) = LineBrought(c.attr, i)
      BY <1>0, <3>1 DEF LineInv, LineSetOrder
    <3>4. \A i \in 1..3 : LineField(s, i) = LineBrought(brought, i)
      BY <1>5, <1>7, <2>3, <3>1, <3>3
    <3>5. Line!Reported(h)' = Line!WireOf(brought)
      BY <1>5, <1>7, <1>10, <2>3, <3>1, <3>4, LineRoundTrip DEF Line!Reported
    <3> QED BY <1>10, <2>3, <3>2, <3>5 DEF LineReport
  <2> QED BY <2>1, <2>2, <2>3
<1>20. (\A p \in UartPorts : LineWire(p)') /\ LineReach'
  BY <1>0 DEF LineInv, LineWire, LineReach, Line!Port
<1> QED BY <1>11, <1>13, <1>16, <1>17, <1>18, <1>19, <1>20 DEF LineInv

\* A call of t for a host goes on or ends, and no set begins or ends.
LEMMA LineReports ==
  ASSUME LineInv, NEW t \in Tasks, line_call[t].op # "set",
         UNCHANGED <<priv, line_asked>>,
         \A u \in Tasks \ {t} : line_call'[u] = line_call[u]
  PROVE  \A h \in Hosts : LineReport(h)'
<1> SUFFICES ASSUME NEW h \in Hosts PROVE LineReport(h)'
  OBVIOUS
<1>1. Line!Within("set", h) => Line!Within("set", h)'
  BY DEF Line!Within
<1> QED BY <1>1 DEF LineInv, LineReport, Line!Reported

LEMMA LineReadField ==
  ASSUME LineInv, NEW t \in Tasks, Line!ReadField(t, line_call[t])
  PROVE  LineInv'
<1> DEFINE c == line_call[t]
           v == priv[c.host][Line!Fields[Len(c.read) + 1]]
           d == [c EXCEPT !.read = Append(@, v)]
<1>0. /\ c.op = "open" /\ Len(c.read) < 3
      /\ line_call' = [line_call EXCEPT ![t] = d]
      /\ UNCHANGED <<served, num, priv, line, line_installed, line_asked,
                     line_wanted, reached>>
  <2>1. Len(Line!Fields) = 3
    BY DEF Line!Fields
  <2> QED BY <2>1 DEF Line!ReadField, Line!lineVars, Line!history
<1>1. c \in LineOpen /\ c # Line!Out /\ c.host \in Hosts /\ c.read \in Seq(Int)
  BY <1>0, LineKinds DEF LineInv, LineOpen
<1>2. Len(c.read) \in 0..2
  <2> DEFINE n == Len(c.read)
  <2>1. n \in Nat
    BY <1>1
  <2>2. n < 3
    BY <1>0
  <2> HIDE DEF n
  <2>3. n \in 0..2
    BY <2>1, <2>2
  <2> QED BY <2>3 DEF n
<1>3. priv[c.host] \in LinePriv
  BY <1>1 DEF LineInv, LineHosts, LineTypes
<1>4. v = LineField(priv[c.host], Len(c.read) + 1) /\ v \in Int
  <2>1. CASE Len(c.read) = 0
    BY <1>3, <2>1 DEF Line!Fields, LineField, LinePriv
  <2>2. CASE Len(c.read) = 1
    BY <1>3, <2>2 DEF Line!Fields, LineField, LinePriv
  <2>3. CASE Len(c.read) = 2
    BY <1>3, <2>3 DEF Line!Fields, LineField, LinePriv
  <2> QED BY <1>2, <2>1, <2>2, <2>3
<1> HIDE DEF v
<1>5. /\ d.read = Append(c.read, v) /\ d.op = "open" /\ d.host = c.host
      /\ d.want = c.want /\ d.baudrate = c.baudrate
      /\ d \in LineOpen /\ d # Line!Out
  <2>1. Append(c.read, v) \in Seq(Int)
    BY <1>1, <1>4
  <2> QED BY <1>0, <1>1, <2>1 DEF LineOpen, Line!Out
<1>6. /\ Len(d.read) = Len(c.read) + 1
      /\ \A i \in 1..3 : i <= Len(c.read) + 1 =>
           d.read[i] = IF i <= Len(c.read) THEN c.read[i]
                       ELSE LineField(priv[c.host], i)
  <2>1. /\ Len(d.read) = Len(c.read) + 1 /\ d.read[Len(c.read) + 1] = v
        /\ \A i \in 1..3 : i <= Len(c.read) => d.read[i] = c.read[i]
    BY <1>1, <1>4, <1>5
  <2> QED BY <1>2, <1>4, <2>1
<1> HIDE DEF d
<1>7. /\ line_call'[t] = d /\ \A u \in Tasks \ {t} :
           line_call'[u] = line_call[u]
      /\ LineTypes'
  BY <1>0, <1>2, <1>5, <1>6 DEF LineInv, LineTypes
<1>8. /\ LineHosts'
      /\ \A u \in Tasks \ {t} : LineSetOrder(u)' /\ LineOpenOrder(u)'
      /\ \A h \in Hosts : Line!Within("set", h)' => Line!Within("set", h)
  <2>1. \A h \in Hosts : priv[h] # Line!NULL => line_asked'[h] # Line!NULL
    BY <1>0 DEF LineInv, LineHosts
  <2> QED BY <1>0, <1>1, <1>5, <1>7, <2>1, LineOthers
<1>9. LineSetOrder(t)'
  BY <1>5, <1>7 DEF LineSetOrder
<1>10. LineOpenOrder(t)'
  <2>1. \A i \in 1..3 : LineSeen(line_call[t], i)' = LineSeen(c, i)
    BY <1>0, <1>2, <1>5, <1>6, <1>7 DEF LineSeen
  <2>2. SUFFICES ASSUME c.want # Line!Unknown PROVE LineOpenOrder(t)'
    BY <1>5, <1>7 DEF LineOpenOrder
  <2> QED BY <1>0, <1>1, <1>5, <1>7, <1>8, <2>1, <2>2 DEF LineInv, LineOpenOrder
<1>11. \A h \in Hosts : LineReport(h)'
  BY <1>0, <1>7, LineReports
<1>12. (\A p \in UartPorts : LineWire(p)') /\ LineReach'
  BY <1>0 DEF LineInv, LineWire, LineReach, Line!Port
<1> QED BY <1>7, <1>8, <1>9, <1>10, <1>11, <1>12 DEF LineInv

LEMMA LineParamConfig ==
  ASSUME LineInv, NEW t \in Tasks, Line!ParamConfig(t, line_call[t])
  PROVE  LineInv'
<1> DEFINE c == line_call[t]
           settings == [baudrate |-> c.baudrate, data_bits |-> c.read[1],
                        parity |-> c.read[2], stop_bits |-> c.read[3]]
           p == Line!Port(c.host)
           d == [op |-> "install", host |-> c.host]
<1>0. /\ c.op = "open" /\ Len(c.read) = 3
      /\ line_call' = [line_call EXCEPT ![t] = d]
      /\ UNCHANGED <<served, num, priv, line_installed, line_asked>>
      /\ \/ /\ line' = [line EXCEPT ![p] = Line!Wire(settings)]
            /\ line_wanted' = [line_wanted EXCEPT ![p] = c.want]
            /\ reached' = reached \cup {<<c.host, p>>}
         \/ UNCHANGED <<line, line_wanted, reached>>
  <2>1. Len(Line!Fields) = 3
    BY DEF Line!Fields
  <2> QED BY <2>1 DEF Line!ParamConfig
<1>1. c \in LineOpen /\ c # Line!Out /\ c.host \in Hosts
  BY <1>0, LineKinds DEF LineInv, LineOpen
<1>2. d \in LineInstall /\ d.op = "install" /\ d.host = c.host
  BY <1>1 DEF LineInstall
<1>3. /\ line_call'[t] = d /\ \A u \in Tasks \ {t} :
           line_call'[u] = line_call[u]
      /\ LineTypes'
  BY <1>0, <1>2 DEF LineInv, LineTypes
<1>4. /\ LineHosts'
      /\ \A u \in Tasks \ {t} : LineSetOrder(u)' /\ LineOpenOrder(u)'
  <2>1. \A h \in Hosts : priv[h] # Line!NULL => line_asked'[h] # Line!NULL
    BY <1>0 DEF LineInv, LineHosts
  <2> QED BY <1>0, <1>1, <1>2, <1>3, <2>1, LineOthers
<1>5. LineSetOrder(t)' /\ LineOpenOrder(t)'
  BY <1>2, <1>3 DEF LineSetOrder, LineOpenOrder
<1>6. \A h \in Hosts : LineReport(h)'
  BY <1>0, <1>3, LineReports
<1>7. ASSUME c.want # Line!Unknown
               PROVE Line!Wire(settings) = Line!WireOf(c.want)
  <2>1. /\ LineSeen(c, 1) = c.read[1] /\ LineSeen(c, 2) = c.read[2]
        /\ LineSeen(c, 3) = c.read[3]
    BY <1>0 DEF LineSeen
  <2>2. Line!WireOf(c.want) =
          [baud |-> c.baudrate, bits |-> 5 + LineSeen(c, 1),
           parity |-> LineSeen(c, 2), halves |-> LineSeen(c, 3) + 1]
    BY <1>0, <1>7 DEF LineInv, LineOpenOrder
  <2> QED BY <2>1, <2>2 DEF Line!Wire
<1>8. ASSUME NEW q \in UartPorts PROVE LineWire(q)'
  <2> DEFINE w == Line!Wire(settings)
  <2>1. \/ line'[q] = line[q] /\ line_wanted'[q] = line_wanted[q]
        \/ line'[q] = w /\ line_wanted'[q] = c.want
    <3> HIDE DEF w
    <3>1. /\ line = [r \in UartPorts |-> line[r]]
          /\ line_wanted = [r \in UartPorts |-> line_wanted[r]]
      BY DEF LineInv, LineReach
    <3>2. \/ /\ line' = [line EXCEPT ![p] = w]
             /\ line_wanted' = [line_wanted EXCEPT ![p] = c.want]
          \/ line' = line /\ line_wanted' = line_wanted
      BY <1>0 DEF w
    <3> QED BY <3>1, <3>2
  <2> QED BY <1>0, <1>7, <2>1 DEF LineInv, LineWire
<1>9. LineReach'
  <2> DEFINE w == Line!Wire(settings)
  <2>1. reached' \subseteq reached \cup {<<c.host, p>>}
    BY <1>0
  <2>2. \/ /\ line' = [line EXCEPT ![p] = w]
           /\ line_wanted' = [line_wanted EXCEPT ![p] = c.want]
        \/ line' = line /\ line_wanted' = line_wanted
    BY <1>0
  <2> HIDE DEF w
  <2>3. /\ line' = [r \in UartPorts |-> line'[r]]
        /\ line_wanted' = [r \in UartPorts |-> line_wanted'[r]]
    BY <2>2 DEF LineInv, LineReach
  <2> QED BY <2>1, <2>3 DEF LineInv, LineReach, Line!Port
<1> QED BY <1>3, <1>4, <1>5, <1>6, <1>8, <1>9 DEF LineInv

LEMMA LineDriverInstall ==
  ASSUME LineInv, NEW t \in Tasks, Line!DriverInstall(t)
  PROVE  LineInv'
<1>0. /\ line_call[t].op = "install"
      /\ line_call' = [line_call EXCEPT ![t] = Line!Out]
      /\ UNCHANGED <<served, num, priv, line, line_asked, line_wanted, reached>>
  BY DEF Line!DriverInstall, Line!history
<1>1. Line!Out.op = "none"
  BY DEF Line!Out
<1>2. /\ line_call'[t] = Line!Out
      /\ \A u \in Tasks \ {t} : line_call'[u] = line_call[u]
      /\ LineTypes'
  BY <1>0, <1>1 DEF LineInv, LineTypes
<1>3. /\ LineHosts'
      /\ \A u \in Tasks \ {t} : LineSetOrder(u)' /\ LineOpenOrder(u)'
  <2>1. \A h \in Hosts : priv[h] # Line!NULL => line_asked'[h] # Line!NULL
    BY <1>0 DEF LineInv, LineHosts
  <2> QED BY <1>0, <1>2, <2>1, LineOthers
<1>4. LineSetOrder(t)' /\ LineOpenOrder(t)'
  BY <1>1, <1>2 DEF LineSetOrder, LineOpenOrder
<1>5. \A h \in Hosts : LineReport(h)'
  BY <1>0, <1>2, LineReports
<1>6. (\A p \in UartPorts : LineWire(p)') /\ LineReach'
  BY <1>0 DEF LineInv, LineWire, LineReach, Line!Port
<1> QED BY <1>2, <1>3, <1>4, <1>5, <1>6 DEF LineInv

LEMMA LineNext == LineInv /\ [Next]_vars => LineInv'
<1> SUFFICES ASSUME LineInv, [Line!Next]_lineVars PROVE LineInv'
  BY EachSteps
<1>1. CASE UNCHANGED lineVars
  <2>1. /\ UNCHANGED <<served, num, priv, line_call, line_asked>>
        /\ UNCHANGED <<line, line_wanted, reached>>
    BY <1>1 DEF lineVars
  <2>2. (\A p \in UartPorts : LineWire(p)') /\ LineReach'
    BY <2>1 DEF LineInv, LineWire, LineReach, Line!Port
  <2> QED BY <2>1, <2>2, LineCallsStay DEF LineInv
<1>2. ASSUME NEW h \in Hosts,
             Line!UartHostDevDeinit(h) \/ Line!UartHostDevWrite(h)
      PROVE  LineInv'
  <2>1. /\ UNCHANGED <<served, num, priv, line_call, line_asked, line,
             line_wanted>>
        /\ h \in served /\ reached' = reached \cup {<<h, num[h]>>}
    BY <1>2 DEF Line!UartHostDevDeinit, Line!UartHostDevWrite, Line!lineVars
  <2>2. \A p \in UartPorts : LineWire(p)'
    BY <2>1 DEF LineInv, LineWire
  <2>3. LineReach'
    BY <2>1 DEF LineInv, LineReach, LineHosts, Line!Port
  <2> QED BY <2>1, <2>2, <2>3, LineCallsStay DEF LineInv
<1>3. ASSUME NEW h \in Hosts, NEW t \in Openers, Line!UartHostDevInit(t, h)
      PROVE  LineInv'
  BY <1>3, LineConstants, LineHostInit
<1> QED
  BY <1>1, <1>2, <1>3, LineDriverInit, LineRelease, LineSetBaud,
     LineSetAttribute, LineStoreField, LineParityRefused, LineReadField,
     LineParamConfig, LineDriverInstall
     DEF Line!Next

LEMMA LineAsked == LineInv => Line!LineIsAsked
<1>1. ASSUME LineInv, NEW p, line[p] # Line!Reset, p \in UartPorts,
             line_wanted[p] # Line!Unknown
      PROVE  line[p] = Line!WireOf(line_wanted[p])
  BY <1>1 DEF LineInv, LineWire
<1> QED BY <1>1 DEF LineInv, LineReport, LineReach, Line!LineIsAsked

-----------------------------------------------------------------------------
(* I2cHost *)

I2cTypes ==
  /\ msgs \in [Tasks -> Seq(I2c!Messages)]
  /\ i2c_count \in [Tasks -> Nat] /\ sent \in [Tasks -> Seq(Nat)]
  /\ ret \in [Tasks -> BOOLEAN]
  /\ \A t \in Tasks : i2c_count[t] <= Len(msgs[t])

\* At every moment, the messages that are passed tell what was on the bus.
I2cInv == I2cTypes /\ \A t \in Tasks : I2c!SentIsTold(t)

LEMMA I2cInit == Init => I2cInv
<1> SUFFICES ASSUME I2c!Init PROVE I2cInv
  BY DEF Init
<1>1. I2cTypes
  BY DEF I2c!Init, I2cTypes
<1>2. ASSUME NEW t \in Tasks PROVE I2c!SentIsTold(t)
  BY DEF I2c!Init, I2c!SentIsTold
<1> QED BY <1>1, <1>2 DEF I2cInv

\* A step that passes no message.
LEMMA I2cSame ==
  ASSUME I2cInv, NEW t \in Tasks, UNCHANGED <<msgs, i2c_count, sent>>,
         ret' \in [Tasks -> BOOLEAN]
  PROVE  I2cInv'
BY DEF I2cInv, I2cTypes, I2c!SentIsTold

LEMMA I2cBreak ==
  ASSUME I2cInv, NEW t \in Tasks, I2c!Break(t), UNCHANGED msgs
  PROVE  I2cInv'
<1>1. UNCHANGED <<msgs, i2c_count, sent>> /\ ret' \in [Tasks -> BOOLEAN]
  BY Zenon DEF I2c!Break, I2cInv, I2cTypes
<1> QED BY <1>1, I2cSame

LEMMA I2cNext == I2cInv /\ [Next]_vars => I2cInv'
<1> SUFFICES ASSUME I2cInv, [I2c!Next]_i2cVars PROVE I2cInv'
  BY EachSteps
<1>0. Transfers \subseteq Seq(I2c!Messages)
  BY DriversAssumption DEF I2c!ConstantsOK
<1>a. I2cTypes /\ \A t \in Tasks : I2c!SentIsTold(t)
  BY DEF I2cInv
<1>1. CASE UNCHANGED i2cVars
  BY <1>1 DEF I2cInv, I2cTypes, I2c!SentIsTold, i2cVars
<1>2. ASSUME NEW t \in Tasks, I2c!I2cDataTransfer(t) PROVE I2cInv'
  <2>1. PICK request \in Transfers :
          /\ msgs' = [msgs EXCEPT ![t] = request]
          /\ i2c_count' = [i2c_count EXCEPT ![t] = Len(request)]
    BY <1>2 DEF I2c!I2cDataTransfer
  <2>2. msgs[t] = <<>> /\ UNCHANGED <<sent, ret>>
    BY <1>2 DEF I2c!I2cDataTransfer
  <2>3. request \in Seq(I2c!Messages) /\ Len(request) \in Nat
    BY <1>0
  <2>4. I2cTypes'
    BY <1>a, <2>1, <2>2, <2>3 DEF I2cTypes
  <2>5. I2c!SentIsTold(t)'
    <3>1. i2c_count[t] = 0 /\ Len(msgs[t]) = 0
      BY <1>a, <2>2 DEF I2cTypes
    <3>2. DOMAIN sent[t] = {}
      <4>1. {sent[t][i] : i \in DOMAIN sent[t]} =
              {m \in 1 .. Len(msgs[t]) - i2c_count[t] :
                 msgs[t][m] \in DOMAIN I2c!Commands}
        BY <1>a DEF I2c!SentIsTold
      <4>2. \A m \in 1 .. Len(msgs[t]) - i2c_count[t] : FALSE
        BY <3>1
      <4>3. \A i \in DOMAIN sent[t] : FALSE
        BY <4>1, <4>2
      <4> QED BY <4>3
    <3>3. Len(msgs'[t]) - i2c_count'[t] = 0 /\ sent'[t] = sent[t]
      BY <1>a, <2>1, <2>2, <2>3 DEF I2cTypes
    <3> QED BY <3>2, <3>3 DEF I2c!SentIsTold
  <2>6. ASSUME NEW u \in Tasks, u # t PROVE I2c!SentIsTold(u)'
    BY <1>a, <2>1, <2>2, <2>6 DEF I2cTypes, I2c!SentIsTold
  <2> QED BY <2>4, <2>5, <2>6 DEF I2cInv
<1>3. ASSUME NEW t \in Tasks, I2c!Skip(t) PROVE I2cInv'
  <2> DEFINE n == Len(msgs[t])
             k == n - i2c_count[t]
  <2>1. /\ i2c_count' = [i2c_count EXCEPT ![t] = i2c_count[t] - 1]
        /\ i2c_count[t] > 0 /\ UNCHANGED <<msgs, ret, sent>>
        /\ msgs[t][k + 1] \notin DOMAIN I2c!Commands
    BY <1>3 DEF I2c!Skip, I2c!Message, I2c!Place, I2c!Commands
  <2>2. i2c_count[t] \in Nat /\ n \in Nat /\ k \in Nat
    BY <1>a DEF I2cTypes
  <2>3. I2cTypes' /\ i2c_count'[t] = i2c_count[t] - 1
    BY <1>a, <2>1, <2>2 DEF I2cTypes
  <2>4. n - i2c_count'[t] = k + 1
    BY <2>2, <2>3
  <2> HIDE DEF k
  <2>5. {m \in 1 .. k + 1 : msgs[t][m] \in DOMAIN I2c!Commands} =
          {m \in 1 .. k : msgs[t][m] \in DOMAIN I2c!Commands}
    BY <2>1, <2>2
  <2>6. I2c!SentIsTold(t)'
    BY <1>a, <2>1, <2>4, <2>5 DEF I2c!SentIsTold, k
  <2>7. ASSUME NEW u \in Tasks, u # t PROVE I2c!SentIsTold(u)'
    BY <1>a, <2>1, <2>7 DEF I2cTypes, I2c!SentIsTold
  <2> QED BY <2>3, <2>6, <2>7 DEF I2cInv
<1>4. ASSUME NEW t \in Tasks, I2c!CreateLink(t) \/ I2c!AddCommand(t)
      PROVE  I2cInv'
  <2>1. CASE I2c!Break(t)
    BY <1>4, <2>1, I2cBreak DEF I2c!CreateLink, I2c!AddCommand
  <2>2. CASE UNCHANGED <<i2c_count, ret, sent, failed>>
    <3>1. UNCHANGED <<msgs, i2c_count, sent>> /\ ret' \in [Tasks -> BOOLEAN]
      BY <1>4, <1>a, <2>2 DEF I2c!CreateLink, I2c!AddCommand, I2cTypes
    <3> QED BY <3>1, I2cSame
  <2> QED BY <1>4, <2>1, <2>2 DEF I2c!CreateLink, I2c!AddCommand
<1>5. ASSUME NEW t \in Tasks, I2c!ExecuteLink(t) PROVE I2cInv'
  <2>1. CASE I2c!Break(t)
    BY <1>5, <2>1, I2cBreak DEF I2c!ExecuteLink
  <2>2. CASE ~I2c!Break(t)
    <3> DEFINE n == Len(msgs[t])
               k == n - i2c_count[t]
    <3>1. /\ i2c_count' = [i2c_count EXCEPT ![t] = i2c_count[t] - 1]
          /\ sent' = [sent EXCEPT ![t] = Append(sent[t], k + 1)]
          /\ i2c_count[t] > 0 /\ UNCHANGED <<msgs, ret>>
          /\ msgs[t][k + 1] \in DOMAIN I2c!Commands
      BY <1>5, <2>2 DEF I2c!ExecuteLink, I2c!Complete, I2c!Current, I2c!Message,
         I2c!Place
    <3>2. i2c_count[t] \in Nat /\ n \in Nat /\ k \in Nat
      BY <1>a DEF I2cTypes
    <3>3. /\ i2c_count'[t] = i2c_count[t] - 1
          /\ sent'[t] = Append(sent[t], k + 1) /\ sent'[t] \in Seq(Nat)
      BY <1>a, <3>1, <3>2 DEF I2cTypes
    <3>4. I2cTypes'
      BY <1>a, <3>1, <3>2, <3>3 DEF I2cTypes
    <3>5. n - i2c_count'[t] = k + 1
      BY <3>2, <3>3
    <3> HIDE DEF k
    <3> DEFINE s == sent[t]
               l == Len(s)
    <3>6. /\ l \in Nat /\ DOMAIN s = 1 .. l /\ DOMAIN sent'[t] = 1 .. l + 1
          /\ sent'[t][l + 1] = k + 1 /\ \A i \in 1 .. l : sent'[t][i] = s[i]
      BY <1>a, <3>2, <3>3 DEF I2cTypes
    <3>7. /\ {s[i] : i \in 1 .. l} =
               {m \in 1 .. k : msgs[t][m] \in DOMAIN I2c!Commands}
          /\ \A i, j \in 1 .. l : i < j => s[i] < s[j]
      BY <1>a, <3>6 DEF I2c!SentIsTold, k
    <3>8. \A i \in 1 .. l : s[i] \in 1 .. k
      BY <3>7
    <3>9. {sent'[t][i] : i \in 1 .. l + 1} = {s[i] : i \in 1 .. l} \cup {k + 1}
      <4>1. \A i \in 1 .. l + 1 : i = l + 1 \/ i \in 1 .. l
        BY <3>6
      <4>2. l + 1 \in 1 .. l + 1 /\ \A i \in 1 .. l : i \in 1 .. l + 1
        BY <3>6
      <4> QED BY <3>6, <4>1, <4>2
    <3>10. {m \in 1 .. k + 1 : msgs[t][m] \in DOMAIN I2c!Commands} =
             {m \in 1 .. k : msgs[t][m] \in DOMAIN I2c!Commands} \cup {k + 1}
      BY <3>1, <3>2
    <3>11. \A i, j \in 1 .. l + 1 : i < j => sent'[t][i] < sent'[t][j]
      <4> SUFFICES ASSUME NEW i \in 1 .. l + 1, NEW j \in 1 .. l + 1, i < j
                   PROVE  sent'[t][i] < sent'[t][j]
        OBVIOUS
      <4>1. i \in 1 .. l
        BY <3>6
      <4>2. CASE j = l + 1
        <5>1. s[i] \in 1 .. k
          BY <3>8, <4>1
        <5> QED BY <3>2, <3>6, <4>1, <4>2, <5>1
      <4>3. CASE j # l + 1
        <5>1. j \in 1 .. l
          BY <3>6, <4>3
        <5> QED BY <3>6, <3>7, <4>1, <5>1
      <4> QED BY <4>2, <4>3
    <3>12. I2c!SentIsTold(t)'
      BY <3>1, <3>5, <3>6, <3>7, <3>9, <3>10, <3>11 DEF I2c!SentIsTold
    <3>13. ASSUME NEW u \in Tasks, u # t PROVE I2c!SentIsTold(u)'
      <4>1. sent'[u] = sent[u] /\ i2c_count'[u] = i2c_count[u] /\ msgs' = msgs
        BY <1>a, <3>1, <3>13 DEF I2cTypes
      <4>2. I2c!SentIsTold(u)' <=> I2c!SentIsTold(u)
        BY <4>1, Zenon DEF I2c!SentIsTold
      <4> QED BY <1>a, <4>2
    <3> QED BY <3>4, <3>12, <3>13 DEF I2cInv
  <2> QED BY <2>1, <2>2
<1>6. ASSUME NEW t \in Tasks, I2c!EndLoop(t) PROVE I2cInv'
  <2>1. UNCHANGED <<msgs, i2c_count, sent>> /\ ret' \in [Tasks -> BOOLEAN]
    BY <1>6, <1>a, Zenon DEF I2c!EndLoop, I2cTypes
  <2> QED BY <2>1, I2cSame
<1>7. ASSUME NEW t \in Tasks, I2c!Return(t) PROVE I2cInv'
  <2>1. ret' \in [Tasks -> BOOLEAN]
    BY <1>7, <1>a, Zenon DEF I2c!Return, I2cTypes
  <2>2. /\ msgs' = [msgs EXCEPT ![t] = <<>>]
        /\ i2c_count' = [i2c_count EXCEPT ![t] = 0]
        /\ sent' = [sent EXCEPT ![t] = <<>>]
    BY <1>7 DEF I2c!Return
  <2>3. I2cTypes'
    BY <1>a, <2>1, <2>2 DEF I2cTypes
  <2>4. I2c!SentIsTold(t)'
    BY <1>a, <2>2 DEF I2cTypes, I2c!SentIsTold
  <2>5. ASSUME NEW u \in Tasks, u # t PROVE I2c!SentIsTold(u)'
    BY <1>a, <2>2, <2>5 DEF I2cTypes, I2c!SentIsTold
  <2> QED BY <2>3, <2>4, <2>5 DEF I2cInv
<1> QED
  BY <1>1, <1>2, <1>3, <1>4, <1>5, <1>6, <1>7 DEF I2c!Next, I2c!SendMessage

\* The words of a link; the heap that the transfers share.
LinkWords == {"none", "start", "address", "write", "read", "read_byte", "stop"}

I2cLinks ==
  /\ free \in Nat
  /\ link \in [Tasks -> Seq(LinkWords)]
  /\ failed \in BOOLEAN

\* Until a message fails, what is not free is held by a link.
HeapInv ==
  /\ I2cLinks
  /\ failed = FALSE =>
       IsFiniteSet(I2c!Taken) /\ free + Cardinality(I2c!Taken) = Heap

\* After a failure nothing is promised of the heap.
LEMMA HeapFailed == ASSUME I2cLinks', failed' = TRUE PROVE HeapInv'
BY DEF HeapInv

LEMMA CommandsHold ==
  ASSUME NEW m \in DOMAIN I2c!Commands
  PROVE  /\ I2c!Commands[m] \in Seq(LinkWords)
         /\ Len(I2c!Commands[m]) \in {4, 5}
         /\ I2c!Commands[m][1] = "start"
<1>1. m \in {"write", "read", "read one"}
  BY DEF I2c!Commands
<1>2. CASE m = "write"
  BY <1>2 DEF I2c!Commands, LinkWords
<1>3. CASE m = "read"
  BY <1>3 DEF I2c!Commands, LinkWords
<1>4. CASE m = "read one"
  <2>1. I2c!Commands[m] = <<"start", "address", "read_byte", "stop">>
    BY <1>4 DEF I2c!Commands
  <2> QED BY <2>1 DEF LinkWords
<1> QED BY <1>1, <1>2, <1>3, <1>4

\* A link without commands takes a block, and each command another.
LEMMA LinkBlocks ==
  ASSUME I2cLinks, NEW t \in Tasks
  PROVE  /\ I2c!Blocks(t) \in Nat
         /\ I2c!Blocks(t) = IF link[t] = I2c!NoLink THEN 0 ELSE 1 + Len(link[t])
BY DEF I2cLinks, I2c!Blocks

LEMMA TakenIs ==
  \A b : b \in I2c!Taken <=>
           \E t \in Tasks : \E i \in 1 .. I2c!Blocks(t) : b = <<t, i>>
BY DEF I2c!Taken

\* A block more for task t.
LEMMA TakeOne ==
  ASSUME HeapInv, I2cLinks', NEW t \in Tasks, failed = FALSE,
         free # 0, free' = free - 1, I2c!Blocks(t)' = I2c!Blocks(t) + 1,
         \A u \in Tasks \ {t} : I2c!Blocks(u)' = I2c!Blocks(u)
  PROVE  HeapInv'
<1> DEFINE n == I2c!Blocks(t)
<1>1. n \in Nat /\ free \in Nat
  BY LinkBlocks DEF HeapInv, I2cLinks
<1>2. I2c!Taken' = I2c!Taken \cup {<<t, n + 1>>}
  <2>1. ASSUME NEW b
        PROVE  b \in I2c!Taken' <=> b \in I2c!Taken \/ b = <<t, n + 1>>
    <3>1. b \in I2c!Taken' <=>
            \E u \in Tasks : \E i \in 1 .. I2c!Blocks(u)' : b = <<u, i>>
      BY DEF I2c!Taken
    <3>2. b \in I2c!Taken <=>
            \E u \in Tasks : \E i \in 1 .. I2c!Blocks(u) : b = <<u, i>>
      BY TakenIs
    <3>3. \A i : i \in 1 .. n + 1 <=> i \in 1 .. n \/ i = n + 1
      BY <1>1
    <3> HIDE DEF n
    <3>4. I2c!Blocks(t)' = n + 1 /\ I2c!Blocks(t) = n
      BY DEF n
    <3> QED BY <3>1, <3>2, <3>3, <3>4
  <2> QED BY <2>1
<1>3. <<t, n + 1>> \notin I2c!Taken
  BY <1>1, TakenIs
<1>4. IsFiniteSet(I2c!Taken) /\ free + Cardinality(I2c!Taken) = Heap
  BY DEF HeapInv
<1>5. /\ IsFiniteSet(I2c!Taken')
      /\ Cardinality(I2c!Taken') = Cardinality(I2c!Taken) + 1
  BY <1>2, <1>3, <1>4, FS_AddElement
<1>6. Cardinality(I2c!Taken) \in Nat
  BY <1>4, FS_CardinalityType
<1> QED BY <1>1, <1>4, <1>5, <1>6 DEF HeapInv

\* All blocks of task t back.
LEMMA GiveAll ==
  ASSUME HeapInv, I2cLinks', NEW t \in Tasks, failed = FALSE,
         free' = free + I2c!Blocks(t), I2c!Blocks(t)' = 0,
         \A u \in Tasks \ {t} : I2c!Blocks(u)' = I2c!Blocks(u)
  PROVE  HeapInv'
<1> DEFINE n == I2c!Blocks(t)
           S == {t} \X (1 .. n)
<1>1. n \in Nat /\ free \in Nat
  BY LinkBlocks DEF HeapInv, I2cLinks
<1>2. I2c!Taken' = I2c!Taken \ S
  <2>1. ASSUME NEW b PROVE b \in I2c!Taken' <=> b \in I2c!Taken /\ b \notin S
    <3>1. b \in I2c!Taken' <=>
            \E u \in Tasks : \E i \in 1 .. I2c!Blocks(u)' : b = <<u, i>>
      BY DEF I2c!Taken
    <3>2. b \in I2c!Taken <=>
            \E u \in Tasks : \E i \in 1 .. I2c!Blocks(u) : b = <<u, i>>
      BY TakenIs
    <3>3. b \in S <=> \E i \in 1 .. I2c!Blocks(t) : b = <<t, i>>
      OBVIOUS
    <3> HIDE DEF S
    <3>4. \A i : i \notin 1 .. 0
      OBVIOUS
    <3> QED BY <3>1, <3>2, <3>3, <3>4
  <2> QED BY <2>1
<1>3. I2c!Taken \cap S = S
  <2>1. \A b \in S : b \in I2c!Taken
    BY TakenIs
  <2> QED BY <2>1
<1>4. IsFiniteSet(I2c!Taken) /\ free + Cardinality(I2c!Taken) = Heap
  BY DEF HeapInv
<1>5. Cardinality(S) = n
  <2>1. IsFiniteSet(1 .. n) /\ Cardinality(1 .. n) = n
    BY <1>1, FS_Interval
  <2>2. IsFiniteSet({t}) /\ Cardinality({t}) = 1
    BY FS_Singleton
  <2>3. Cardinality(S) = Cardinality({t}) * Cardinality(1 .. n)
    BY <2>1, <2>2, FS_Product
  <2> QED BY <1>1, <2>1, <2>2, <2>3
<1> HIDE DEF S
<1>6. /\ IsFiniteSet(I2c!Taken')
      /\ Cardinality(I2c!Taken') = Cardinality(I2c!Taken) - n
  <2>1. /\ IsFiniteSet(I2c!Taken \ S)
        /\ Cardinality(I2c!Taken \ S) =
             Cardinality(I2c!Taken) - Cardinality(I2c!Taken \cap S)
    BY <1>4, FS_Difference
  <2> QED BY <1>2, <1>3, <1>5, <2>1
<1>7. Cardinality(I2c!Taken) \in Nat
  BY <1>4, FS_CardinalityType
<1> QED BY <1>1, <1>4, <1>6, <1>7 DEF HeapInv, n

\* The links change for task t only.
LEMMA OtherBlocks ==
  ASSUME I2cLinks, NEW t \in Tasks, NEW l, link' = [link EXCEPT ![t] = l]
  PROVE  /\ link'[t] = l
         /\ \A u \in Tasks \ {t} : I2c!Blocks(u)' = I2c!Blocks(u)
BY DEF I2cLinks, I2c!Blocks

LEMMA HeapInit == Init => HeapInv
<1> SUFFICES ASSUME I2c!Init PROVE HeapInv
  BY DEF Init
<1>1. Heap \in Nat
  BY DriversAssumption DEF I2c!ConstantsOK
<1>2. I2c!NoLink \in Seq(LinkWords)
  BY DEF I2c!NoLink, LinkWords
<1>3. I2cLinks
  BY <1>1, <1>2 DEF I2c!Init, I2cLinks
<1>4. I2c!Taken = {}
  <2>1. \A t \in Tasks : I2c!Blocks(t) = 0
    BY DEF I2c!Init, I2c!Blocks
  <2>2. \A i : i \notin 1 .. 0
    OBVIOUS
  <2>3. \A b : b \notin I2c!Taken
    BY <2>1, <2>2, TakenIs
  <2> QED BY <2>3
<1>5. IsFiniteSet(I2c!Taken) /\ Cardinality(I2c!Taken) = 0
  BY <1>4, FS_EmptySet
<1>6. free = Heap
  BY DEF I2c!Init
<1> QED BY <1>1, <1>3, <1>5, <1>6 DEF HeapInv

LEMMA HeapBreak ==
  ASSUME HeapInv, NEW t \in Tasks, I2c!Break(t)
  PROVE  HeapInv'
<1>1. I2c!NoLink \in Seq(LinkWords)
  BY DEF I2c!NoLink, LinkWords
<1>2. I2cLinks'
  BY <1>1 DEF HeapInv, I2cLinks, I2c!Break
<1> QED BY <1>2, HeapFailed DEF I2c!Break

LEMMA HeapNext == HeapInv /\ [Next]_vars => HeapInv'
<1> SUFFICES ASSUME HeapInv, [I2c!Next]_i2cVars PROVE HeapInv'
  BY EachSteps
<1>0. I2cLinks
  BY DEF HeapInv
<1>1. CASE UNCHANGED <<free, link, failed>>
  <2>1. I2c!Taken' = I2c!Taken
    BY <1>1 DEF I2c!Taken, I2c!Blocks
  <2> QED BY <1>1, <2>1 DEF HeapInv, I2cLinks
<1>2. ASSUME NEW t \in Tasks, I2c!CreateLink(t), ~I2c!Break(t) PROVE HeapInv'
  <2>1. /\ link[t] = I2c!NoLink /\ free # 0 /\ free' = free - 1
        /\ link' = [link EXCEPT ![t] = <<>>] /\ failed' = failed
    BY <1>2 DEF I2c!CreateLink
  <2>2. link'[t] = <<>> /\ \A u \in Tasks \ {t} : I2c!Blocks(u)' = I2c!Blocks(u)
    BY <1>0, <2>1, OtherBlocks
  <2>3. I2cLinks'
    BY <1>0, <2>1 DEF I2cLinks
  <2>4. I2c!Blocks(t) = 0 /\ I2c!Blocks(t)' = 1
    BY <2>1, <2>2 DEF I2c!Blocks, I2c!NoLink
  <2>5. CASE failed # FALSE
    <3>1. failed' = TRUE
      BY <1>0, <2>1, <2>5 DEF I2cLinks
    <3> QED BY <2>3, <3>1, HeapFailed
  <2>6. I2c!Blocks(t)' = I2c!Blocks(t) + 1
    BY <2>4
  <2>7. CASE failed = FALSE
    BY <2>1, <2>2, <2>3, <2>6, <2>7, TakeOne
  <2> QED BY <2>5, <2>7
<1>3. ASSUME NEW t \in Tasks, I2c!AddCommand(t), ~I2c!Break(t) PROVE HeapInv'
  <2> DEFINE m == I2c!Message(t)
             w == I2c!Commands[m][Len(link[t]) + 1]
  <2>1. /\ link[t] # I2c!NoLink /\ free # 0 /\ free' = free - 1
        /\ link' = [link EXCEPT ![t] = Append(link[t], w)] /\ failed' = failed
        /\ m \in DOMAIN I2c!Commands /\ Len(link[t]) < Len(I2c!Commands[m])
    BY <1>3 DEF I2c!AddCommand, I2c!Incomplete, I2c!Current
  <2>2. /\ link'[t] = Append(link[t], w)
        /\ \A u \in Tasks \ {t} : I2c!Blocks(u)' = I2c!Blocks(u)
    BY <1>0, <2>1, OtherBlocks
  <2>3. link[t] \in Seq(LinkWords) /\ Len(link[t]) \in Nat
    BY <1>0 DEF I2cLinks
  <2>4. w \in LinkWords /\ (Len(link[t]) = 0 => w = "start")
    BY <2>1, <2>3, CommandsHold
  <2> HIDE DEF w
  <2>5. I2cLinks'
    BY <1>0, <2>1, <2>3, <2>4 DEF I2cLinks
  <2>6. Len(link'[t]) = Len(link[t]) + 1 /\ link'[t] # I2c!NoLink
    <3>1. /\ Len(Append(link[t], w)) = Len(link[t]) + 1
          /\ Append(link[t], w)[Len(link[t]) + 1] = w
      BY <2>3, <2>4
    <3>2. Len(I2c!NoLink) = 1 /\ I2c!NoLink[1] = "none"
      BY DEF I2c!NoLink
    <3>3. CASE Len(link[t]) = 0
      BY <2>2, <2>4, <3>1, <3>2, <3>3
    <3>4. CASE Len(link[t]) # 0
      <4>1. Len(link'[t]) = Len(link[t]) + 1
        BY <2>2, <3>1
      <4>2. Len(link'[t]) # Len(I2c!NoLink)
        BY <2>3, <3>2, <3>4, <4>1
      <4> QED BY <4>1, <4>2
    <3> QED BY <3>3, <3>4
  <2>7. I2c!Blocks(t)' = I2c!Blocks(t) + 1
    BY <2>1, <2>3, <2>6 DEF I2c!Blocks
  <2>8. CASE failed # FALSE
    <3>1. failed' = TRUE
      BY <1>0, <2>1, <2>8 DEF I2cLinks
    <3> QED BY <2>5, <3>1, HeapFailed
  <2>9. CASE failed = FALSE
    BY <2>1, <2>2, <2>5, <2>7, <2>9, TakeOne
  <2> QED BY <2>8, <2>9
<1>4. ASSUME NEW t \in Tasks, I2c!ExecuteLink(t), ~I2c!Break(t) PROVE HeapInv'
  <2>1. /\ free' = free + I2c!Blocks(t) /\ failed' = failed
        /\ link' = [link EXCEPT ![t] = I2c!NoLink]
    BY <1>4 DEF I2c!ExecuteLink
  <2>2. /\ link'[t] = I2c!NoLink
        /\ \A u \in Tasks \ {t} : I2c!Blocks(u)' = I2c!Blocks(u)
    BY <1>0, <2>1, OtherBlocks
  <2>3. I2c!NoLink \in Seq(LinkWords)
    BY DEF I2c!NoLink, LinkWords
  <2>4. I2cLinks'
    BY <1>0, <2>1, <2>3, LinkBlocks DEF I2cLinks
  <2>5. I2c!Blocks(t)' = 0
    BY <2>2 DEF I2c!Blocks
  <2>6. CASE failed # FALSE
    <3>1. failed' = TRUE
      BY <1>0, <2>1, <2>6 DEF I2cLinks
    <3> QED BY <2>4, <3>1, HeapFailed
  <2>7. CASE failed = FALSE
    BY <2>1, <2>2, <2>4, <2>5, <2>7, GiveAll
  <2> QED BY <2>6, <2>7
<1>5. ASSUME NEW t \in Tasks,
             \/ I2c!I2cDataTransfer(t) \/ I2c!Skip(t)
             \/ I2c!EndLoop(t) \/ I2c!Return(t)
      PROVE  HeapInv'
  BY <1>1, <1>5 DEF I2c!I2cDataTransfer, I2c!Skip, I2c!EndLoop, I2c!Return
<1>6. UNCHANGED i2cVars => HeapInv'
  BY <1>1 DEF i2cVars
<1> QED
  BY <1>2, <1>3, <1>4, <1>5, <1>6, HeapBreak DEF I2c!Next, I2c!SendMessage

-----------------------------------------------------------------------------
(* I2cDriver *)

I2cController ==
  [state : {"live", "freed"}, resource : {"none", "live", "freed"},
   busId : Buses, device : I2cDevices]

I2cEntryTypes ==
  /\ i2c_priv \in [I2cDevices -> SUBSET Cntlrs]
  /\ i2c_cntlr \in [Cntlrs -> {I2cEntry!Unused} \cup I2cController]
  /\ table \in [Buses -> SUBSET Cntlrs]
       /\ setup \in [Buses -> SUBSET I2cDevices]
  /\ tried \in SUBSET I2cDevices
  /\ released \in SUBSET Cntlrs /\ misused \in SUBSET Cntlrs

\* What a device or the table names was allocated.
I2cNamed ==
  /\ \A d \in I2cDevices : \A c \in i2c_priv[d] : i2c_cntlr[c] # I2cEntry!Unused
  /\ \A b \in Buses : \A c \in table[b] : i2c_cntlr[c] # I2cEntry!Unused

I2cEntryInv == I2cEntryTypes /\ I2cNamed /\ I2cEntry!BusIsServed

LEMMA I2cEntryInit == Init => I2cEntryInv
<1> SUFFICES ASSUME I2cEntry!Init PROVE I2cEntryInv
  BY DEF Init
<1>1. I2cEntryTypes
  BY DEF I2cEntry!Init, I2cEntryTypes
<1>2. I2cNamed
  BY DEF I2cEntry!Init, I2cNamed
<1>3. I2cEntry!BusIsServed
  BY DEF I2cEntry!Init, I2cEntry!BusIsServed, I2cEntry!Unused
<1> QED BY <1>1, <1>2, <1>3 DEF I2cEntryInv

\* What OsalMemFree leaves of a controller, and what an Init makes of a new one.
LEMMA FreedIs ==
  ASSUME NEW r \in I2cController
  PROVE  /\ I2cEntry!Freed(r) \in I2cController
         /\ I2cEntry!Freed(r).resource = "freed"
  BY DEF I2cController, I2cEntry!Freed

Host(d, b) == [I2cEntry!Fresh(d) EXCEPT !.resource = "live", !.busId = b]

LEMMA HostIs ==
  ASSUME NEW d \in I2cDevices, NEW b \in Buses
  PROVE  /\ I2cEntry!Fresh(d) \in I2cController
         /\ I2cEntry!Fresh(d).resource = "none"
         /\ Host(d, b) \in I2cController
         /\ Host(d, b).state = "live" /\ Host(d, b).resource = "live"
         /\ Host(d, b).busId = b /\ Host(d, b).device = d
<1>1. 0 \in Buses
  BY DriversAssumption DEF I2cEntry!ConstantsOK
<1> QED BY <1>1 DEF I2cController, I2cEntry!Fresh, Host

LEMMA I2cEntryNext == I2cEntryInv /\ [Next]_vars => I2cEntryInv'
<1> SUFFICES ASSUME I2cEntryInv, [I2cEntry!Next]_i2cEntryVars PROVE I2cEntryInv'
  BY EachSteps
<1> USE DEF I2cEntryInv, I2cEntry!BusIsServed
<1>0. 0 \in Buses /\ \A d \in I2cDevices : I2cEntry!Port(d) \in Buses
  BY DriversAssumption DEF I2cEntry!ConstantsOK, I2cEntry!Port
<1>1. CASE UNCHANGED i2cEntryVars
  BY <1>1 DEF I2cEntryTypes, I2cNamed, i2cEntryVars
<1>2. ASSUME NEW d \in I2cDevices, I2cEntry!I2cDriverInit(d) PROVE I2cEntryInv'
  <2>0. tried' = tried \cup {d} /\ UNCHANGED <<released, misused>>
    BY <1>2 DEF I2cEntry!I2cDriverInit
  <2>1. CASE UNCHANGED <<i2c_priv, i2c_cntlr, table, setup>>
    BY <2>0, <2>1 DEF I2cEntryTypes, I2cNamed
  <2>2. ASSUME NEW c \in Cntlrs, i2c_cntlr[c] = I2cEntry!Unused,
               i2c_priv' = [i2c_priv EXCEPT ![d] = {c}],
               \/ I2cEntry!NoResource(d, c) \/ I2cEntry!NoNode(d, c)
               \/ I2cEntry!Attached(d, c)
        PROVE  I2cEntryInv'
    <3> DEFINE p == I2cEntry!Port(d)
               host == Host(d, p)
    <3>1. /\ \A b \in Buses : c \notin table[b] /\ table[b] # i2c_priv'[d]
          /\ \A e \in I2cDevices \ {d} : i2c_priv'[e] = i2c_priv[e]
          /\ p \in Buses
      BY <1>0, <2>2 DEF I2cEntryTypes, I2cNamed
    <3>2. PICK new \in I2cController :
            /\ i2c_cntlr' = [i2c_cntlr EXCEPT ![c] = new]
            /\ \/ new.resource # "live" /\ table' = table
               \/ new = host /\ table[p] = {}
                    /\ table' = [table EXCEPT ![p] = {c}]
            /\ \/ setup' = setup /\ table' = table
               \/ setup' = [setup EXCEPT ![p] = {d}]
      <4>1. CASE I2cEntry!NoResource(d, c)
        BY <4>1, HostIs, <3>1, Zenon DEF I2cEntry!NoResource
      <4>2. CASE I2cEntry!NoNode(d, c)
        BY <4>2, HostIs, <3>1 DEF I2cEntry!NoNode, I2cEntry!Port
      <4>3. CASE I2cEntry!Attached(d, c)
        <5>1. host \in I2cController
          BY <3>1, HostIs
        <5>2. /\ I2cEntry!Freed(host) \in I2cController
              /\ I2cEntry!Freed(host).resource = "freed"
          BY <5>1, FreedIs
        <5>3. /\ setup' = [setup EXCEPT ![p] = {d}]
              /\ IF table[p] = {}
                 THEN /\ i2c_cntlr' = [i2c_cntlr EXCEPT ![c] = host]
                      /\ table' = [table EXCEPT ![p] = {c}]
                 ELSE
                   /\ i2c_cntlr'
                        = [i2c_cntlr EXCEPT ![c] = I2cEntry!Freed(host)]
                      /\ UNCHANGED table
          BY <4>3 DEF I2cEntry!Attached, Host
        <5> QED BY <5>1, <5>2, <5>3
      <4> QED BY <2>2, <4>1, <4>2, <4>3
    <3>3. I2cEntryTypes'
      BY <2>0, <2>2, <3>1, <3>2 DEF I2cEntryTypes
    <3>4. new # I2cEntry!Unused
      BY DEF I2cController, I2cEntry!Unused
    <3>5. I2cNamed'
      BY <2>2, <3>1, <3>2, <3>4 DEF I2cEntryTypes, I2cNamed
    <3>6. \A b \in Buses : \A x \in table'[b] \ released' :
            /\ i2c_cntlr'[x].state = "live" /\ i2c_cntlr'[x].resource = "live"
            /\ i2c_cntlr'[x].busId = b
      BY <2>0, <3>1, <3>2, HostIs DEF I2cEntryTypes
    <3>7. ASSUME NEW b \in Buses, NEW x \in table'[b] \ released'
          PROVE  \/ setup'[b] = {i2c_cntlr'[x].device}
                 \/ \E e \in setup'[b] : table'[b] # i2c_priv'[e]
                      /\ I2cEntry!Port(e) = b
      <4>1. CASE table' = table
        <5>1. x # c /\ x \in table[b] \ released
          BY <2>0, <3>1, <3>7, <4>1
        <5>2. CASE setup'[b] = setup[b]
          BY <3>1, <3>2, <4>1, <5>1, <5>2 DEF I2cEntryTypes
        <5>3. CASE b = p /\ setup'[b] = {d}
          BY <3>1, <4>1, <5>3
        <5> QED BY <3>2, <5>2, <5>3 DEF I2cEntryTypes
      <4>2. CASE table' # table
        <5>1. CASE b = p
          BY <3>1, <3>2, <3>7, <4>2, <5>1, HostIs DEF I2cEntryTypes
        <5>2. CASE b # p
          <6>1. x \in table[b] \ released /\ x # c /\ table'[b] = table[b]
                  /\ setup'[b] = setup[b]
            BY <2>0, <3>1, <3>2, <3>7, <4>2, <5>2 DEF I2cEntryTypes
          <6> QED BY <3>1, <3>2, <6>1 DEF I2cEntryTypes
        <5> QED BY <5>1, <5>2
      <4> QED BY <4>1, <4>2
    <3>8. \A x \in Cntlrs :
            i2c_cntlr'[x] # I2cEntry!Unused
              /\ i2c_cntlr'[x].resource = "live" =>
              x \in table'[i2c_cntlr'[x].busId]
      <4>1. \A b \in Buses : table[b] \subseteq table'[b]
        BY <3>1, <3>2 DEF I2cEntryTypes
      <4>2. ASSUME NEW x \in Cntlrs \ {c}, i2c_cntlr[x] # I2cEntry!Unused,
                   i2c_cntlr[x].resource = "live"
            PROVE  x \in table'[i2c_cntlr[x].busId]
        <5>1. i2c_cntlr[x].busId \in Buses /\ x \in table[i2c_cntlr[x].busId]
          BY <4>2 DEF I2cEntryTypes, I2cController
        <5> QED BY <4>1, <5>1
      <4>3. new.resource = "live" => c \in table'[new.busId]
        BY <3>1, <3>2, HostIs DEF I2cEntryTypes
      <4> QED BY <3>2, <4>2, <4>3 DEF I2cEntryTypes
    <3> QED BY <2>0, <3>3, <3>5, <3>6, <3>7, <3>8
  <2> QED BY <1>2, <2>1, <2>2 DEF I2cEntry!I2cDriverInit
<1>3. ASSUME NEW d \in I2cDevices, I2cEntry!I2cDriverRelease(d)
               PROVE I2cEntryInv'
  <2>1. /\ tried' = tried \ {d} /\ released' = released \cup i2c_priv[d]
        /\ misused' = misused
             \cup {c \in i2c_priv[d] : i2c_cntlr[c].state = "freed"}
        /\ UNCHANGED <<i2c_priv, table, setup>>
    BY <1>3 DEF I2cEntry!I2cDriverRelease
  <2>2. ASSUME NEW c \in Cntlrs
        PROVE  \/ i2c_cntlr'[c] = i2c_cntlr[c]
               \/ /\ i2c_cntlr'[c] \in I2cController
                  /\ i2c_cntlr'[c].resource = "freed"
                  /\ c \in i2c_priv[d]
    <3>1. CASE c \in i2c_priv[d] /\ i2c_cntlr[c].resource # "none"
      <4>1. i2c_cntlr[c] \in I2cController
        BY <3>1 DEF I2cEntryTypes, I2cNamed
      <4>2. i2c_cntlr'[c] = I2cEntry!Freed(i2c_cntlr[c])
        BY <1>3, <3>1 DEF I2cEntry!I2cDriverRelease
      <4> QED BY <3>1, <4>1, <4>2, FreedIs DEF I2cController
    <3>2. CASE ~(c \in i2c_priv[d] /\ i2c_cntlr[c].resource # "none")
      BY <1>3, <3>2 DEF I2cEntry!I2cDriverRelease
    <3> QED BY <3>1, <3>2
  <2>3. I2cEntryTypes'
    <3>1. DOMAIN i2c_cntlr' = Cntlrs
          /\ i2c_cntlr' = [c \in Cntlrs |-> i2c_cntlr'[c]]
      BY <1>3 DEF I2cEntry!I2cDriverRelease
    <3>2. i2c_cntlr' \in [Cntlrs -> {I2cEntry!Unused} \cup I2cController]
      BY <2>2, <3>1 DEF I2cEntryTypes
    <3> QED BY <2>1, <3>2 DEF I2cEntryTypes
  <2>4. \A r \in I2cController : r # I2cEntry!Unused
    BY DEF I2cController, I2cEntry!Unused
  <2>5. I2cNamed'
    BY <2>1, <2>2, <2>4 DEF I2cEntryTypes, I2cNamed
  <2>6. I2cEntry!BusIsServed'
    BY <2>1, <2>2 DEF I2cEntryTypes
  <2> QED BY <2>3, <2>5, <2>6
<1>4. ASSUME NEW b \in Buses, I2cEntry!I2cDataTransfer(b) PROVE I2cEntryInv'
  BY <1>4 DEF I2cEntry!I2cDataTransfer, I2cEntryTypes, I2cNamed
<1> QED BY <1>1, <1>2, <1>3, <1>4 DEF I2cEntry!Next

-----------------------------------------------------------------------------
(* RtcWatchdog *)

\* The watchdog runs if a client wants it to, counts from the last feeding, and
\* holds as much of the time that was promised as fits.
WdtInv ==
  /\ Wdt!TypeOK
  /\ enabled = wanted
  /\ enabled => wdt_count = elapsed
  /\ cfg1 = promised % WdtWord
  /\ bitten => Wdt!Due

LEMMA WdtInit == Init => WdtInv
<1> SUFFICES ASSUME Wdt!Init PROVE WdtInv
  BY DEF Init
<1>0. {Ticks, WdtWord, MaxSeconds, MaxElapsed} \subseteq Nat \ {0}
  BY DriversAssumption DEF Wdt!ConstantsOK
<1>1. /\ starting \in BOOLEAN /\ enabled \in BOOLEAN /\ bitten \in BOOLEAN
      /\ wanted \in BOOLEAN /\ enabled = wanted /\ ~enabled /\ ~bitten
  BY Zenon DEF Wdt!Init
<1>2. Wdt!ResetCfg1 % WdtWord = Wdt!ResetCfg1
  BY <1>0, ModSmall DEF Wdt!ResetCfg1
<1> QED BY <1>0, <1>1, <1>2 DEF Wdt!Init, WdtInv, Wdt!TypeOK, Wdt!ResetCfg1

LEMMA WdtNext == WdtInv /\ [Next]_vars => WdtInv'
<1> SUFFICES ASSUME WdtInv, [Wdt!Next]_wdtVars PROVE WdtInv'
  BY EachSteps
<1>0. {Ticks, WdtWord, MaxSeconds, MaxElapsed} \subseteq Nat \ {0}
  BY DriversAssumption DEF Wdt!ConstantsOK
<1> USE DEF WdtInv, Wdt!hwVars, Wdt!history, Wdt!Running, Wdt!Free
<1>1. CASE UNCHANGED wdtVars
  BY <1>1 DEF Wdt!TypeOK, wdtVars, Wdt!Due
<1>2. CASE Wdt!Tick
  <2>1. /\ starting' \in BOOLEAN /\ enabled' \in BOOLEAN /\ bitten' \in BOOLEAN
        /\ wanted' \in BOOLEAN /\ enabled' = wanted'
    BY <1>2, Zenon DEF Wdt!Tick, Wdt!TypeOK
  <2>2. Wdt!TypeOK'
    BY <1>0, <1>2, <2>1 DEF Wdt!Tick, Wdt!TypeOK
  <2>3. (enabled => wdt_count = elapsed)' /\ (bitten => Wdt!Due)'
    BY <1>2 DEF Wdt!Tick, Wdt!TypeOK, Wdt!Due
  <2>4. (cfg1 = promised % WdtWord)'
    BY <1>0, <1>2, ModSmall DEF Wdt!Tick, Wdt!TypeOK
  <2> QED BY <2>1, <2>2, <2>3, <2>4
<1>3. CASE Wdt!Bite
  <2>1. /\ starting' \in BOOLEAN /\ enabled' \in BOOLEAN /\ bitten' \in BOOLEAN
        /\ wanted' \in BOOLEAN /\ enabled' = wanted'
    BY <1>3, Zenon DEF Wdt!Bite, Wdt!TypeOK
  <2>2. Wdt!TypeOK'
    BY <1>0, <1>3, <2>1 DEF Wdt!Bite, Wdt!TypeOK
  <2>3. (enabled => wdt_count = elapsed)' /\ (bitten => Wdt!Due)'
    BY <1>3 DEF Wdt!Bite, Wdt!TypeOK, Wdt!Due
  <2>4. (cfg1 = promised % WdtWord)'
    BY <1>0, <1>3, ModSmall DEF Wdt!Bite, Wdt!TypeOK
  <2> QED BY <2>1, <2>2, <2>3, <2>4
<1>4. CASE Wdt!Restart
  <2>1. /\ starting' \in BOOLEAN /\ enabled' \in BOOLEAN /\ bitten' \in BOOLEAN
        /\ wanted' \in BOOLEAN /\ enabled' = wanted'
    BY <1>4, Zenon DEF Wdt!Restart, Wdt!TypeOK
  <2>2. Wdt!TypeOK'
    BY <1>0, <1>4, <2>1 DEF Wdt!Restart, Wdt!TypeOK, Wdt!ResetCfg1
  <2>3. (enabled => wdt_count = elapsed)' /\ (bitten => Wdt!Due)'
    BY <1>4 DEF Wdt!Restart, Wdt!TypeOK, Wdt!Due
  <2>4. (cfg1 = promised % WdtWord)'
    BY <1>0, <1>4, ModSmall DEF Wdt!Restart, Wdt!TypeOK, Wdt!ResetCfg1
  <2> QED BY <2>1, <2>2, <2>3, <2>4
<1>5. CASE Wdt!StartEnable
  <2>1. /\ starting' \in BOOLEAN /\ enabled' \in BOOLEAN /\ bitten' \in BOOLEAN
        /\ wanted' \in BOOLEAN /\ enabled' = wanted'
    BY <1>5, Zenon DEF Wdt!StartEnable, Wdt!TypeOK
  <2>2. Wdt!TypeOK'
    BY <1>0, <1>5, <2>1 DEF Wdt!StartEnable, Wdt!TypeOK
  <2>3. (enabled => wdt_count = elapsed)' /\ (bitten => Wdt!Due)'
    BY <1>5 DEF Wdt!StartEnable, Wdt!TypeOK, Wdt!Due
  <2>4. (cfg1 = promised % WdtWord)'
    BY <1>0, <1>5, ModSmall DEF Wdt!StartEnable, Wdt!TypeOK
  <2> QED BY <2>1, <2>2, <2>3, <2>4
<1>6. CASE Wdt!StartProgram
  <2>1. /\ starting' \in BOOLEAN /\ enabled' \in BOOLEAN /\ bitten' \in BOOLEAN
        /\ wanted' \in BOOLEAN /\ enabled' = wanted'
    BY <1>6, Zenon DEF Wdt!StartProgram, Wdt!TypeOK
  <2>2. Wdt!TypeOK'
    <3>1. timeout * Ticks \in 0 .. MaxSeconds * Ticks
      <4>1. timeout \in Nat /\ Ticks \in Nat /\ MaxSeconds \in Nat
            /\ MaxSeconds - timeout \in Nat
        BY <1>0 DEF Wdt!TypeOK
      <4>2. (MaxSeconds - timeout) * Ticks \in Nat /\ timeout * Ticks \in Nat
        BY <4>1
      <4> QED BY <4>1, <4>2
    <3>2. (timeout * Ticks) % WdtWord \in 0 .. WdtWord - 1
      <4>1. timeout * Ticks \in Int
        BY <1>0 DEF Wdt!TypeOK
      <4> QED BY <1>0, <4>1, ModRange, Zenon
    <3> QED BY <1>6, <2>1, <3>1, <3>2 DEF Wdt!StartProgram, Wdt!TypeOK
  <2>3. (enabled => wdt_count = elapsed)' /\ (bitten => Wdt!Due)'
    BY <1>6 DEF Wdt!StartProgram, Wdt!TypeOK, Wdt!Due
  <2>4. (cfg1 = promised % WdtWord)'
    BY <1>0, <1>6, ModSmall DEF Wdt!StartProgram, Wdt!TypeOK
  <2> QED BY <2>1, <2>2, <2>3, <2>4
<1>7. CASE Wdt!WatchdogDevStop
  <2>1. /\ starting' \in BOOLEAN /\ enabled' \in BOOLEAN /\ bitten' \in BOOLEAN
        /\ wanted' \in BOOLEAN /\ enabled' = wanted'
    BY <1>7, Zenon DEF Wdt!WatchdogDevStop, Wdt!TypeOK
  <2>2. Wdt!TypeOK'
    BY <1>0, <1>7, <2>1 DEF Wdt!WatchdogDevStop, Wdt!TypeOK
  <2>3. (enabled => wdt_count = elapsed)' /\ (bitten => Wdt!Due)'
    BY <1>7 DEF Wdt!WatchdogDevStop, Wdt!TypeOK, Wdt!Due
  <2>4. (cfg1 = promised % WdtWord)'
    BY <1>0, <1>7, ModSmall DEF Wdt!WatchdogDevStop, Wdt!TypeOK
  <2> QED BY <2>1, <2>2, <2>3, <2>4
<1>8. CASE Wdt!WatchdogDevSetTimeout
  <2>1. /\ starting' \in BOOLEAN /\ enabled' \in BOOLEAN /\ bitten' \in BOOLEAN
        /\ wanted' \in BOOLEAN /\ enabled' = wanted'
    BY <1>8, Zenon DEF Wdt!WatchdogDevSetTimeout, Wdt!TypeOK
  <2>2. Wdt!TypeOK'
    BY <1>0, <1>8, <2>1 DEF Wdt!WatchdogDevSetTimeout, Wdt!TypeOK
  <2>3. (enabled => wdt_count = elapsed)' /\ (bitten => Wdt!Due)'
    BY <1>8 DEF Wdt!WatchdogDevSetTimeout, Wdt!TypeOK, Wdt!Due
  <2>4. (cfg1 = promised % WdtWord)'
    BY <1>0, <1>8, ModSmall DEF Wdt!WatchdogDevSetTimeout, Wdt!TypeOK
  <2> QED BY <2>1, <2>2, <2>3, <2>4
<1>9. CASE Wdt!WatchdogDevFeed
  <2>1. /\ starting' \in BOOLEAN /\ enabled' \in BOOLEAN /\ bitten' \in BOOLEAN
        /\ wanted' \in BOOLEAN /\ enabled' = wanted'
    BY <1>9, Zenon DEF Wdt!WatchdogDevFeed, Wdt!TypeOK
  <2>2. Wdt!TypeOK'
    BY <1>0, <1>9, <2>1 DEF Wdt!WatchdogDevFeed, Wdt!TypeOK
  <2>3. (enabled => wdt_count = elapsed)' /\ (bitten => Wdt!Due)'
    BY <1>9 DEF Wdt!WatchdogDevFeed, Wdt!TypeOK, Wdt!Due
  <2>4. (cfg1 = promised % WdtWord)'
    BY <1>0, <1>9, ModSmall DEF Wdt!WatchdogDevFeed, Wdt!TypeOK
  <2> QED BY <2>1, <2>2, <2>3, <2>4
<1> QED BY <1>1, <1>2, <1>3, <1>4, <1>5, <1>6, <1>7, <1>8, <1>9 DEF Wdt!Next

-----------------------------------------------------------------------------
(* WatchdogDriver *)

WdtController ==
  [state : {"live", "freed"}, info : {"none", "live", "freed"}, ops : BOOLEAN]

WdtEntryTypes ==
  /\ stage \in [WdtDevices -> {"new", "bound", "inited"}]
  /\ wdt_service \in [WdtDevices -> SUBSET Cntlrs]
  /\ wdt_cntlr \in [Cntlrs -> {WdtEntry!Unused} \cup WdtController]
  /\ published \in SUBSET Cntlrs
  /\ wdt_released \in SUBSET Cntlrs /\ wdt_misused \in SUBSET Cntlrs

\* A controller that a device names was allocated for that device; it is new
\* while the device is bound, and released when it can be bound again.
WdtOwners ==
  /\ \A d \in WdtDevices : \A c \in wdt_service[d] :
       /\ wdt_cntlr[c] # WdtEntry!Unused
       /\ \A e \in WdtDevices : c \in wdt_service[e] => e = d
       /\ stage[d] = "bound" => c \notin published
       /\ stage[d] = "new" => c \in wdt_released
  /\ \A c \in published : wdt_cntlr[c] # WdtEntry!Unused

WdtEntryInv == WdtEntryTypes /\ WdtOwners /\ WdtEntry!FoundIsWhole

LEMMA WdtEntryInit == Init => WdtEntryInv
<1> SUFFICES ASSUME WdtEntry!Init PROVE WdtEntryInv
  BY DEF Init
<1>1. WdtEntryTypes
  BY DEF WdtEntry!Init, WdtEntryTypes
<1>2. WdtOwners
  BY DEF WdtEntry!Init, WdtOwners
<1>3. WdtEntry!FoundIsWhole
  BY DEF WdtEntry!Init, WdtEntry!FoundIsWhole, WdtEntry!Unused
<1> QED BY <1>1, <1>2, <1>3 DEF WdtEntryInv

LEMMA WdtEntryNext == WdtEntryInv /\ [Next]_vars => WdtEntryInv'
<1> SUFFICES ASSUME WdtEntryInv, [WdtEntry!Next]_wdtEntryVars PROVE WdtEntryInv'
  BY EachSteps
<1> USE DEF WdtEntryInv, WdtEntry!FoundIsWhole
<1>1. CASE UNCHANGED wdtEntryVars
  BY <1>1 DEF WdtEntryTypes, WdtOwners, wdtEntryVars
<1>2. ASSUME NEW d \in WdtDevices, WdtEntry!WatchdogDriverBind(d)
      PROVE  WdtEntryInv'
  <2>1. CASE UNCHANGED <<wdt_cntlr, wdt_service, stage>>
    BY <1>2, <2>1 DEF WdtEntry!WatchdogDriverBind, WdtEntryTypes, WdtOwners
  <2>2. ASSUME NEW c \in Cntlrs,
               wdt_cntlr[c] = WdtEntry!Unused,
               wdt_cntlr' = [wdt_cntlr EXCEPT ![c] =
                 [state |-> "live", info |-> "none", ops |-> FALSE]],
               wdt_service' = [wdt_service EXCEPT ![d] = {c}],
               stage' = [stage EXCEPT ![d] = "bound"]
        PROVE  WdtEntryInv'
    <3>0. stage[d] = "new" /\ UNCHANGED <<published, wdt_released, wdt_misused>>
      BY <1>2 DEF WdtEntry!WatchdogDriverBind
    <3>1. WdtEntryTypes'
      <4>1. wdt_cntlr' \in [Cntlrs -> {WdtEntry!Unused} \cup WdtController]
        BY <2>2, Zenon DEF WdtEntryTypes, WdtController
      <4> QED BY <2>2, <3>0, <4>1 DEF WdtEntryTypes
    <3>2. WdtOwners'
      BY <2>2, <3>0 DEF WdtOwners, WdtEntryTypes, WdtEntry!Unused
    <3>3. WdtEntry!FoundIsWhole'
      BY <2>2, <3>0 DEF WdtOwners, WdtEntryTypes, WdtEntry!Unused
    <3> QED BY <3>1, <3>2, <3>3
  <2> QED BY <1>2, <2>1, <2>2 DEF WdtEntry!WatchdogDriverBind
<1>3. ASSUME NEW d \in WdtDevices, WdtEntry!WatchdogDriverInit(d)
      PROVE  WdtEntryInv'
  <2>1. PICK ok \in WdtEntry!AttachWatchdogDeviceInfo(d) :
          /\ wdt_cntlr' = [c \in Cntlrs |->
               IF c \notin wdt_service[d] THEN wdt_cntlr[c]
               ELSE IF ok
                    THEN [state |-> "live",
                          info |-> IF d \in Matched THEN "live" ELSE "freed",
                          ops |-> TRUE]
                    ELSE [wdt_cntlr[c] EXCEPT !.state = "freed"]]
          /\ published' = IF ok THEN published \cup wdt_service[d]
                                       ELSE published
    BY <1>3 DEF WdtEntry!WatchdogDriverInit
  <2>2. ok \in BOOLEAN /\ (ok => d \in Matched)
    BY Zenon DEF WdtEntry!AttachWatchdogDeviceInfo
  <2>3. /\ stage[d] = "bound" /\ stage' = [stage EXCEPT ![d] = "inited"]
        /\ UNCHANGED <<wdt_service, wdt_released, wdt_misused>>
    BY <1>3 DEF WdtEntry!WatchdogDriverInit
  <2>4. CASE ok
    <3>1. wdt_cntlr' = [c \in Cntlrs |->
            IF c \in wdt_service[d]
            THEN [state |-> "live", info |-> "live", ops |-> TRUE]
            ELSE wdt_cntlr[c]]
      BY <2>1, <2>2, <2>4
    <3>2. published' = published \cup wdt_service[d]
      BY <2>1, <2>4
    <3>3. WdtEntryTypes'
      <4>1. wdt_cntlr' \in [Cntlrs -> {WdtEntry!Unused} \cup WdtController]
        BY <3>1 DEF WdtEntryTypes, WdtController
      <4> QED BY <2>3, <3>2, <4>1 DEF WdtEntryTypes
    <3>4. WdtOwners'
      BY <2>3, <3>1, <3>2 DEF WdtOwners, WdtEntryTypes, WdtEntry!Unused
    <3>5. WdtEntry!FoundIsWhole'
      BY <2>3, <3>1, <3>2 DEF WdtOwners, WdtEntryTypes, WdtEntry!Unused
    <3> QED BY <3>3, <3>4, <3>5
  <2>5. CASE ~ok
    <3>1. wdt_cntlr' = [c \in Cntlrs |->
            IF c \in wdt_service[d] THEN [wdt_cntlr[c] EXCEPT !.state = "freed"]
                                    ELSE wdt_cntlr[c]]
      BY <2>1, <2>5
    <3>2. published' = published
      BY <2>1, <2>5
    <3>3. WdtEntryTypes'
      <4>1. wdt_cntlr' \in [Cntlrs -> {WdtEntry!Unused} \cup WdtController]
        BY <3>1 DEF WdtEntryTypes, WdtController, WdtOwners
      <4> QED BY <2>3, <3>2, <4>1 DEF WdtEntryTypes
    <3>4. WdtOwners'
      BY <2>3, <3>1, <3>2 DEF WdtOwners, WdtEntryTypes, WdtEntry!Unused,
         WdtController
    <3>5. WdtEntry!FoundIsWhole'
      BY <2>3, <3>1, <3>2 DEF WdtOwners, WdtEntryTypes, WdtEntry!Unused,
         WdtController
    <3> QED BY <3>3, <3>4, <3>5
  <2> QED BY <2>2, <2>4, <2>5
<1>4. ASSUME NEW d \in WdtDevices, WdtEntry!WatchdogDriverRelease(d)
      PROVE  WdtEntryInv'
  <2>1. WdtEntryTypes'
    <3>1. wdt_cntlr' \in [Cntlrs -> {WdtEntry!Unused} \cup WdtController]
      BY <1>4 DEF WdtEntry!WatchdogDriverRelease, WdtEntryTypes, WdtController,
         WdtOwners
    <3> QED BY <1>4, <3>1 DEF WdtEntry!WatchdogDriverRelease, WdtEntryTypes
  <2>2. WdtOwners'
    BY <1>4 DEF WdtEntry!WatchdogDriverRelease, WdtEntryTypes, WdtOwners,
       WdtController, WdtEntry!Unused
  <2>3. WdtEntry!FoundIsWhole'
    BY <1>4 DEF WdtEntry!WatchdogDriverRelease, WdtEntryTypes, WdtOwners,
       WdtController, WdtEntry!Unused
  <2> QED BY <2>1, <2>2, <2>3
<1>5. ASSUME NEW c \in published, WdtEntry!WatchdogMethod(c) PROVE WdtEntryInv'
  BY <1>5 DEF WdtEntry!WatchdogMethod, WdtEntry!Gone, WdtEntryTypes, WdtOwners
<1> QED BY <1>1, <1>2, <1>3, <1>4, <1>5 DEF WdtEntry!Next

-----------------------------------------------------------------------------
(* PwmHost *)

\* While clients can call, the cached frequency is the timer's, unless the timer
\* never accepted it, and what was asked for last is what is cached.
PwmInv ==
  /\ Pwm!TypeOK
  /\ method => pwm_service = "host" /\ (timer = freq_hz \/ unprogrammed)
  /\ asked # Pwm!NoFreq => method /\ asked = freq_hz

LEMMA PwmInit == Init => PwmInv
<1> SUFFICES ASSUME Init PROVE PwmInv
  OBVIOUS
<1>1. method \in BOOLEAN /\ unprogrammed \in BOOLEAN /\ ~method
  BY Zenon DEF Init, Pwm!Init
<1> QED BY <1>1 DEF Init, Pwm!Init, PwmInv, Pwm!TypeOK, Pwm!Frequencies

LEMMA PwmNext == PwmInv /\ [Next]_vars => PwmInv'
<1> SUFFICES ASSUME PwmInv, [Pwm!Next]_pwmVars PROVE PwmInv'
  BY EachSteps
<1> USE DEF PwmInv
<1>1. CASE UNCHANGED pwmVars
  BY <1>1 DEF Pwm!TypeOK, pwmVars
<1>2. CASE Pwm!PwmDriverBind
  BY <1>2 DEF Pwm!PwmDriverBind, Pwm!TypeOK, Pwm!Frequencies
<1>3. CASE Pwm!PwmDriverInit
  <2>1. method' \in BOOLEAN /\ unprogrammed' \in BOOLEAN
    BY <1>3, Zenon DEF Pwm!PwmDriverInit, Pwm!AttachPwmDevice, Pwm!TypeOK
  <2>2. Pwm!TypeOK'
    BY <1>3, <2>1 DEF Pwm!PwmDriverInit, Pwm!AttachPwmDevice, Pwm!TypeOK
  <2>3. PwmInv'
    BY <1>3, <2>2 DEF Pwm!PwmDriverInit, Pwm!AttachPwmDevice, Pwm!TypeOK
  <2> QED BY <2>3
<1>4. CASE Pwm!PwmDriverRelease
  <2>1. ~method' /\ ~unprogrammed' /\ method' \in BOOLEAN
          /\ unprogrammed' \in BOOLEAN
    BY <1>4, Zenon DEF Pwm!PwmDriverRelease
  <2> QED BY <1>4, <2>1 DEF Pwm!PwmDriverRelease, Pwm!TypeOK
<1>5. CASE Pwm!DeviceCreate
  BY <1>5 DEF Pwm!DeviceCreate, Pwm!TypeOK
<1>6. CASE Pwm!PwmDevSetConfig
  <2>1. PICK n \in Periods :
          /\ asked' = Pwm!Frequency(n) /\ freq_hz' = Pwm!Frequency(n)
          /\ IF freq_hz # Pwm!Frequency(n)
               THEN Pwm!TimerConfig(Pwm!Frequency(n))
               ELSE UNCHANGED <<timer, unprogrammed>>
    BY <1>6 DEF Pwm!PwmDevSetConfig
  <2>2. Pwm!Frequency(n) \in Pwm!Frequencies
    BY DEF Pwm!Frequencies
  <2>3. unprogrammed' \in BOOLEAN
    BY <2>1, Zenon DEF Pwm!TimerConfig, Pwm!TypeOK
  <2>4. timer' = Pwm!Frequency(n) \/ unprogrammed'
    BY <2>1, <1>6 DEF Pwm!TimerConfig, Pwm!PwmDevSetConfig
  <2>5. timer' \in {timer, Pwm!Frequency(n)}
    BY <2>1 DEF Pwm!TimerConfig
  <2> QED
    BY <1>6, <2>1, <2>2, <2>3, <2>4, <2>5 DEF Pwm!PwmDevSetConfig, Pwm!TypeOK
<1> QED BY <1>1, <1>2, <1>3, <1>4, <1>5, <1>6 DEF Pwm!Next

-----------------------------------------------------------------------------
(* GpioDebounce *)

\* lastTickCount is the tick of the last edge of any pin, or of the start.
LastEdge(last) ==
  /\ last \in 0 .. now /\ lastTickCount = last % TickWord
  /\ \A q \in Pins : edge[q] <= last
  /\ last = 0 \/ \E q \in Pins : edge[q] = last

GpioInv ==
  /\ Gpio!TypeOK
  /\ \E last \in Nat : LastEdge(last)
  /\ Gpio!BurstIsHeardOnce

LEMMA GpioInit == Init => GpioInv
<1> SUFFICES ASSUME Gpio!Init PROVE GpioInv
  BY DEF Init
<1>0. SHAKE_COUNT \in Nat /\ TickWord \in Nat \ {0} /\ MaxTime \in Nat
  BY DriversAssumption DEF Gpio!ConstantsOK
<1>1. hidden \in [Pins -> BOOLEAN]
  BY Zenon DEF Gpio!Init
<1>2. Gpio!TypeOK
  BY <1>0, <1>1 DEF Gpio!Init, Gpio!TypeOK
<1>3. 0 % TickWord = 0
  BY <1>0, ModSmall
<1>4. LastEdge(0)
  BY <1>3 DEF Gpio!Init, LastEdge
<1> QED BY <1>2, <1>4 DEF Gpio!Init, GpioInv, Gpio!BurstIsHeardOnce

LEMMA GpioNext == GpioInv /\ [Next]_vars => GpioInv'
<1> SUFFICES ASSUME GpioInv, [Gpio!Next]_gpioVars PROVE GpioInv'
  BY EachSteps
<1>0. /\ SHAKE_COUNT \in Nat /\ TickWord \in Nat \ {0} /\ MaxTime \in Nat
      /\ SHAKE_COUNT < TickWord
  BY DriversAssumption DEF Gpio!ConstantsOK
<1> USE DEF GpioInv, Gpio!BurstIsHeardOnce, Gpio!history
<1>1. PICK last \in Nat : LastEdge(last)
  OBVIOUS
<1>2. CASE UNCHANGED gpioVars
  BY <1>1, <1>2 DEF Gpio!TypeOK, LastEdge, gpioVars
<1>3. CASE Gpio!Tick
  BY <1>0, <1>1, <1>3 DEF Gpio!Tick, Gpio!TypeOK, LastEdge
<1>4. ASSUME NEW p \in Pins, Gpio!Handler(p) PROVE GpioInv'
  <2> DEFINE reported ==
        (Gpio!tickCount - lastTickCount) % TickWord > SHAKE_COUNT
             one == IF reported THEN 1 ELSE 0
  <2>0. now \in Nat \ {0} /\ now <= MaxTime /\ last <= now
    BY <1>1, <1>4 DEF Gpio!Handler, Gpio!TypeOK, LastEdge
  <2>a. /\ now' = now /\ lastTickCount' = now % TickWord
        /\ edge' = [edge EXCEPT ![p] = now]
    BY <1>4 DEF Gpio!Handler, Gpio!Note, Gpio!tickCount
  <2>b. reports'
          = [reports EXCEPT ![p] = IF Gpio!Recent(p) THEN @ + one ELSE one]
    BY <1>4, Zenon DEF Gpio!Handler, Gpio!Note
  <2>c. hidden' = [hidden EXCEPT ![p] =
          IF Gpio!Recent(p) THEN @
          ELSE \/ \E q \in Pins \ {p} : Gpio!Recent(q)
               \/ now <= SHAKE_COUNT
               \/ \A q \in Pins : now - edge[q] >= TickWord]
    BY <1>4, Zenon DEF Gpio!Handler, Gpio!Note
  <2>1. now - last < TickWord =>
          (reported <=> now - last > SHAKE_COUNT)
    BY <1>0, <1>1, <2>0, ModDiff DEF LastEdge, Gpio!tickCount
  <2>2. Gpio!Recent(p) => ~reported
    BY <1>0, <1>1, <2>0, <2>1 DEF Gpio!Recent, Gpio!TypeOK, LastEdge
  <2>3. ASSUME ~Gpio!Recent(p), ~reported
        PROVE  \/ \E q \in Pins \ {p} : Gpio!Recent(q)
               \/ now <= SHAKE_COUNT
               \/ \A q \in Pins : now - edge[q] >= TickWord
    <3>1. CASE now - last < TickWord
      BY <1>0, <1>1, <2>0, <2>1, <2>3, <3>1 DEF Gpio!Recent, Gpio!TypeOK,
         LastEdge
    <3>2. CASE now - last >= TickWord
      BY <1>0, <1>1, <2>0, <3>2 DEF Gpio!TypeOK, LastEdge
    <3> QED BY <2>0, <3>1, <3>2, <1>0
  <2>4. one \in {0, 1} /\ (reported <=> one = 1)
    OBVIOUS
  <2> HIDE DEF reported, one
  <2>5. Gpio!TypeOK'
    <3>1. hidden' \in [Pins -> BOOLEAN]
      BY <2>c, Zenon DEF Gpio!TypeOK
    <3>2. now % TickWord \in 0 .. TickWord - 1
      <4>1. now \in Int
        BY <2>0
      <4> QED BY <1>0, <4>1, ModRange, Zenon
    <3>3. reports' \in [Pins -> Nat]
      BY <2>b, <2>4 DEF Gpio!TypeOK
    <3> QED BY <2>0, <2>a, <3>1, <3>2, <3>3 DEF Gpio!TypeOK
  <2>6. LastEdge(now)'
    BY <1>1, <2>0, <2>a DEF Gpio!TypeOK, LastEdge
  <2>7. \A q \in Pins \ {p} :
          reports'[q] = reports[q] /\ edge'[q] = edge[q]
            /\ hidden'[q] = hidden[q]
    BY <2>a, <2>b, <2>c DEF Gpio!TypeOK
  <2>8. edge'[p] = now
    BY <2>a DEF Gpio!TypeOK
  <2>9. CASE Gpio!Recent(p)
    <3>1. reports'[p] = reports[p] /\ edge[p] > 0
      BY <2>b, <2>2, <2>4, <2>9 DEF Gpio!TypeOK, Gpio!Recent
    <3>2. hidden'[p] = hidden[p]
      BY <2>c, <2>9, Zenon DEF Gpio!TypeOK
    <3>3. Gpio!BurstIsHeardOnce'
      BY <2>7, <2>8, <3>1, <3>2
    <3> QED BY <2>0, <2>a, <2>5, <2>6, <3>3
  <2>10. CASE ~Gpio!Recent(p)
    <3>1. reports'[p] = one
      BY <2>b, <2>10 DEF Gpio!TypeOK
    <3>2. ~reported => hidden'[p]
      BY <2>c, <2>3, <2>10, Zenon DEF Gpio!TypeOK
    <3>3. Gpio!BurstIsHeardOnce'
      BY <2>4, <2>7, <2>8, <3>1, <3>2
    <3> QED BY <2>0, <2>a, <2>5, <2>6, <3>3
  <2> QED BY <2>9, <2>10
<1> QED BY <1>2, <1>3, <1>4 DEF Gpio!Next

-----------------------------------------------------------------------------
(* HalFile *)

FileOpen == [pos : Nat, mode : {"r", "w", "rw"}, owner : Tasks, told : Nat,
             shared : BOOLEAN]
FileCall ==
  {File!Out}
  \cup [step : {"measure"}, fd : Fds, len : Nat \cup {-1}, target : Int]
  \cup [step : {"set"}, fd : Fds, len : Nat \cup {-1}, target : Int,
        len2 : Nat \cup {-1}]
  \cup [step : {"stat", "close"}, fd : Fds]

FileTypes ==
  /\ file_size \in Nat
  /\ fds \in [Fds -> {File!Closed} \cup FileOpen]
  /\ file_call \in [Tasks -> FileCall]

\* t is in a call that works on fd.
On(t, fd) == file_call[t] # File!Out /\ file_call[t].fd = fd

\* While its owner alone is at work on a descriptor, its position is what was
\* told, or was when the seek began that will bring it there again.
FileOrder(fd) ==
  LET d == fds[fd]
      c == file_call[d.owner]
  IN  d # File!Closed /\ ~d.shared
    /\ (\A t \in Tasks : On(t, fd) => t = d.owner) =>
        /\ ~On(d.owner, fd) => d.pos = d.told
        /\ On(d.owner, fd) /\ c.step = "measure"
             => d.pos = d.told /\ c.len = d.told
        /\ On(d.owner, fd) /\ c.step = "set" => c.len = d.told

FileInv == FileTypes /\ \A fd \in Fds : FileOrder(fd)

LEMMA ToldIs ==
  ASSUME NEW d \in FileOpen, NEW t \in Tasks, NEW n \in Nat
  PROVE  /\ File!Told(d, t, n) \in FileOpen
         /\ File!Told(d, t, n).pos = d.pos
         /\ File!Told(d, t, n).owner = d.owner
         /\ File!Told(d, t, n).shared <=> d.shared \/ d.owner # t
         /\ ~File!Told(d, t, n).shared => File!Told(d, t, n).told = n
<1> DEFINE shared == d.shared \/ d.owner # t
           e == [d EXCEPT !.shared = shared, !.told = IF shared THEN 0 ELSE n]
<1>1. shared \in BOOLEAN
  BY DEF FileOpen
<1>2. File!Told(d, t, n) = e
  BY DEF File!Told
<1>3. e \in FileOpen /\ e.pos = d.pos /\ e.owner = d.owner
  BY <1>1 DEF FileOpen
<1>4. e.shared <=> shared
  BY <1>1, Zenon DEF FileOpen
<1>5. ~shared => e.told = n
  BY <1>1 DEF FileOpen
<1> QED BY <1>2, <1>3, <1>4, <1>5

\* What becomes of a descriptor that a step of t, which is not at work on it
\* before or after, leaves alone.
LEMMA FileElsewhere ==
  ASSUME FileInv, NEW t \in Tasks, NEW fd \in Fds, fds'[fd] = fds[fd],
         ~On(t, fd), ~On(t, fd)',
         \A u \in Tasks \ {t} : file_call'[u] = file_call[u]
  PROVE  FileOrder(fd)'
<1>1. \A u \in Tasks : On(u, fd)' <=> On(u, fd)
  BY DEF On
<1>2. fds[fd] # File!Closed => fds[fd].owner \in Tasks
  BY DEF FileInv, FileTypes, FileOpen
<1>3. On(fds[fd].owner, fd) => fds[fd].owner # t
  BY <1>2
<1> QED BY <1>1, <1>2, <1>3 DEF FileInv, FileOrder, On

LEMMA LseekIs ==
  ASSUME FileTypes, NEW fd \in Fds, NEW target \in Int
  PROVE  /\ File!Lseek(fd, target) \in [Fds -> {File!Closed} \cup FileOpen]
         /\ \A g \in Fds \ {fd} : File!Lseek(fd, target)[g] = fds[g]
         /\ File!Lseek(fd, target)[fd] # File!Closed <=> File!Open(fd)
         /\ File!Open(fd) =>
              /\ File!Lseek(fd, target)[fd].owner = fds[fd].owner
              /\ File!Lseek(fd, target)[fd].shared = fds[fd].shared
              /\ File!Lseek(fd, target)[fd].told = fds[fd].told
              /\ target >= 0 => File!Lseek(fd, target)[fd].pos = target
              /\ target < 0 => File!Lseek(fd, target)[fd].pos = fds[fd].pos
         /\ File!Result(fd, target) \in Nat \cup {-1}
         /\ File!Result(fd, target) = IF File!Open(fd) /\ target >= 0
              THEN target ELSE -1
<1>1. File!Closed \notin FileOpen
  BY DEF File!Closed, FileOpen
<1>2. File!Result(fd, target) = IF File!Open(fd) /\ target >= 0 THEN target
        ELSE -1
  BY DEF File!Result, File!Failed
<1>3. CASE File!Open(fd) /\ target >= 0
  <2>1. File!Lseek(fd, target) = [fds EXCEPT ![fd].pos = target]
    BY <1>2, <1>3 DEF File!Lseek, File!Failed
  <2>2. fds[fd] \in FileOpen
    BY <1>3 DEF FileTypes, File!Open
  <2>3. [fds[fd] EXCEPT !.pos = target] \in FileOpen
    BY <1>3, <2>2 DEF FileOpen
  <2>4. /\ [fds[fd] EXCEPT !.pos = target].pos = target
        /\ [fds[fd] EXCEPT !.pos = target].owner = fds[fd].owner
        /\ [fds[fd] EXCEPT !.pos = target].told = fds[fd].told
    BY <2>2 DEF FileOpen
  <2>5. [fds[fd] EXCEPT !.pos = target].shared = fds[fd].shared
    BY <2>2, Zenon DEF FileOpen
  <2>6. /\ File!Lseek(fd, target)[fd] = [fds[fd] EXCEPT !.pos = target]
        /\ \A g \in Fds \ {fd} : File!Lseek(fd, target)[g] = fds[g]
        /\ File!Lseek(fd, target) \in [Fds -> {File!Closed} \cup FileOpen]
    BY <2>1, <2>3 DEF FileTypes
  <2> QED BY <1>1, <1>2, <1>3, <2>3, <2>4, <2>5, <2>6
<1>4. CASE ~(File!Open(fd) /\ target >= 0)
  <2>1. File!Lseek(fd, target) = fds
    BY <1>2, <1>4 DEF File!Lseek, File!Failed
  <2> QED BY <1>2, <1>4, <2>1 DEF FileTypes, File!Open
<1> QED BY <1>3, <1>4

\* A seek of t returns: it put the position where the result says, or what its
\* owner alone does not use does not count.
LEMMA SeekReturnsKeeps ==
  ASSUME FileInv, NEW t \in Tasks, NEW fd \in Fds, NEW target \in Int,
         NEW result \in Nat \cup {-1}, NEW lost \in BOOLEAN,
         file_call[t] = File!Out \/ On(t, fd),
         File!SeekReturns(t, fd, File!Lseek(fd, target), result, lost),
         /\ File!Open(fd) /\ fds[fd].owner = t /\ ~fds[fd].shared /\ ~lost
         /\ \A u \in Tasks : On(u, fd) => u = t
         => File!Lseek(fd, target)[fd].pos =
              IF result = -1 THEN fds[fd].told ELSE result
  PROVE  FileInv'
<1> DEFINE fds1 == File!Lseek(fd, target)
           told == IF result = File!Failed THEN fds1[fd].told ELSE result
           d == File!Told(fds1[fd], t, told)
           e == [d EXCEPT !.shared = d.shared \/ lost]
<1>0. /\ fds1 \in [Fds -> {File!Closed} \cup FileOpen]
      /\ \A g \in Fds \ {fd} : fds1[g] = fds[g]
      /\ fds1[fd] # File!Closed <=> File!Open(fd)
      /\ File!Open(fd) => /\ fds1[fd].owner = fds[fd].owner
                          /\ fds1[fd].shared = fds[fd].shared
                          /\ fds1[fd].told = fds[fd].told
  BY LseekIs DEF FileInv
<1>1. /\ file_call' = [file_call EXCEPT ![t] = File!Out]
      /\ file_size' = file_size
  BY DEF File!SeekReturns
<1>2. File!Out \in FileCall /\ file_call \in [Tasks -> FileCall]
  BY DEF FileCall, FileInv, FileTypes
<1>3. file_call' \in [Tasks -> FileCall] /\ file_size' \in Nat
  BY <1>1, <1>2 DEF FileInv, FileTypes
<1>4. /\ file_call'[t] = File!Out
      /\ \A u \in Tasks \ {t} : file_call'[u] = file_call[u]
      /\ \A g \in Fds : ~On(t, g)'
  BY <1>1, <1>2 DEF On
<1>5. \A g \in Fds \ {fd} : ~On(t, g)
  BY DEF On
<1>6. CASE ~File!Open(fd)
  <2>1. fds' = fds1
    BY <1>6 DEF File!SeekReturns
  <2>2. fds'[fd] = File!Closed
    BY <1>0, <1>6, <2>1
  <2>3. ASSUME NEW g \in Fds PROVE FileOrder(g)'
    <3>1. CASE g = fd
      BY <2>2, <3>1 DEF FileOrder
    <3>2. CASE g # fd
      BY <1>0, <1>4, <1>5, <2>1, <3>2, FileElsewhere
    <3> QED BY <3>1, <3>2
  <2> QED BY <1>0, <1>3, <2>1, <2>3 DEF FileInv, FileTypes
<1>7. CASE File!Open(fd)
  <2>1. fds1[fd] \in FileOpen /\ told \in Nat
    BY <1>0, <1>7 DEF FileOpen, File!Failed
  <2>2. fds' = [fds1 EXCEPT ![fd] = e]
    BY <1>7 DEF File!SeekReturns
  <2>3. /\ d \in FileOpen /\ d.pos = fds1[fd].pos /\ d.owner = fds1[fd].owner
        /\ d.shared <=> fds1[fd].shared \/ fds1[fd].owner # t
        /\ ~d.shared => d.told = told
    BY <2>1, ToldIs
  <2>4. /\ e \in FileOpen /\ e.pos = d.pos /\ e.owner = d.owner
        /\ e.told = d.told
    BY <2>3 DEF FileOpen
  <2>5. e.shared <=> d.shared \/ lost
    BY <2>3, Zenon DEF FileOpen
  <2>6. /\ fds'[fd] = e /\ \A g \in Fds \ {fd} : fds'[g] = fds[g]
        /\ fds' \in [Fds -> {File!Closed} \cup FileOpen]
    BY <1>0, <2>2, <2>4
  <2>7. ASSUME NEW g \in Fds PROVE FileOrder(g)'
    <3>1. CASE g = fd
      <4>1. SUFFICES ASSUME ~e.shared PROVE FileOrder(fd)'
        BY <2>6, <3>1 DEF FileOrder
      <4>2. e.owner = t /\ fds[fd].owner = t /\ ~fds[fd].shared /\ ~lost
        BY <1>0, <1>7, <2>3, <2>4, <2>5, <4>1
      <4>3. SUFFICES ASSUME \A u \in Tasks : On(u, fd)' => u = fds'[fd].owner
                     PROVE  FileOrder(fd)'
        BY DEF FileOrder
      <4>4. \A u \in Tasks : On(u, fd) => u = t
        BY <1>4, <2>6, <4>2, <4>3 DEF On
      <4>5. e.told = told /\ e.pos = told
        BY <1>0, <1>7, <2>3, <2>4, <2>5, <4>1, <4>2, <4>4 DEF File!Failed
      <4> QED BY <1>4, <2>6, <4>2, <4>5 DEF FileOrder
    <3>2. CASE g # fd
      BY <1>4, <1>5, <2>6, <3>2, FileElsewhere
    <3> QED BY <3>1, <3>2
  <2> QED BY <1>3, <2>6, <2>7 DEF FileInv, FileTypes
<1> QED BY <1>6, <1>7

\* A descriptor is taken.
LEMMA TakeKeeps ==
  ASSUME FileInv, NEW t \in Tasks, NEW fd \in Fds, NEW m \in {"r", "w", "rw"},
         file_call[t] = File!Out, File!Take(fd, t, m),
         \A u \in Tasks \ {t} : file_call'[u] = file_call[u],
         \/ file_call'[t] = File!Out
         \/ file_call'[t] = [step |-> "stat", fd |-> fd]
  PROVE  /\ fds' \in [Fds -> {File!Closed} \cup FileOpen]
         /\ \A g \in Fds : FileOrder(g)'
<1> DEFINE d == [pos |-> 0, mode |-> m, owner |-> t, told |-> 0,
                 shared |-> File!Busy(fd)]
<1>1. fds' = [fds EXCEPT ![fd] = d]
  BY DEF File!Take
<1>2. File!Busy(fd) \in BOOLEAN
  BY DEF File!Busy
<1>3. d \in FileOpen
  BY <1>2 DEF FileOpen
<1>4. /\ fds'[fd] = d /\ \A g \in Fds \ {fd} : fds'[g] = fds[g]
      /\ fds' \in [Fds -> {File!Closed} \cup FileOpen]
  BY <1>1, <1>3 DEF FileInv, FileTypes
<1>5. \A g \in Fds : ~On(t, g)
  BY DEF On
<1>6. \A g \in Fds \ {fd} : ~On(t, g)'
  BY DEF On
<1>7. file_call'[t] # File!Out => file_call'[t].step = "stat"
  OBVIOUS
<1>8. ASSUME NEW g \in Fds PROVE FileOrder(g)'
  <2>1. CASE g = fd
    <3>1. fds'[fd].owner = t /\ fds'[fd].pos = fds'[fd].told
      BY <1>4
    <3>2. On(t, fd)' => file_call'[t].step = "stat"
      BY <1>7 DEF On
    <3> QED BY <2>1, <3>1, <3>2 DEF FileOrder
  <2>2. CASE g # fd
    BY <1>4, <1>5, <1>6, <2>2, FileElsewhere
  <2> QED BY <2>1, <2>2
<1> QED BY <1>4, <1>8

LEMMA AdvanceKeeps ==
  ASSUME FileInv, NEW t \in Tasks, NEW fd \in Fds, NEW n \in Nat,
         file_call[t] = File!Out, File!Open(fd), File!Advance(t, fd, n),
         UNCHANGED file_call
  PROVE  /\ fds' \in [Fds -> {File!Closed} \cup FileOpen]
         /\ \A g \in Fds : FileOrder(g)'
<1> DEFINE d == fds[fd]
           f == [d EXCEPT !.pos = d.pos + n]
           e == File!Told(f, t, d.told + n)
<1>1. fds' = [fds EXCEPT ![fd] = e]
  BY DEF File!Advance
<1>2. d \in FileOpen
  BY DEF FileInv, FileTypes, File!Open
<1>3. /\ f \in FileOpen /\ f.pos = d.pos + n /\ f.owner = d.owner
      /\ d.told + n \in Nat
  BY <1>2 DEF FileOpen
<1>4. f.shared = d.shared
  BY <1>2, Zenon DEF FileOpen
<1> HIDE DEF f
<1>5. /\ e \in FileOpen /\ e.pos = f.pos /\ e.owner = f.owner
      /\ e.shared <=> f.shared \/ f.owner # t
      /\ ~e.shared => e.told = d.told + n
  BY <1>3, ToldIs
<1>6. /\ fds'[fd] = e /\ \A g \in Fds \ {fd} : fds'[g] = fds[g]
      /\ fds' \in [Fds -> {File!Closed} \cup FileOpen]
  BY <1>1, <1>5 DEF FileInv, FileTypes
<1>7. ASSUME NEW g \in Fds PROVE FileOrder(g)'
  <2>1. CASE g = fd
    <3>1. SUFFICES ASSUME ~e.shared,
                          \A u \in Tasks : On(u, fd)' => u = fds'[fd].owner
                   PROVE  FileOrder(fd)'
      BY <1>6, <2>1 DEF FileOrder
    <3>2. d.owner = t /\ ~d.shared /\ fds'[fd].owner = t
      BY <1>3, <1>4, <1>5, <1>6, <3>1
    <3>3. \A u \in Tasks : On(u, fd)' <=> On(u, fd)
      BY DEF On
    <3>4. ~On(t, fd)
      BY DEF On
    <3>5. d.pos = d.told
      BY <3>1, <3>2, <3>3, <3>4 DEF FileInv, FileOrder, File!Open
    <3>6. e.pos = e.told
      BY <1>3, <1>5, <3>1, <3>5
    <3> QED BY <1>6, <3>2, <3>3, <3>4, <3>6 DEF FileOrder
  <2>2. CASE g # fd
    BY <1>6, <2>2, FileElsewhere DEF On
  <2> QED BY <2>1, <2>2
<1> QED BY <1>6, <1>7

\* A call that goes on working on the descriptor moves its position.
LEMMA MeasureKeeps ==
  ASSUME FileInv, NEW t \in Tasks, NEW fd \in Fds, NEW c \in FileCall,
         On(t, fd), fds' = File!Lseek(fd, file_size),
         file_call' = [file_call EXCEPT ![t] = c],
         c # File!Out, c.fd = fd, UNCHANGED file_size,
         \/ file_call[t].step = "measure" /\ c.step = "set"
              /\ c.len = file_call[t].len
         \/ c.step = "close"
  PROVE  FileInv'
<1>1. /\ fds' \in [Fds -> {File!Closed} \cup FileOpen]
      /\ \A g \in Fds \ {fd} : fds'[g] = fds[g]
      /\ fds'[fd] # File!Closed <=> File!Open(fd)
      /\ File!Open(fd) => /\ fds'[fd].owner = fds[fd].owner
                          /\ fds'[fd].shared = fds[fd].shared
                          /\ fds'[fd].told = fds[fd].told
  BY LseekIs DEF FileInv, FileTypes
<1>2. /\ file_call' \in [Tasks -> FileCall] /\ file_call'[t] = c
      /\ \A u \in Tasks \ {t} : file_call'[u] = file_call[u]
  BY DEF FileInv, FileTypes
<1>3. FileTypes'
  BY <1>1, <1>2 DEF FileInv, FileTypes
<1>4. \A u \in Tasks : On(u, fd)' <=> On(u, fd)
  BY <1>2 DEF On
<1>5. ASSUME NEW g \in Fds PROVE FileOrder(g)'
  <2>1. CASE g = fd
    <3>1. SUFFICES ASSUME File!Open(fd), ~fds[fd].shared, fds[fd].owner = t,
                          \A u \in Tasks : On(u, fd) => u = t
                   PROVE  FileOrder(fd)'
      BY <1>1, <1>4, <2>1 DEF FileOrder
    <3>2. fds'[fd].owner = t /\ fds'[fd].told = fds[fd].told
      BY <1>1, <3>1
    <3>3. file_call[t].step = "measure" => file_call[t].len = fds[fd].told
      BY <3>1 DEF FileInv, FileOrder, File!Open
    <3>4. c.step = "set" => c.len = fds'[fd].told
      BY <3>2, <3>3
    <3> QED BY <1>2, <1>4, <3>2, <3>4 DEF FileOrder
  <2>2. CASE g # fd
    BY <1>1, <1>2, <2>2, FileElsewhere DEF On
  <2> QED BY <2>1, <2>2
<1> QED BY <1>3, <1>5 DEF FileInv

LEMMA FileInit == Init => FileInv
<1> SUFFICES ASSUME File!Init PROVE FileInv
  BY DEF Init
<1>1. FileTypes
  BY DEF File!Init, FileTypes, FileCall
<1> QED BY <1>1 DEF File!Init, FileInv, FileOrder

LEMMA FileNext == FileInv /\ [Next]_vars => FileInv'
<1> SUFFICES ASSUME FileInv, [File!Next]_fileVars PROVE FileInv'
  BY EachSteps
<1>0. Offsets \subseteq Int /\ MaxLen \in Nat
  BY DriversAssumption DEF File!ConstantsOK
<1>a. FileTypes
  BY DEF FileInv
<1>b. File!Out \in FileCall /\ File!Out.step = "out"
  BY DEF FileCall, File!Out
<1>c. \A fd \in Fds : fds[fd].pos \in Nat \cup {-1}
  BY DEF FileInv, FileTypes, FileOpen, File!Closed
<1>d. \A c \in FileCall :
        /\ c.step # "out" => c # File!Out /\ c.fd \in Fds
        /\ c.step \in {"measure", "set"}
             => c.len \in Nat \cup {-1} /\ c.target \in Int
        /\ c.step = "set" => c.len2 \in Nat \cup {-1}
  BY DEF FileCall, File!Out
<1>e. \A t \in Tasks : file_call[t] \in FileCall
  BY DEF FileInv, FileTypes
<1>1. CASE UNCHANGED fileVars
  BY <1>1 DEF FileInv, FileTypes, FileOrder, On, fileVars
<1>2. ASSUME NEW t \in Tasks,
             NEW oflag \in {{}, {"O_WRONLY_FS", "O_TRUNC_FS"},
                            {"O_WRONLY_FS", "O_RDWR_FS"}},
             File!HalFileOpen(t, oflag)
      PROVE  FileInv'
  <2>1. PICK fd \in Fds : File!Take(fd, t, File!Access(oflag))
    BY <1>2 DEF File!HalFileOpen
  <2>2. File!Access(oflag) \in {"r", "w", "rw"}
    BY DEF File!Access
  <2>3. file_call[t] = File!Out /\ file_call' = file_call /\ file_size' \in Nat
    BY <1>2 DEF File!HalFileOpen, FileInv, FileTypes
  <2> QED BY <2>1, <2>2, <2>3, TakeKeeps DEF FileInv, FileTypes
<1>3. ASSUME NEW t \in Tasks, NEW fd \in Fds, File!HalFileClose(t, fd)
      PROVE  FileInv'
  <2>1. /\ fds' = [fds EXCEPT ![fd] = File!Closed]
        /\ UNCHANGED <<file_size, file_call>> /\ file_call[t] = File!Out
    BY <1>3 DEF File!HalFileClose
  <2>2. /\ fds'[fd] = File!Closed /\ \A g \in Fds \ {fd} : fds'[g] = fds[g]
        /\ FileTypes'
    BY <2>1 DEF FileInv, FileTypes
  <2>3. ASSUME NEW g \in Fds PROVE FileOrder(g)'
    <3>1. CASE g = fd
      BY <2>2, <3>1 DEF FileOrder
    <3>2. CASE g # fd
      BY <2>1, <2>2, <3>2, FileElsewhere DEF On
    <3> QED BY <3>1, <3>2
  <2> QED BY <2>2, <2>3 DEF FileInv
<1>4. ASSUME NEW t \in Tasks, NEW fd \in Fds, NEW len \in 1..MaxLen,
             File!HalFileRead(t, fd, len)
      PROVE  FileInv'
  <2> DEFINE n == File!Lesser(len, File!Greater(0, file_size - fds[fd].pos))
  <2>1. n \in Nat
    BY <1>0, <1>c DEF File!Lesser, File!Greater, FileInv, FileTypes
  <2>2. /\ file_call[t] = File!Out /\ File!Open(fd) /\ File!Advance(t, fd, n)
        /\ UNCHANGED <<file_size, file_call>>
    BY <1>4 DEF File!HalFileRead
  <2> QED BY <2>1, <2>2, AdvanceKeeps DEF FileInv, FileTypes
<1>5. ASSUME NEW t \in Tasks, NEW fd \in Fds, NEW len \in 1..MaxLen,
             File!HalFileWrite(t, fd, len)
      PROVE  FileInv'
  <2>1. /\ file_call[t] = File!Out /\ File!Open(fd) /\ File!Advance(t, fd, len)
        /\ UNCHANGED file_call
        /\ file_size' = File!Greater(file_size, fds[fd].pos + len)
    BY <1>5 DEF File!HalFileWrite
  <2>2. file_size' \in Nat
    BY <1>0, <1>c, <2>1 DEF File!Greater, FileInv, FileTypes
  <2>3. len \in Nat
    BY <1>0
  <2> QED BY <2>1, <2>2, <2>3, AdvanceKeeps DEF FileInv, FileTypes
<1>6. ASSUME NEW t \in Tasks, NEW fd \in Fds, NEW offset \in Offsets,
             File!SeekEnd(t, fd, offset)
      PROVE  FileInv'
  <2> DEFINE target == file_size + offset
  <2>1. target \in Int
    BY <1>0 DEF FileInv, FileTypes
  <2>2. /\ file_call[t] = File!Out
        /\ File!SeekReturns(t, fd, File!Lseek(fd, target),
                            File!Result(fd, target), FALSE)
    BY <1>6 DEF File!SeekEnd
  <2>3. /\ File!Result(fd, target) \in Nat \cup {-1}
        /\ File!Result(fd, target) =
             IF File!Open(fd) /\ target >= 0 THEN target ELSE -1
        /\ File!Open(fd) =>
             File!Lseek(fd, target)[fd].pos =
               IF target >= 0 THEN target ELSE fds[fd].pos
    BY <1>a, <2>1, LseekIs
  <2>4. ASSUME File!Open(fd), fds[fd].owner = t, ~fds[fd].shared,
               \A u \in Tasks : On(u, fd) => u = t
        PROVE  fds[fd].pos = fds[fd].told
    BY <2>2, <2>4 DEF FileInv, FileOrder, File!Open, On
  <2>5. /\ File!Open(fd) /\ fds[fd].owner = t /\ ~fds[fd].shared
        /\ \A u \in Tasks : On(u, fd) => u = t
        => File!Lseek(fd, target)[fd].pos =
             IF File!Result(fd, target) = -1 THEN fds[fd].told
             ELSE File!Result(fd, target)
    BY <2>1, <2>3, <2>4
  <2> HIDE DEF target
  <2> QED BY <2>1, <2>2, <2>3, <2>5, SeekReturnsKeeps
<1>7. ASSUME NEW t \in Tasks, NEW fd \in Fds, NEW offset \in Offsets,
             NEW whence \in {"SEEK_SET", "SEEK_CUR"},
             File!SeekBegin(t, fd, offset, whence)
      PROVE  FileInv'
  <2> DEFINE c == [step |-> "measure", fd |-> fd, len |-> fds[fd].pos,
                   target |-> IF whence = "SEEK_CUR" THEN offset + fds[fd].pos
                              ELSE offset]
  <2>1. /\ file_call[t] = File!Out /\ file_call' = [file_call EXCEPT ![t] = c]
        /\ file_size' = file_size /\ fds' = fds
    BY <1>7 DEF File!SeekBegin
  <2>2. c \in FileCall
    BY <1>0, <1>c DEF FileCall
  <2>3. /\ file_call' \in [Tasks -> FileCall] /\ file_call'[t] = c
        /\ \A u \in Tasks \ {t} : file_call'[u] = file_call[u]
    BY <1>a, <2>1, <2>2 DEF FileTypes
  <2>4. c # File!Out /\ c.step = "measure" /\ c.fd = fd /\ c.len = fds[fd].pos
    BY <1>b
  <2> HIDE DEF c
  <2>5. \A g \in Fds : (On(t, g)' <=> g = fd) /\ ~On(t, g)
    BY <2>1, <2>3, <2>4 DEF On
  <2>6. ASSUME NEW g \in Fds PROVE FileOrder(g)'
    <3>1. CASE g = fd
      <4>1. SUFFICES ASSUME fds[fd] # File!Closed, ~fds[fd].shared,
                            fds[fd].owner = t,
                            \A u \in Tasks : On(u, fd)' => u = t
                     PROVE  FileOrder(fd)'
        BY <2>1, <2>5, <3>1 DEF FileOrder
      <4>2. \A u \in Tasks : ~On(u, fd)
        BY <2>3, <2>5, <4>1 DEF On
      <4>3. fds[fd].pos = fds[fd].told
        BY <4>1, <4>2 DEF FileInv, FileOrder
      <4> QED BY <2>1, <2>3, <2>4, <2>5, <4>1, <4>3 DEF FileOrder
    <3>2. CASE g # fd
      BY <2>1, <2>3, <2>5, <3>2, FileElsewhere
    <3> QED BY <3>1, <3>2
  <2> QED BY <1>a, <2>1, <2>3, <2>6 DEF FileInv, FileTypes
<1>8. ASSUME NEW t \in Tasks, File!SeekMeasure(t) PROVE FileInv'
  <2> DEFINE k == file_call[t]
             c == [step |-> "set", fd |-> k.fd, len |-> k.len,
                   target |-> k.target,
                   len2 |-> File!Result(k.fd, file_size)]
  <2>1. /\ k.step = "measure" /\ fds' = File!Lseek(k.fd, file_size)
        /\ file_call' = [file_call EXCEPT ![t] = c] /\ file_size' = file_size
    BY <1>8 DEF File!SeekMeasure
  <2>2. k # File!Out /\ k.fd \in Fds /\ k.len \in Nat \cup {-1}
          /\ k.target \in Int
    BY <1>d, <1>e, <2>1
  <2>3. File!Result(k.fd, file_size) \in Nat \cup {-1}
    BY <1>a, <2>2, LseekIs DEF FileTypes
  <2>4. c \in FileCall /\ c.step = "set" /\ c.fd = k.fd /\ c.len = k.len
    BY <2>2, <2>3 DEF FileCall
  <2>5. c # File!Out
    BY <1>b, <2>4
  <2>6. On(t, k.fd)
    BY <2>2 DEF On
  <2> HIDE DEF c
  <2> QED BY <2>1, <2>2, <2>4, <2>5, <2>6, MeasureKeeps
<1>9. ASSUME NEW t \in Tasks, File!SeekBack(t, file_call[t]) PROVE FileInv'
  <2> DEFINE k == file_call[t]
  <2>1. /\ k.step = "set"
        /\ File!SeekReturns(t, k.fd, File!Lseek(k.fd, k.len), -1, FALSE)
    BY <1>9 DEF File!SeekBack, File!Failed
  <2>2. k # File!Out /\ k.fd \in Fds /\ k.len \in Int /\ On(t, k.fd)
    BY <1>d, <1>e, <2>1 DEF On
  <2>3. ASSUME File!Open(k.fd), fds[k.fd].owner = t, ~fds[k.fd].shared,
               \A u \in Tasks : On(u, k.fd) => u = t
        PROVE  File!Lseek(k.fd, k.len)[k.fd].pos = fds[k.fd].told
    <3>1. k.len = fds[k.fd].told
      BY <2>1, <2>2, <2>3 DEF FileInv, FileOrder, File!Open
    <3>2. fds[k.fd].told \in Nat
      BY <1>a, <2>2, <2>3 DEF FileTypes, FileOpen, File!Open
    <3> QED BY <1>a, <2>2, <2>3, <3>1, <3>2, LseekIs
  <2> QED BY <2>1, <2>2, <2>3, SeekReturnsKeeps
<1>10. ASSUME NEW t \in Tasks, File!SeekSet(t, file_call[t]) PROVE FileInv'
  <2> DEFINE k == file_call[t]
  <2>1. /\ k.step = "set"
        /\ File!SeekReturns(t, k.fd, File!Lseek(k.fd, k.target),
                            File!Result(k.fd, k.target), k.target < 0)
    BY <1>10 DEF File!SeekSet
  <2>2. k # File!Out /\ k.fd \in Fds /\ k.target \in Int /\ On(t, k.fd)
    BY <1>d, <1>e, <2>1 DEF On
  <2>3. (k.target < 0) \in BOOLEAN
    OBVIOUS
  <2>4. /\ File!Result(k.fd, k.target) \in Nat \cup {-1}
        /\ File!Open(k.fd) /\ k.target >= 0 =>
             /\ File!Result(k.fd, k.target) = k.target
             /\ File!Lseek(k.fd, k.target)[k.fd].pos = k.target
    BY <1>a, <2>2, LseekIs
  <2>5. File!Open(k.fd) /\ ~(k.target < 0)
        => File!Lseek(k.fd, k.target)[k.fd].pos =
             IF File!Result(k.fd, k.target) = -1 THEN fds[k.fd].told
             ELSE File!Result(k.fd, k.target)
    BY <2>2, <2>4
  <2> QED BY <2>1, <2>2, <2>3, <2>4, <2>5, SeekReturnsKeeps
<1>11. ASSUME NEW t \in Tasks, File!StatOpen(t) PROVE FileInv'
  <2>1. PICK fd \in Fds :
          /\ File!Take(fd, t, "r")
          /\ file_call' = [file_call EXCEPT ![t] = [step |-> "stat", fd |-> fd]]
    BY <1>11 DEF File!StatOpen
  <2>2. file_call[t] = File!Out /\ file_size' = file_size
    BY <1>11 DEF File!StatOpen
  <2>3. [step |-> "stat", fd |-> fd] \in FileCall
    BY DEF FileCall
  <2>4. /\ file_call' \in [Tasks -> FileCall]
        /\ file_call'[t] = [step |-> "stat", fd |-> fd]
        /\ \A u \in Tasks \ {t} : file_call'[u] = file_call[u]
    BY <1>a, <2>1, <2>3 DEF FileTypes
  <2>5. fds' \in [Fds -> {File!Closed} \cup FileOpen] /\ \A g \in Fds :
          FileOrder(g)'
    BY <2>1, <2>2, <2>4, TakeKeeps
  <2> QED BY <1>a, <2>2, <2>4, <2>5 DEF FileInv, FileTypes
<1>12. ASSUME NEW t \in Tasks, File!StatMeasure(t) PROVE FileInv'
  <2> DEFINE k == file_call[t]
             c == [k EXCEPT !.step = "close"]
  <2>1. /\ k.step = "stat" /\ fds' = File!Lseek(k.fd, file_size)
        /\ file_call' = [file_call EXCEPT ![t] = c] /\ file_size' = file_size
    BY <1>12 DEF File!StatMeasure
  <2>2. k # File!Out /\ k.fd \in Fds
          /\ k \in [step : {"stat", "close"}, fd : Fds]
    BY <1>d, <1>e, <2>1 DEF FileCall, File!Out
  <2>3. c \in FileCall /\ c.step = "close" /\ c.fd = k.fd
    BY <2>2 DEF FileCall
  <2>4. c # File!Out
    BY <1>b, <2>3
  <2>5. On(t, k.fd)
    BY <2>2 DEF On
  <2> HIDE DEF c
  <2> QED BY <2>1, <2>2, <2>3, <2>4, <2>5, MeasureKeeps
<1>13. ASSUME NEW t \in Tasks, File!StatClose(t) PROVE FileInv'
  <2> DEFINE k == file_call[t]
  <2>1. /\ k.step = "close" /\ fds' = [fds EXCEPT ![k.fd] = File!Closed]
        /\ file_call' = [file_call EXCEPT ![t] = File!Out]
        /\ file_size' = file_size
    BY <1>13 DEF File!StatClose
  <2>2. k.fd \in Fds
    BY <1>d, <1>e, <2>1
  <2>3. /\ fds'[k.fd] = File!Closed /\ \A g \in Fds \ {k.fd} : fds'[g] = fds[g]
        /\ file_call'[t] = File!Out /\ FileTypes'
        /\ \A u \in Tasks \ {t} : file_call'[u] = file_call[u]
    BY <1>a, <1>b, <2>1, <2>2 DEF FileTypes
  <2>4. ASSUME NEW g \in Fds PROVE FileOrder(g)'
    <3>1. CASE g = k.fd
      BY <2>3, <3>1 DEF FileOrder
    <3>2. CASE g # k.fd
      BY <2>3, <3>2, FileElsewhere DEF On
    <3> QED BY <3>1, <3>2
  <2> QED BY <2>3, <2>4 DEF FileInv
<1> QED
  BY <1>1, <1>2, <1>3, <1>4, <1>5, <1>6, <1>7, <1>8, <1>9, <1>10, <1>11, <1>12,
     <1>13
     DEF File!Next

-----------------------------------------------------------------------------
(* HalI2c *)

\* Of port p, of which no init and deinit have overlapped: a task that has
\* marked the port finds its mark until it leaves the function; a marked port
\* has its driver unless one of those tasks is still to install it, or the
\* last one failed; and an unmarked one has a driver only while a deinit is
\* still to delete it.
PortInv(p) ==
  /\ ~(I2cPort!Within(p, I2cPort!Initing)
       /\ I2cPort!Within(p, I2cPort!Deiniting))
  /\ I2cPort!Within(p, {"config", "install"}) => i2c_state[p] = "INIT"
  /\ I2cPort!Within(p, {"delete"}) => i2c_state[p] = "UNINIT"
  /\ i2c_state[p] = "INIT" /\ p \notin port_failed =>
       port_installed[p] \/ I2cPort!Within(p, {"config", "install"})
  /\ i2c_state[p] = "UNINIT" /\ port_installed[p] =>
       I2cPort!Within(p, I2cPort!Deiniting)

I2cPortInv ==
  I2cPort!TypeOK /\ \A p \in I2cPort!Ports \ overlap : PortInv(p)

LEMMA I2cPortInit == Init => I2cPortInv
<1> SUFFICES ASSUME Init PROVE I2cPortInv
  OBVIOUS
<1>1. I2cPort!Init /\ MaxTransfer \in Nat
  BY DriversAssumption DEF Init, I2cPort!ConstantsOK
<1>2. port_installed \in [I2cPort!Ports -> BOOLEAN]
  BY <1>1, Zenon DEF I2cPort!Init
<1>3. I2cPort!TypeOK
  BY <1>1, <1>2 DEF I2cPort!Init, I2cPort!TypeOK, I2cPort!Ports, I2cPort!Labels
<1>4. \A p \in I2cPort!Ports : PortInv(p)
  BY <1>1 DEF I2cPort!Init, PortInv, I2cPort!Within, I2cPort!Initing,
     I2cPort!Deiniting
<1> QED BY <1>3, <1>4 DEF I2cPortInv

LEMMA I2cPortNext == I2cPortInv /\ [Next]_vars => I2cPortInv'
<1> SUFFICES ASSUME I2cPortInv, [I2cPort!Next]_portVars PROVE I2cPortInv'
  BY EachSteps
<1> USE DEF I2cPortInv, I2cPort!Step
<1>0. MaxTransfer \in Nat
  BY DriversAssumption DEF I2cPort!ConstantsOK
<1>1. CASE UNCHANGED portVars
  BY <1>1 DEF I2cPort!TypeOK, portVars, PortInv, I2cPort!Within
<1>2. ASSUME NEW t \in Tasks, NEW q \in I2cPort!Ports, I2cPort!InitTest(t, q)
       PROVE  I2cPortInv'
  <2>1. I2cPort!TypeOK'
    BY <1>0, <1>2 DEF I2cPort!InitTest, I2cPort!Enter, I2cPort!TypeOK,
       I2cPort!Labels, I2cPort!Initing, I2cPort!Deiniting, I2cPort!Ports
  <2>2. ASSUME NEW p \in I2cPort!Ports \ overlap' PROVE PortInv(p)'
    BY <1>2, <2>1 DEF I2cPort!InitTest, I2cPort!Enter, PortInv, I2cPort!TypeOK,
       I2cPort!Within, I2cPort!Initing, I2cPort!Deiniting
  <2> QED BY <2>1, <2>2
<1>3. ASSUME NEW t \in Tasks, I2cPort!Mark(t)
       PROVE  I2cPortInv'
  <2>1. I2cPort!TypeOK'
    BY <1>0, <1>3 DEF I2cPort!Mark, I2cPort!TypeOK, I2cPort!Labels,
       I2cPort!Initing, I2cPort!Deiniting, I2cPort!Ports
  <2>2. ASSUME NEW p \in I2cPort!Ports \ overlap' PROVE PortInv(p)'
    BY <1>3, <2>1 DEF I2cPort!Mark, PortInv, I2cPort!TypeOK, I2cPort!Within,
       I2cPort!Initing, I2cPort!Deiniting
  <2> QED BY <2>1, <2>2
<1>4. ASSUME NEW t \in Tasks, I2cPort!ParamConfig(t)
       PROVE  I2cPortInv'
  <2>1. I2cPort!TypeOK'
    BY <1>0, <1>4 DEF I2cPort!ParamConfig, I2cPort!TypeOK, I2cPort!Labels,
       I2cPort!Initing, I2cPort!Deiniting, I2cPort!Ports
  <2>2. ASSUME NEW p \in I2cPort!Ports \ overlap' PROVE PortInv(p)'
    BY <1>4, <2>1 DEF I2cPort!ParamConfig, PortInv, I2cPort!TypeOK,
       I2cPort!Within, I2cPort!Initing, I2cPort!Deiniting
  <2> QED BY <2>1, <2>2
<1>5. ASSUME NEW t \in Tasks, I2cPort!DriverInstall(t)
       PROVE  I2cPortInv'
  <2>1. I2cPort!TypeOK'
    BY <1>0, <1>5 DEF I2cPort!DriverInstall, I2cPort!TypeOK, I2cPort!Labels,
       I2cPort!Initing, I2cPort!Deiniting, I2cPort!Ports
  <2>2. ASSUME NEW p \in I2cPort!Ports \ overlap' PROVE PortInv(p)'
    BY <1>5, <2>1 DEF I2cPort!DriverInstall, PortInv, I2cPort!TypeOK,
       I2cPort!Within, I2cPort!Initing, I2cPort!Deiniting
  <2> QED BY <2>1, <2>2
<1>6. ASSUME NEW t \in Tasks, I2cPort!InitFails(t)
       PROVE  I2cPortInv'
  <2>1. I2cPort!TypeOK'
    BY <1>0, <1>6 DEF I2cPort!InitFails, I2cPort!TypeOK, I2cPort!Labels,
       I2cPort!Initing, I2cPort!Deiniting, I2cPort!Ports
  <2>2. ASSUME NEW p \in I2cPort!Ports \ overlap' PROVE PortInv(p)'
    BY <1>6, <2>1 DEF I2cPort!InitFails, PortInv, I2cPort!TypeOK,
       I2cPort!Within, I2cPort!Initing, I2cPort!Deiniting
  <2> QED BY <2>1, <2>2
<1>7. ASSUME NEW t \in Tasks, NEW q \in I2cPort!Ports, I2cPort!DeinitTest(t, q)
       PROVE  I2cPortInv'
  <2>1. I2cPort!TypeOK'
    BY <1>0, <1>7 DEF I2cPort!DeinitTest, I2cPort!Enter, I2cPort!TypeOK,
       I2cPort!Labels, I2cPort!Initing, I2cPort!Deiniting, I2cPort!Ports
  <2>2. ASSUME NEW p \in I2cPort!Ports \ overlap' PROVE PortInv(p)'
    BY <1>7, <2>1 DEF I2cPort!DeinitTest, I2cPort!Enter, PortInv,
       I2cPort!TypeOK, I2cPort!Within, I2cPort!Initing, I2cPort!Deiniting
  <2> QED BY <2>1, <2>2
<1>8. ASSUME NEW t \in Tasks, I2cPort!Unmark(t)
       PROVE  I2cPortInv'
  <2>1. I2cPort!TypeOK'
    BY <1>0, <1>8 DEF I2cPort!Unmark, I2cPort!TypeOK, I2cPort!Labels,
       I2cPort!Initing, I2cPort!Deiniting, I2cPort!Ports
  <2>2. ASSUME NEW p \in I2cPort!Ports \ overlap' PROVE PortInv(p)'
    BY <1>8, <2>1 DEF I2cPort!Unmark, PortInv, I2cPort!TypeOK, I2cPort!Within,
       I2cPort!Initing, I2cPort!Deiniting
  <2> QED BY <2>1, <2>2
<1>9. ASSUME NEW t \in Tasks, I2cPort!DriverDelete(t)
       PROVE  I2cPortInv'
  <2>1. I2cPort!TypeOK'
    BY <1>0, <1>9 DEF I2cPort!DriverDelete, I2cPort!TypeOK, I2cPort!Labels,
       I2cPort!Initing, I2cPort!Deiniting, I2cPort!Ports
  <2>2. ASSUME NEW p \in I2cPort!Ports \ overlap' PROVE PortInv(p)'
    BY <1>9, <2>1 DEF I2cPort!DriverDelete, PortInv, I2cPort!TypeOK,
       I2cPort!Within, I2cPort!Initing, I2cPort!Deiniting
  <2> QED BY <2>1, <2>2
<1>10. ASSUME NEW t \in Tasks, NEW q \in I2cPort!Ports,
             NEW len \in 1..MaxTransfer, I2cPort!TransferTest(t, q, len)
       PROVE  I2cPortInv'
  <2>1. I2cPort!TypeOK'
    BY <1>0, <1>10 DEF I2cPort!TransferTest, I2cPort!Enter, I2cPort!TypeOK,
       I2cPort!Labels, I2cPort!Initing, I2cPort!Deiniting, I2cPort!Ports
  <2>2. ASSUME NEW p \in I2cPort!Ports \ overlap' PROVE PortInv(p)'
    BY <1>10, <2>1 DEF I2cPort!TransferTest, I2cPort!Enter, PortInv,
       I2cPort!TypeOK, I2cPort!Within, I2cPort!Initing, I2cPort!Deiniting
  <2> QED BY <2>1, <2>2
<1>11. ASSUME NEW t \in Tasks, I2cPort!MasterTransfer(t)
       PROVE  I2cPortInv'
  <2>1. I2cPort!TypeOK'
    BY <1>0, <1>11 DEF I2cPort!MasterTransfer, I2cPort!TypeOK, I2cPort!Labels,
       I2cPort!Initing, I2cPort!Deiniting, I2cPort!Ports
  <2>2. ASSUME NEW p \in I2cPort!Ports \ overlap' PROVE PortInv(p)'
    BY <1>11, <2>1 DEF I2cPort!MasterTransfer, PortInv, I2cPort!TypeOK,
       I2cPort!Within, I2cPort!Initing, I2cPort!Deiniting
  <2> QED BY <2>1, <2>2
<1>12. ASSUME NEW t \in Tasks, I2cPort!SlaveCall(t)
       PROVE  I2cPortInv'
  <2>1. I2cPort!TypeOK'
    BY <1>0, <1>12 DEF I2cPort!SlaveCall, I2cPort!TypeOK, I2cPort!Labels,
       I2cPort!Initing, I2cPort!Deiniting, I2cPort!Ports
  <2>2. ASSUME NEW p \in I2cPort!Ports \ overlap' PROVE PortInv(p)'
    BY <1>12, <2>1 DEF I2cPort!SlaveCall, PortInv, I2cPort!TypeOK,
       I2cPort!Within, I2cPort!Initing, I2cPort!Deiniting
  <2> QED BY <2>1, <2>2
<1> QED BY <1>1, <1>2, <1>3, <1>4, <1>5, <1>6, <1>7, <1>8, <1>9, <1>10, <1>11,
      <1>12
      DEF I2cPort!Next, I2cPort!IoTI2cInit, I2cPort!IoTI2cDeinit,
          I2cPort!Transfer

-----------------------------------------------------------------------------
(* HalPwm *)

\* A description is empty or that of its port, and an initialised port has its
\* own or is about to get it.
LedcFilled(p) ==
  pwm_attr[p].gpio_num = Ledc!LEDC_OUTPUT_IO /\ pwm_attr[p].channel = p

LedcDescribed ==
  \A p \in LedcPorts :
    /\ \/ pwm_attr[p].gpio_num = 0 /\ pwm_attr[p].channel = 0
       \/ LedcFilled(p)
    /\ pwm_state[p] = "INIT" =>
         \/ LedcFilled(p)
         \/ \E t \in Tasks : ledc_port[t] = p /\ ledc_pc[t] = "fill"

\* A start that no init or deinit overlaps finds its port initialised.
LedcCalm ==
  \A t \in Tasks :
    ledc_pc[t] \in Ledc!Starting =>
      /\ pwm_state[ledc_port[t]] = "INIT"
      /\ \A u \in Tasks :
           ledc_port[u] = ledc_port[t] => ledc_pc[u] \notin {"fill", "clear"}

\* Once the timer is programmed it has a frequency that was asked for.
LedcAsked ==
  /\ \A t \in Tasks : /\ ledc_pc[t] \in Ledc!Starting => freq[t] \in ledc_asked
                      /\ ledc_pc[t] \in {"channel", "duty"} =>
                           ledc_timer \in ledc_asked
  /\ \A c \in LedcPorts : pin[c] # Ledc!NoPin => ledc_timer \in ledc_asked

LedcPin ==
  \A c \in LedcPorts :
    pin[c] # Ledc!NoPin =>
      pin[c] = Ledc!LEDC_OUTPUT_IO \/ (c = 0 /\ crossed)

LedcInv ==
  Ledc!TypeOK /\ LedcAsked /\ LedcPin /\ LedcDescribed /\ (~crossed => LedcCalm)

LEMMA LedcInit == Init => LedcInv
<1> SUFFICES ASSUME Init PROVE LedcInv
  OBVIOUS
<1>1. Ledc!Init /\ 0 \in LedcPorts
  BY DriversAssumption DEF Init, Ledc!ConstantsOK
<1>2. crossed \in BOOLEAN
  BY <1>1, Zenon DEF Ledc!Init
<1>3. Ledc!TypeOK
  BY <1>1, <1>2 DEF Ledc!Init, Ledc!TypeOK, Ledc!Zeroed
<1> QED
  BY <1>1, <1>3 DEF Ledc!Init, LedcInv, LedcAsked, LedcPin, LedcCalm,
     LedcDescribed, LedcFilled, Ledc!Starting, Ledc!NoPin, Ledc!Zeroed

LEMMA LedcNext == LedcInv /\ [Next]_vars => LedcInv'
<1> SUFFICES ASSUME LedcInv, [Ledc!Next]_ledcVars PROVE LedcInv'
  BY EachSteps
<1> USE DEF LedcInv, LedcAsked, LedcPin, Ledc!Step, Ledc!Ledc, Ledc!History
<1>0. 0 \in LedcPorts
  BY DriversAssumption DEF Ledc!ConstantsOK
<1>1. CASE UNCHANGED ledcVars
  BY <1>1 DEF Ledc!TypeOK, ledcVars, LedcCalm, LedcDescribed, LedcFilled
<1>2. ASSUME NEW t \in Tasks, NEW p \in LedcPorts, Ledc!MarkInit(t, p)
       PROVE  LedcInv'
  <2>1. Ledc!TypeOK'
    BY <1>0, <1>2 DEF Ledc!MarkInit, Ledc!Enter, Ledc!TypeOK, Ledc!Starting,
       Ledc!Zeroed
  <2>2. LedcAsked'
    BY <1>2 DEF Ledc!MarkInit, Ledc!Enter, Ledc!TypeOK, Ledc!Starting
  <2>3. LedcPin'
    BY <1>2 DEF Ledc!MarkInit, Ledc!Enter, Ledc!TypeOK, LedcCalm, Ledc!Starting
  <2>4. ASSUME ~crossed' PROVE LedcCalm'
    BY <1>2, <2>4 DEF Ledc!MarkInit, Ledc!Enter, LedcCalm, Ledc!TypeOK,
       Ledc!Starting, Ledc!Zeroed
  <2>5. LedcDescribed'
    BY <1>2 DEF Ledc!MarkInit, Ledc!Enter, LedcDescribed, LedcFilled,
       Ledc!TypeOK, Ledc!Zeroed
  <2> QED BY <2>1, <2>2, <2>3, <2>4, <2>5
<1>3. ASSUME NEW t \in Tasks, NEW p \in LedcPorts, Ledc!DeinitTest(t, p)
       PROVE  LedcInv'
  <2>1. Ledc!TypeOK'
    BY <1>0, <1>3 DEF Ledc!DeinitTest, Ledc!Enter, Ledc!TypeOK, Ledc!Starting,
       Ledc!Zeroed
  <2>2. LedcAsked'
    BY <1>3 DEF Ledc!DeinitTest, Ledc!Enter, Ledc!TypeOK, Ledc!Starting
  <2>3. LedcPin'
    BY <1>3 DEF Ledc!DeinitTest, Ledc!Enter, Ledc!TypeOK, LedcCalm,
       Ledc!Starting
  <2>4. ASSUME ~crossed' PROVE LedcCalm'
    BY <1>3, <2>4 DEF Ledc!DeinitTest, Ledc!Enter, LedcCalm, Ledc!TypeOK,
       Ledc!Starting, Ledc!Zeroed
  <2>5. LedcDescribed'
    BY <1>3 DEF Ledc!DeinitTest, Ledc!Enter, LedcDescribed, LedcFilled,
       Ledc!TypeOK, Ledc!Zeroed
  <2> QED BY <2>1, <2>2, <2>3, <2>4, <2>5
<1>4. ASSUME NEW t \in Tasks, NEW p \in LedcPorts, Ledc!IoTPwmStop(t, p)
       PROVE  LedcInv'
  <2>1. Ledc!TypeOK'
    BY <1>0, <1>4 DEF Ledc!IoTPwmStop, Ledc!TypeOK, Ledc!Starting, Ledc!Zeroed
  <2>2. LedcAsked'
    BY <1>4 DEF Ledc!IoTPwmStop, Ledc!TypeOK, Ledc!Starting
  <2>3. LedcPin'
    BY <1>4 DEF Ledc!IoTPwmStop, Ledc!TypeOK, LedcCalm, Ledc!Starting
  <2>4. ASSUME ~crossed' PROVE LedcCalm'
    BY <1>4, <2>4 DEF Ledc!IoTPwmStop, LedcCalm, Ledc!TypeOK, Ledc!Starting,
       Ledc!Zeroed
  <2>5. LedcDescribed'
    BY <1>4 DEF Ledc!IoTPwmStop, LedcDescribed, LedcFilled,
       Ledc!TypeOK, Ledc!Zeroed
  <2> QED BY <2>1, <2>2, <2>3, <2>4, <2>5
<1>5. ASSUME NEW t \in Tasks, NEW p \in LedcPorts, NEW f \in Freqs,
               Ledc!StartTest(t, p, f)
       PROVE  LedcInv'
  <2>1. Ledc!TypeOK'
    BY <1>0, <1>5 DEF Ledc!StartTest, Ledc!Enter, Ledc!TypeOK, Ledc!Starting,
       Ledc!Zeroed
  <2>2. LedcAsked'
    BY <1>5 DEF Ledc!StartTest, Ledc!Enter, Ledc!TypeOK, Ledc!Starting
  <2>3. LedcPin'
    BY <1>5 DEF Ledc!StartTest, Ledc!Enter, Ledc!TypeOK, LedcCalm, Ledc!Starting
  <2>4. ASSUME ~crossed' PROVE LedcCalm'
    BY <1>5, <2>4 DEF Ledc!StartTest, Ledc!Enter, LedcCalm, Ledc!TypeOK,
       Ledc!Starting, Ledc!Zeroed
  <2>5. LedcDescribed'
    BY <1>5 DEF Ledc!StartTest, Ledc!Enter, LedcDescribed, LedcFilled,
       Ledc!TypeOK, Ledc!Zeroed
  <2> QED BY <2>1, <2>2, <2>3, <2>4, <2>5
<1>6. ASSUME NEW t \in Tasks, Ledc!InitPwm(t)
       PROVE  LedcInv'
  <2>1. Ledc!TypeOK'
    BY <1>0, <1>6 DEF Ledc!InitPwm, Ledc!TypeOK, Ledc!Starting, Ledc!Zeroed
  <2>2. LedcAsked'
    BY <1>6 DEF Ledc!InitPwm, Ledc!TypeOK, Ledc!Starting
  <2>3. LedcPin'
    BY <1>6 DEF Ledc!InitPwm, Ledc!TypeOK, LedcCalm, Ledc!Starting
  <2>4. ASSUME ~crossed' PROVE LedcCalm'
    BY <1>6, <2>4 DEF Ledc!InitPwm, LedcCalm, Ledc!TypeOK, Ledc!Starting,
       Ledc!Zeroed
  <2>5. LedcDescribed'
    BY <1>6 DEF Ledc!InitPwm, LedcDescribed, LedcFilled,
       Ledc!TypeOK, Ledc!Zeroed
  <2> QED BY <2>1, <2>2, <2>3, <2>4, <2>5
<1>7. ASSUME NEW t \in Tasks, Ledc!Clear(t)
       PROVE  LedcInv'
  <2>1. Ledc!TypeOK'
    BY <1>0, <1>7 DEF Ledc!Clear, Ledc!TypeOK, Ledc!Starting, Ledc!Zeroed
  <2>2. LedcAsked'
    BY <1>7 DEF Ledc!Clear, Ledc!TypeOK, Ledc!Starting
  <2>3. LedcPin'
    BY <1>7 DEF Ledc!Clear, Ledc!TypeOK, LedcCalm, Ledc!Starting
  <2>4. ASSUME ~crossed' PROVE LedcCalm'
    <3>1. \A u \in Tasks :
            ledc_port[u] = ledc_port[t] => ledc_pc[u] \notin Ledc!Starting
      BY <1>7, <2>4 DEF Ledc!Clear, LedcCalm, Ledc!TypeOK
    <3>2. /\ UNCHANGED ledc_port /\ ledc_pc'[t] = "out"
          /\ \A u \in Tasks \ {t} : ledc_pc'[u] = ledc_pc[u]
          /\ pwm_state'[ledc_port[t]] = "UNINIT"
          /\ \A p \in LedcPorts \ {ledc_port[t]} :
               pwm_state'[p] = pwm_state[p] /\ pwm_attr'[p] = pwm_attr[p]
      BY <1>7 DEF Ledc!Clear, Ledc!TypeOK
    <3>3. crossed' = crossed
      BY <1>7 DEF Ledc!Clear
    <3> QED
      BY <1>7, <2>1, <2>4, <3>1, <3>2, <3>3 DEF LedcCalm, Ledc!TypeOK,
         Ledc!Starting
  <2>5. LedcDescribed'
    BY <1>7 DEF Ledc!Clear, LedcDescribed, LedcFilled,
       Ledc!TypeOK, Ledc!Zeroed
  <2> QED BY <2>1, <2>2, <2>3, <2>4, <2>5
<1>8. ASSUME NEW t \in Tasks, Ledc!TimerConfig(t)
       PROVE  LedcInv'
  <2>1. Ledc!TypeOK'
    BY <1>0, <1>8 DEF Ledc!TimerConfig, Ledc!TypeOK, Ledc!Starting, Ledc!Zeroed
  <2>2. LedcAsked'
    BY <1>8 DEF Ledc!TimerConfig, Ledc!TypeOK, Ledc!Starting
  <2>3. LedcPin'
    BY <1>8 DEF Ledc!TimerConfig, Ledc!TypeOK, LedcCalm, Ledc!Starting
  <2>4. ASSUME ~crossed' PROVE LedcCalm'
    BY <1>8, <2>4 DEF Ledc!TimerConfig, LedcCalm, Ledc!TypeOK, Ledc!Starting,
       Ledc!Zeroed
  <2>5. LedcDescribed'
    BY <1>8 DEF Ledc!TimerConfig, LedcDescribed, LedcFilled,
       Ledc!TypeOK, Ledc!Zeroed
  <2> QED BY <2>1, <2>2, <2>3, <2>4, <2>5
<1>9. ASSUME NEW t \in Tasks, Ledc!ChannelConfig(t)
       PROVE  LedcInv'
  <2>1. Ledc!TypeOK'
    BY <1>0, <1>9 DEF Ledc!ChannelConfig, Ledc!TypeOK, Ledc!Starting,
       Ledc!Zeroed
  <2>2. LedcAsked'
    BY <1>9 DEF Ledc!ChannelConfig, Ledc!TypeOK, Ledc!Starting
  <2>3. LedcPin'
    <3>1. ~crossed => LedcFilled(ledc_port[t])
      BY <1>9 DEF Ledc!ChannelConfig, Ledc!TypeOK, LedcCalm, Ledc!Starting,
         LedcDescribed
    <3>2. LET attr == pwm_attr[ledc_port[t]]
          IN  /\ attr.channel \in LedcPorts
              /\ pin' = [pin EXCEPT ![attr.channel] = attr.gpio_num]
              /\ attr.gpio_num = Ledc!LEDC_OUTPUT_IO \/ attr.channel = 0
      BY <1>9 DEF Ledc!ChannelConfig, Ledc!TypeOK, LedcDescribed, LedcFilled
    <3>3. crossed \in BOOLEAN /\ (crossed' <=> crossed)
      BY <1>9, Zenon DEF Ledc!ChannelConfig, Ledc!TypeOK
    <3> QED BY <3>1, <3>2, <3>3 DEF Ledc!TypeOK, LedcFilled
  <2>4. ASSUME ~crossed' PROVE LedcCalm'
    BY <1>9, <2>4 DEF Ledc!ChannelConfig, LedcCalm, Ledc!TypeOK, Ledc!Starting,
       Ledc!Zeroed
  <2>5. LedcDescribed'
    BY <1>9 DEF Ledc!ChannelConfig, LedcDescribed, LedcFilled,
       Ledc!TypeOK, Ledc!Zeroed
  <2> QED BY <2>1, <2>2, <2>3, <2>4, <2>5
<1>10. ASSUME NEW t \in Tasks, Ledc!SetDuty(t)
       PROVE  LedcInv'
  <2>1. Ledc!TypeOK'
    BY <1>0, <1>10 DEF Ledc!SetDuty, Ledc!TypeOK, Ledc!Starting, Ledc!Zeroed
  <2>2. LedcAsked'
    BY <1>10 DEF Ledc!SetDuty, Ledc!TypeOK, Ledc!Starting
  <2>3. LedcPin'
    BY <1>10 DEF Ledc!SetDuty, Ledc!TypeOK, LedcCalm, Ledc!Starting
  <2>4. ASSUME ~crossed' PROVE LedcCalm'
    BY <1>10, <2>4 DEF Ledc!SetDuty, LedcCalm, Ledc!TypeOK, Ledc!Starting,
       Ledc!Zeroed
  <2>5. LedcDescribed'
    BY <1>10 DEF Ledc!SetDuty, LedcDescribed, LedcFilled,
       Ledc!TypeOK, Ledc!Zeroed
  <2> QED BY <2>1, <2>2, <2>3, <2>4, <2>5
<1>11. ASSUME NEW t \in Tasks, Ledc!StartFails(t)
       PROVE  LedcInv'
  <2>1. Ledc!TypeOK'
    BY <1>0, <1>11 DEF Ledc!StartFails, Ledc!TypeOK, Ledc!Starting, Ledc!Zeroed
  <2>2. LedcAsked'
    BY <1>11 DEF Ledc!StartFails, Ledc!TypeOK, Ledc!Starting
  <2>3. LedcPin'
    BY <1>11 DEF Ledc!StartFails, Ledc!TypeOK, LedcCalm, Ledc!Starting
  <2>4. ASSUME ~crossed' PROVE LedcCalm'
    BY <1>11, <2>4 DEF Ledc!StartFails, LedcCalm, Ledc!TypeOK, Ledc!Starting,
       Ledc!Zeroed
  <2>5. LedcDescribed'
    BY <1>11 DEF Ledc!StartFails, LedcDescribed, LedcFilled, Ledc!TypeOK,
       Ledc!Starting
  <2> QED BY <2>1, <2>2, <2>3, <2>4, <2>5
<1> QED BY <1>1, <1>2, <1>3, <1>4, <1>5, <1>6, <1>7, <1>8, <1>9, <1>10, <1>11
      DEF Ledc!Next

-----------------------------------------------------------------------------
(* TaskWatchdog *)

\* As long as no two tasks were in the same function, one task at most is in
\* either: the status that lets it in keeps the others out of the other one.
\* Alone, each step finds the watchdog as the one before has left it.
TwdtInv ==
  /\ Twdt!TypeOK
  /\ ~crowded =>
       /\ \A t, u \in Tasks : twdt_pc[t] # "out" /\ twdt_pc[u] # "out" => t = u
       /\ \A t \in Tasks :
            /\ twdt_pc[t] \in Twdt!Enabling => g_watchdogStatus = "disabled"
            /\ twdt_pc[t] \in Twdt!Disabling => g_watchdogStatus = "enabled"
            /\ twdt_pc[t] \in {"mark enabled", "delete"} => watched /\ inited
            /\ twdt_pc[t] = "deinit" => inited
            /\ twdt_pc[t] \notin {"out", "mark enabled", "delete"} => ~watched
       /\ (\A t \in Tasks : twdt_pc[t] = "out") =>
            IF g_watchdogStatus = "enabled" THEN watched /\ inited ELSE ~watched

LEMMA TwdtInit == Init => TwdtInv
<1> SUFFICES ASSUME Init PROVE TwdtInv
  OBVIOUS
<1>1. Twdt!Init
  BY DEF Init
<1>2. Twdt!TypeOK
  BY <1>1, Zenon DEF Twdt!Init, Twdt!TypeOK
<1> QED BY <1>1, <1>2 DEF Twdt!Init, TwdtInv, Twdt!Enabling, Twdt!Disabling

LEMMA TwdtNext == TwdtInv /\ [Next]_vars => TwdtInv'
<1> SUFFICES ASSUME TwdtInv, [Twdt!Next]_twdtVars PROVE TwdtInv'
  BY EachSteps
<1> USE DEF TwdtInv, Twdt!Enabling, Twdt!Disabling, Twdt!Step, Twdt!Twdt,
      Twdt!Notes
<1>1. CASE UNCHANGED twdtVars
  BY <1>1 DEF Twdt!TypeOK, twdtVars
<1>2. ASSUME NEW t \in Tasks, Twdt!EnableTest(t) PROVE TwdtInv'
  <2>1. Twdt!TypeOK'
    BY <1>2, Zenon DEF Twdt!EnableTest, Twdt!Enter, Twdt!TypeOK
  <2>2. ASSUME ~crowded' PROVE TwdtInv'
    <3>1. ~crowded /\ \A u \in Tasks : twdt_pc[u] \notin Twdt!Enabling
      BY <1>2, <2>2, Zenon DEF Twdt!EnableTest, Twdt!Enter
    <3>2. \A u \in Tasks : twdt_pc[u] = "out"
      BY <1>2, <3>1 DEF Twdt!EnableTest, Twdt!TypeOK
    <3>3. /\ twdt_pc'[t] = "init" /\ \A u \in Tasks \ {t} : twdt_pc'[u] = "out"
          /\ UNCHANGED <<g_watchdogStatus, inited, watched>>
      BY <1>2, <3>2 DEF Twdt!EnableTest, Twdt!Enter, Twdt!TypeOK
    <3> QED BY <1>2, <2>1, <3>1, <3>2, <3>3 DEF Twdt!EnableTest
  <2> QED BY <2>1, <2>2
<1>3. ASSUME NEW t \in Tasks, Twdt!WdtInit(t) PROVE TwdtInv'
  <2>1. Twdt!TypeOK'
    BY <1>3, Zenon DEF Twdt!WdtInit, Twdt!TypeOK
  <2>2. ASSUME ~crowded' PROVE TwdtInv'
    BY <1>3, <2>1, <2>2 DEF Twdt!WdtInit, Twdt!TypeOK
  <2> QED BY <2>1, <2>2
<1>4. ASSUME NEW t \in Tasks, Twdt!WdtAdd(t) PROVE TwdtInv'
  <2>1. Twdt!TypeOK'
    BY <1>4, Zenon DEF Twdt!WdtAdd, Twdt!TypeOK
  <2>2. ASSUME ~crowded' PROVE TwdtInv'
    BY <1>4, <2>1, <2>2 DEF Twdt!WdtAdd, Twdt!TypeOK
  <2> QED BY <2>1, <2>2
<1>5. ASSUME NEW t \in Tasks, Twdt!MarkEnabled(t) PROVE TwdtInv'
  <2>1. Twdt!TypeOK'
    BY <1>5, Zenon DEF Twdt!MarkEnabled, Twdt!TypeOK
  <2>2. ASSUME ~crowded' PROVE TwdtInv'
    <3>1. /\ ~crowded /\ twdt_pc[t] = "mark enabled"
          /\ twdt_pc' = [twdt_pc EXCEPT ![t] = "out"]
          /\ g_watchdogStatus' = "enabled"
          /\ watched' = watched /\ inited' = inited
      BY <1>5, <2>2 DEF Twdt!MarkEnabled
    <3>2. watched /\ inited /\ \A u \in Tasks \ {t} : twdt_pc[u] = "out"
      BY <3>1
    <3>3. \A u \in Tasks : twdt_pc'[u] = "out"
      BY <3>1, <3>2 DEF Twdt!TypeOK
    <3> QED BY <2>1, <2>2, <3>1, <3>2, <3>3
  <2> QED BY <2>1, <2>2
<1>6. ASSUME NEW t \in Tasks, Twdt!RollBack(t) PROVE TwdtInv'
  <2>1. Twdt!TypeOK'
    BY <1>6, Zenon DEF Twdt!RollBack, Twdt!TypeOK
  <2>2. ASSUME ~crowded' PROVE TwdtInv'
    BY <1>6, <2>1, <2>2 DEF Twdt!RollBack, Twdt!TypeOK
  <2> QED BY <2>1, <2>2
<1>7. ASSUME NEW t \in Tasks, Twdt!DisableTest(t) PROVE TwdtInv'
  <2>1. Twdt!TypeOK'
    BY <1>7, Zenon DEF Twdt!DisableTest, Twdt!Enter, Twdt!TypeOK
  <2>2. ASSUME ~crowded' PROVE TwdtInv'
    <3>1. ~crowded /\ \A u \in Tasks : twdt_pc[u] \notin Twdt!Disabling
      BY <1>7, <2>2, Zenon DEF Twdt!DisableTest, Twdt!Enter
    <3>2. \A u \in Tasks : twdt_pc[u] = "out"
      BY <1>7, <3>1 DEF Twdt!DisableTest, Twdt!TypeOK
    <3>3. /\ twdt_pc'[t] = "delete" /\ \A u \in Tasks \ {t} :
               twdt_pc'[u] = "out"
          /\ UNCHANGED <<g_watchdogStatus, inited, watched>>
      BY <1>7, <3>2 DEF Twdt!DisableTest, Twdt!Enter, Twdt!TypeOK
    <3> QED BY <1>7, <2>1, <3>1, <3>2, <3>3 DEF Twdt!DisableTest
  <2> QED BY <2>1, <2>2
<1>8. ASSUME NEW t \in Tasks, Twdt!WdtDelete(t) PROVE TwdtInv'
  <2>1. Twdt!TypeOK'
    BY <1>8, Zenon DEF Twdt!WdtDelete, Twdt!TypeOK
  <2>2. ASSUME ~crowded' PROVE TwdtInv'
    BY <1>8, <2>1, <2>2 DEF Twdt!WdtDelete, Twdt!TypeOK
  <2> QED BY <2>1, <2>2
<1>9. ASSUME NEW t \in Tasks, Twdt!WdtDeinit(t) PROVE TwdtInv'
  <2>1. Twdt!TypeOK'
    BY <1>9, Zenon DEF Twdt!WdtDeinit, Twdt!TypeOK
  <2>2. ASSUME ~crowded' PROVE TwdtInv'
    BY <1>9, <2>1, <2>2 DEF Twdt!WdtDeinit, Twdt!TypeOK
  <2> QED BY <2>1, <2>2
<1>10. ASSUME NEW t \in Tasks, Twdt!MarkDisabled(t) PROVE TwdtInv'
  <2>1. Twdt!TypeOK'
    BY <1>10, Zenon DEF Twdt!MarkDisabled, Twdt!TypeOK
  <2>2. ASSUME ~crowded' PROVE TwdtInv'
    BY <1>10, <2>1, <2>2 DEF Twdt!MarkDisabled, Twdt!TypeOK
  <2> QED BY <2>1, <2>2
<1> QED BY <1>1, <1>2, <1>3, <1>4, <1>5, <1>6, <1>7, <1>8, <1>9, <1>10
      DEF Twdt!Next

-----------------------------------------------------------------------------
(* What the drivers promise *)

\* spi_esp32u4.c 239-330: however opens, closes and transfers of the controller
\* follow each other, spi_handle is NULL or names a device that is on the bus.
THEOREM HandleNeverDanglesHolds == Spec => []HandleNeverDangles
<1>1. Init => SpiInv
  BY SpiInit
<1>2. SpiInv /\ [Next]_vars => SpiInv'
  BY SpiNext
<1>3. SpiInv => HandleNeverDangles
  BY DEF SpiInv, HandleNeverDangles, Spi!HandleNeverDangles
<1> QED BY <1>1, <1>2, <1>3, PTL DEF Spec

\* spi_esp32u4.c 211-265: when nobody has the controller open its bus is free,
\* but for a fault of ESP-IDF or for openCnt having wrapped.
THEOREM StuckOnlyByFaultHolds == Spec => []StuckOnlyByFault
<1>1. Init => SpiInv
  BY SpiInit
<1>2. SpiInv /\ [Next]_vars => SpiInv'
  BY SpiNext
<1>3. SpiInv => StuckOnlyByFault
  BY DEF SpiInv, StuckOnlyByFault
<1> QED BY <1>1, <1>2, <1>3, PTL DEF Spec

\* uart_esp32u4.c 330-360: with any number of readers, a read returns just the
\* bytes it took, in their order, if its first byte was there or waited for.
THEOREM ReturnsWhatItTookHolds == Spec => []ReturnsWhatItTook
<1>1. Init => UartInv
  BY UartInit
<1>2. UartInv /\ [Next]_vars => UartInv'
  BY UartNext
<1>3. UartInv => ReturnsWhatItTook
  BY UartReturns DEF ReturnsWhatItTook
<1> QED BY <1>1, <1>2, <1>3, PTL DEF Spec

\* uart_esp32u4.c 261-306, 373-443: the settings pass through two scales and
\* many hands, and hosts report, and lines have, what was asked for last.
THEOREM LineIsAskedHolds == Spec => []LineIsAsked
<1>1. Init => LineInv
  BY LineInit
<1>2. LineInv /\ [Next]_vars => LineInv'
  BY LineNext
<1>3. LineInv => LineIsAsked
  BY LineAsked DEF LineIsAsked
<1> QED BY <1>1, <1>2, <1>3, PTL DEF Spec

\* i2c_esp32u4.c 90-165, 233-242: however transfers interleave and wherever the
\* heap is exhausted, the count a transfer returns tells what was on the bus,
\* and until a message fails every block of the heap is free or held by a link.
THEOREM SentAndPaidBackHolds == Spec => []SentAndPaidBack
<1>1. Init => I2cInv /\ HeapInv
  BY I2cInit, HeapInit
<1>2. I2cInv /\ HeapInv /\ [Next]_vars => I2cInv' /\ HeapInv'
  BY I2cNext, HeapNext
<1>3. I2cInv /\ HeapInv => SentAndPaidBack
  <2> SUFFICES ASSUME I2cInv, HeapInv PROVE SentAndPaidBack
    OBVIOUS
  <2>1. \A t \in Tasks : ret[t] => I2c!SentIsTold(t)
    BY DEF I2cInv
  <2>2. failed \/ free + Cardinality(I2c!Taken) = Heap
    BY DEF HeapInv, I2cLinks
  <2>3. I2c!Cardinality(I2c!Taken) = Cardinality(I2c!Taken)
    BY DEF I2c!Cardinality, Cardinality
  <2>4. failed \/ free + I2c!Cardinality(I2c!Taken) = Heap
    BY <2>2, <2>3
  <2> QED BY <2>1, <2>4, Zenon DEF SentAndPaidBack, I2c!SentAndPaidBack
<1> QED BY <1>1, <1>2, <1>3, PTL DEF Spec

\* i2c_esp32u4.c 168-304, watchdog_esp32u4.c 85-216: however loading a driver
\* fails, clients find whole controllers, and none that was freed, until HDF
\* releases the driver.
THEOREM ControllersAreWholeHolds == Spec => []ControllersAreWhole
<1>1. Init => I2cEntryInv /\ WdtEntryInv
  BY I2cEntryInit, WdtEntryInit
<1>2. I2cEntryInv /\ WdtEntryInv /\ [Next]_vars => I2cEntryInv' /\ WdtEntryInv'
  BY I2cEntryNext, WdtEntryNext
<1>3. I2cEntryInv /\ WdtEntryInv => ControllersAreWhole
  BY DEF I2cEntryInv, WdtEntryInv, ControllersAreWhole
<1> QED BY <1>1, <1>2, <1>3, PTL DEF Spec

\* pwm_esp32u4.c 279-316: the timer runs at the frequency that was asked for
\* last, in spite of the cached one, unless it never accepted a frequency.
THEOREM FreqIsAskedHolds == Spec => []FreqIsAsked
<1>1. Init => PwmInv
  BY PwmInit
<1>2. PwmInv /\ [Next]_vars => PwmInv'
  BY PwmNext
<1>3. PwmInv => FreqIsAsked
  BY DEF PwmInv, FreqIsAsked, Pwm!FreqIsAsked
<1> QED BY <1>1, <1>2, <1>3, PTL DEF Spec

\* watchdog_esp32u4.c 240-275: the watchdog lets a client live that feeds it
\* within the time that fits its register, and resets one that hangs for longer.
THEOREM BitesJustInTimeHolds == Spec => []BitesJustInTime
<1>1. Init => WdtInv
  BY WdtInit
<1>2. WdtInv /\ [Next]_vars => WdtInv'
  BY WdtNext
<1>3. WdtInv => BitesJustInTime
  <2>0. {Ticks, WdtWord, MaxSeconds, MaxElapsed} \subseteq Nat \ {0}
    BY DriversAssumption DEF Wdt!ConstantsOK
  <2>1. WdtWord \in Nat \ {0}
    BY <2>0
  <2>2. ASSUME WdtInv
        PROVE  promised \in Nat /\ elapsed \in Nat /\ wdt_count \in Nat
    BY <2>0, <2>2 DEF WdtInv, Wdt!TypeOK, Wdt!ResetCfg1
  <2>3. ASSUME WdtInv
        PROVE  promised < WdtWord => promised % WdtWord = promised
    BY <2>1, <2>2, <2>3, ModSmall
  <2>4. ASSUME WdtInv
        PROVE  promised % WdtWord <= promised
    BY <2>1, <2>2, <2>4, ModSmall
  <2> QED BY <2>1, <2>2, <2>3, <2>4 DEF WdtInv, BitesJustInTime,
        Wdt!BitesJustInTime, Wdt!Due, Wdt!Running, Wdt!TypeOK
<1> QED BY <1>1, <1>2, <1>3, PTL DEF Spec

\* gpio_esp32u4.c 75, 110-120: a burst of edges is reported just once, although
\* the tick counter wraps, unless another pin or the start hides it.
THEOREM BurstIsHeardOnceHolds == Spec => []BurstIsHeardOnce
<1>1. Init => GpioInv
  BY GpioInit
<1>2. GpioInv /\ [Next]_vars => GpioInv'
  BY GpioNext
<1>3. GpioInv => BurstIsHeardOnce
  BY DEF GpioInv, BurstIsHeardOnce
<1> QED BY <1>1, <1>2, <1>3, PTL DEF Spec

\* hal_file.c 86-175: whatever other descriptors are doing, a descriptor that
\* its opener alone uses is where the results of its calls say.
THEOREM PositionIsToldHolds == Spec => []PositionIsTold
<1>1. Init => FileInv
  BY FileInit
<1>2. FileInv /\ [Next]_vars => FileInv'
  BY FileNext
<1>3. FileInv => PositionIsTold
  <2> SUFFICES ASSUME FileInv, NEW fd \in Fds, File!Open(fd), ~fds[fd].shared,
                      ~File!Busy(fd)
               PROVE  fds[fd].pos = fds[fd].told
    BY DEF PositionIsTold, File!PositionIsTold
  <2>1. \A t \in Tasks : ~On(t, fd)
    BY DEF On, File!Busy
  <2>2. fds[fd].owner \in Tasks
    BY DEF FileInv, FileTypes, FileOpen, File!Open
  <2> QED BY <2>1, <2>2 DEF FileInv, FileOrder, File!Open
<1> QED BY <1>1, <1>2, <1>3, PTL DEF Spec

\* hal_iot_i2c.c 184-227: a port that says it is initialised has a driver, and
\* one that does not has none, unless its init failed or overlapped a deinit.
THEOREM StateIsTrueHolds == Spec => []StateIsTrue
<1>1. Init => I2cPortInv
  BY I2cPortInit
<1>2. I2cPortInv /\ [Next]_vars => I2cPortInv'
  BY I2cPortNext
<1>3. I2cPortInv => StateIsTrue
  <2> SUFFICES ASSUME I2cPortInv, NEW p \in I2cPort!Ports \ overlap,
                      ~I2cPort!Within(p, I2cPort!Initing \cup I2cPort!Deiniting)
               PROVE  /\ i2c_state[p] = "UNINIT" => ~port_installed[p]
                      /\ i2c_state[p] = "INIT" /\ p \notin port_failed =>
                           port_installed[p]
    BY DEF StateIsTrue, I2cPort!StateIsTrue
  <2>1. /\ ~I2cPort!Within(p, I2cPort!Deiniting)
        /\ ~I2cPort!Within(p, {"config", "install"})
    BY DEF I2cPort!Within, I2cPort!Initing
  <2> QED BY <2>1 DEF I2cPortInv, PortInv
<1> QED BY <1>1, <1>2, <1>3, PTL DEF Spec

\* hal_iot_pwm.c 56-175: what runs has a frequency that was asked for and, until
\* an init or a deinit overlaps a start of its port, the output pin.
THEOREM OutputIsAskedHolds == Spec => []OutputIsAsked
<1>1. Init => LedcInv
  BY LedcInit
<1>2. LedcInv /\ [Next]_vars => LedcInv'
  BY LedcNext
<1>3. LedcInv => OutputIsAsked
  BY DEF LedcInv, LedcPin, LedcAsked, OutputIsAsked, Ledc!OutputIsAsked
<1> QED BY <1>1, <1>2, <1>3, PTL DEF Spec

\* hal_iot_watchdog.c 37-87: the status tells whether the idle task is watched,
\* unless a function was executed twice at once.
THEOREM StatusIsTrueHolds == Spec => []StatusIsTrue
<1>1. Init => TwdtInv
  BY TwdtInit
<1>2. TwdtInv /\ [Next]_vars => TwdtInv'
  BY TwdtNext
<1>3. TwdtInv => StatusIsTrue
  <2> SUFFICES ASSUME TwdtInv, ~crowded
               PROVE  /\ g_watchdogStatus = "enabled"
                         /\ ~Twdt!Within(Twdt!Disabling) => watched /\ inited
                      /\ g_watchdogStatus = "disabled"
                         /\ ~Twdt!Within(Twdt!Enabling) => ~watched
    BY DEF StatusIsTrue, Twdt!StatusIsTrue
  <2>1. \A t \in Tasks :
          twdt_pc[t] = "out" \/ twdt_pc[t] \in Twdt!Enabling \cup Twdt!Disabling
    BY DEF TwdtInv, Twdt!TypeOK, Twdt!Enabling, Twdt!Disabling
  <2>2. CASE g_watchdogStatus = "enabled" /\ ~Twdt!Within(Twdt!Disabling)
    <3>1. \A t \in Tasks : twdt_pc[t] = "out"
      BY <2>1, <2>2 DEF TwdtInv, Twdt!Within
    <3> QED BY <2>2, <3>1 DEF TwdtInv
  <2>3. CASE g_watchdogStatus = "disabled" /\ ~Twdt!Within(Twdt!Enabling)
    <3>1. \A t \in Tasks : twdt_pc[t] = "out"
      BY <2>1, <2>3 DEF TwdtInv, Twdt!Within
    <3> QED BY <2>3, <3>1 DEF TwdtInv
  <2> QED BY <2>2, <2>3
<1> QED BY <1>1, <1>2, <1>3, PTL DEF Spec

\* The variables of the drivers have the types that their code gives them.
THEOREM TypesCorrect ==
  Spec => [](/\ Spi!TypeOK /\ Uart!TypeOK /\ Wdt!TypeOK /\ Pwm!TypeOK
             /\ Gpio!TypeOK /\ I2cPort!TypeOK /\ Ledc!TypeOK /\ Twdt!TypeOK)
<1> DEFINE Inv == /\ SpiInv /\ UartInv /\ WdtInv /\ PwmInv
                  /\ GpioInv /\ I2cPortInv /\ LedcInv /\ TwdtInv
           Types == /\ Spi!TypeOK /\ Uart!TypeOK /\ Wdt!TypeOK /\ Pwm!TypeOK
                    /\ Gpio!TypeOK /\ I2cPort!TypeOK /\ Ledc!TypeOK
                         /\ Twdt!TypeOK
<1>1. Init => Inv
  BY SpiInit, UartInit, WdtInit, PwmInit, GpioInit, I2cPortInit, LedcInit,
     TwdtInit
<1>2. Inv /\ [Next]_vars => Inv'
  BY SpiNext, UartNext, WdtNext, PwmNext, GpioNext, I2cPortNext, LedcNext,
     TwdtNext
<1>3. Inv => Types
  BY DEF SpiInv, UartInv, UartTypes, WdtInv, PwmInv, GpioInv, I2cPortInv,
     LedcInv, TwdtInv
<1> HIDE DEF Inv, Types
<1>4. Spec => []Types
  BY <1>1, <1>2, <1>3, PTL DEF Spec
<1> QED BY <1>4 DEF Types

=============================================================================
