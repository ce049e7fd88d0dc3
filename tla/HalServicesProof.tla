-------------------------- MODULE HalServicesProof --------------------------
(***************************************************************************)
(* What holds of the services of hals/ whatever the tasks, sectors and     *)
(* sizes.  They share nothing, so that a step of the composition is a step *)
(* of each or leaves it alone (EachSteps), and each has an inductive       *)
(* invariant of its own.  The theorems are at the end.                     *)
(***************************************************************************)
EXTENDS HalServices, TLAPS

\* The services share nothing: a step of the composition is a step of each of
\* them or leaves it alone.
LEMMA EachSteps ==
  ASSUME [Next]_vars
  PROVE  /\ [Log!Next]_logVars
         /\ [Flash!Next]_flashVars
         /\ [Uart!Next]_uartVars
         /\ [Ble!Next]_bleVars
  BY DEF Next, Only, vars

-----------------------------------------------------------------------------
(* LogPrintf *)

LogTypes ==
  /\ bufLock \in BOOLEAN
  /\ buf \in [{0, 1} -> Tasks \cup {Isr, "none"}]
  /\ log_pc \in [Tasks \cup {Isr} ->
                   {"idle", "test", "yield", "set", "format", "write",
                    "done"}]
  /\ sent \in [Tasks \cup {Isr} -> [own : Nat, other : Nat]]
  /\ len \in [Tasks \cup {Isr} -> Nat]

\* The interrupt uses its own buffer and no guard.
LogIsr ==
  /\ log_pc[Isr] \notin {"test", "yield", "set"}
  /\ log_pc[Isr] = "write" => buf[1] = Isr
  /\ buf[0] # Isr /\ sent[Isr].other = 0

\* The tasks that have passed the test of bufLock.
Passed(t) == log_pc[t] = "set" \/ Log!Holds(t)

\* If nothing comes between test and store, one task passes at a time, and the
\* guard is set from its store to its end.
LogGuard(t) ==
  /\ Log!Holds(t) => bufLock
  /\ log_pc[t] = "set" => ~bufLock
  /\ Passed(t) => \A u \in Tasks \ {t} : ~Passed(u)
  /\ log_pc[t] \in {"write", "done"} => buf[0] = t
  /\ log_pc[t] # "idle" => sent[t].other = 0

LogInv == LogTypes /\ LogIsr /\ (atomic => \A t \in Tasks : LogGuard(t))

LEMMA LogInit == Init => LogInv
<1> SUFFICES ASSUME Log!Init PROVE LogInv
  BY DEF Init
<1>1. Isr \notin Tasks /\ Isr # "none"
  BY ServicesAssumption DEF Log!ConstantsOK, Log!Printers
<1> QED
  BY <1>1 DEF Log!Init, Log!Printers, Log!Nobody, LogInv, LogTypes, LogIsr,
     LogGuard, Passed, Log!Holds

LEMMA LogNext == LogInv /\ [Next]_vars => LogInv'
<1>0. SUFFICES ASSUME LogInv, [Log!Next]_logVars PROVE LogInv'
  BY EachSteps
<1>a. Isr \notin Tasks /\ Isr # "none" /\ MaxPieces \in Nat
  BY ServicesAssumption DEF Log!ConstantsOK, Log!Printers
<1> USE DEF LogInv, Log!Printers, Log!GoTo
<1>1. CASE UNCHANGED logVars
  BY <1>0, <1>1 DEF logVars, LogTypes, LogIsr, LogGuard, Passed, Log!Holds
<1>2. ASSUME NEW t \in Tasks, Log!Sleep(t) \/ Log!Wake(t),
             UNCHANGED <<prio, atomic>>
      PROVE  LogInv'
  BY <1>0, <1>2
     DEF Log!Sleep, Log!Wake, LogTypes, LogIsr, LogGuard, Passed, Log!Holds
<1>3. ASSUME NEW p \in Tasks \cup {Isr}, UNCHANGED prio, UNCHANGED atomic,
             Log!Enter(p)
      PROVE  LogInv'
  <2>1. LogTypes'
    BY <1>0, <1>a, <1>3 DEF Log!Enter, LogTypes
  <2>2. LogIsr'
    BY <1>0, <1>a, <1>3 DEF Log!Enter, LogTypes, LogIsr
  <2>3. ASSUME atomic, NEW t \in Tasks PROVE LogGuard(t)'
    BY <1>0, <1>a, <1>3, <2>3
       DEF Log!Enter, LogTypes, LogGuard, Passed, Log!Holds
  <2> QED BY <1>3, <2>1, <2>2, <2>3
<1>4. ASSUME NEW p \in Tasks \cup {Isr}, UNCHANGED prio, UNCHANGED atomic,
             Log!TestLock(p)
      PROVE  LogInv'
  <2>1. LogTypes'
    BY <1>0, <1>a, <1>4 DEF Log!TestLock, LogTypes
  <2>2. LogIsr'
    BY <1>0, <1>a, <1>4 DEF Log!TestLock, LogTypes, LogIsr
  <2>3. p \in Tasks
    BY <1>0, <1>4 DEF Log!TestLock, LogIsr
  <2>4. ASSUME atomic, NEW t \in Tasks PROVE LogGuard(t)'
    <3>1. \A u \in Tasks \ {p} : log_pc[u] # "set"
      BY <1>a, <1>4, <2>3, <2>4 DEF Log!TestLock, Log!Runs
    <3> QED
      BY <1>0, <1>a, <1>4, <2>3, <2>4, <3>1
         DEF Log!TestLock, LogTypes, LogGuard, Passed, Log!Holds
  <2> QED BY <1>4, <2>1, <2>2, <2>4
<1>5. ASSUME NEW p \in Tasks \cup {Isr}, UNCHANGED prio, UNCHANGED atomic,
             Log!SetLock(p)
      PROVE  LogInv'
  <2>1. LogTypes'
    BY <1>0, <1>a, <1>5 DEF Log!SetLock, LogTypes
  <2>2. LogIsr'
    BY <1>0, <1>a, <1>5 DEF Log!SetLock, LogTypes, LogIsr
  <2>3. p \in Tasks
    BY <1>0, <1>5 DEF Log!SetLock, LogIsr
  <2>4. ASSUME atomic, NEW t \in Tasks PROVE LogGuard(t)'
    BY <1>0, <1>a, <1>5, <2>3, <2>4
       DEF Log!SetLock, LogTypes, LogGuard, Passed, Log!Holds
  <2> QED BY <1>5, <2>1, <2>2, <2>4
<1>6. ASSUME NEW p \in Tasks \cup {Isr}, UNCHANGED prio, UNCHANGED atomic,
             Log!Format(p)
      PROVE  LogInv'
  <2>1. PICK l \in 0 .. MaxPieces :
          /\ len' = [len EXCEPT ![p] = l]
          /\ log_pc' = [log_pc EXCEPT ![p] = IF l > 0 THEN "write" ELSE "done"]
    BY <1>6 DEF Log!Format
  <2>2. /\ log_pc[p] = "format" /\ UNCHANGED <<bufLock, sent>>
        /\ buf' = [buf EXCEPT ![Log!BufOf(p)] = p]
    BY <1>6 DEF Log!Format
  <2>3. Log!BufOf(p) = IF p \in Tasks THEN 0 ELSE 1
    BY <1>a DEF Log!BufOf
  <2>4. LogTypes'
    BY <1>0, <1>a, <2>1, <2>2, <2>3 DEF LogTypes
  <2>5. LogIsr'
    BY <1>0, <1>a, <2>1, <2>2, <2>3 DEF LogTypes, LogIsr
  <2>6. ASSUME atomic, NEW t \in Tasks PROVE LogGuard(t)'
    <3>1. CASE p = t
      BY <1>0, <1>a, <2>1, <2>2, <2>3, <2>6, <3>1
         DEF LogTypes, LogGuard, Passed, Log!Holds
    <3>2. CASE p # t
      <4>1. p \in Tasks => ~Passed(t)
        BY <1>0, <2>2, <2>6, <3>2 DEF LogGuard, Passed, Log!Holds
      <4> QED
        BY <1>0, <1>a, <2>1, <2>2, <2>3, <2>6, <3>2, <4>1
           DEF LogTypes, LogGuard, Passed, Log!Holds
    <3> QED BY <3>1, <3>2
  <2> QED BY <1>6, <2>4, <2>5, <2>6
<1>7. ASSUME NEW p \in Tasks \cup {Isr}, UNCHANGED prio, UNCHANGED atomic,
             Log!Write(p)
      PROVE  LogInv'
  <2>1. PICK piece \in Nat :
          /\ piece <= len[p]
          /\ len' = [len EXCEPT ![p] = len[p] - piece]
          /\ sent' = IF buf[Log!BufOf(p)] = p
                       THEN [sent EXCEPT ![p].own = sent[p].own + piece]
                       ELSE [sent EXCEPT ![p].other = sent[p].other + piece]
          /\ log_pc' = [log_pc EXCEPT ![p] =
               IF len[p] = piece THEN "done" ELSE "write"]
    <3>1. PICK room \in 1 .. MaxPieces :
            LET piece == IF room < len[p] THEN room ELSE len[p] IN
            /\ len' = [len EXCEPT ![p] = @ - piece]
            /\ sent' = IF buf[Log!BufOf(p)] = p
                         THEN [sent EXCEPT ![p].own = @ + piece]
                         ELSE [sent EXCEPT ![p].other = @ + piece]
            /\ Log!GoTo(p, IF len[p] = piece THEN "done" ELSE "write")
      BY <1>7 DEF Log!Write
    <3>2. len[p] \in Nat
      BY <1>0, <1>7 DEF LogTypes
    <3> DEFINE piece == IF room < len[p] THEN room ELSE len[p]
    <3>3. piece \in Nat /\ piece <= len[p]
      BY <3>2
    <3>4. /\ len' = [len EXCEPT ![p] = len[p] - piece]
          /\ sent' = IF buf[Log!BufOf(p)] = p
                       THEN [sent EXCEPT ![p].own = sent[p].own + piece]
                       ELSE [sent EXCEPT ![p].other = sent[p].other + piece]
          /\ log_pc' = [log_pc EXCEPT ![p] =
               IF len[p] = piece THEN "done" ELSE "write"]
      BY <3>1
    <3> HIDE DEF piece
    <3> QED BY <3>3, <3>4
  <2>2. log_pc[p] = "write" /\ UNCHANGED <<bufLock, buf>>
    BY <1>7 DEF Log!Write
  <2>3. Log!BufOf(p) = IF p \in Tasks THEN 0 ELSE 1
    BY <1>a DEF Log!BufOf
  <2>4. LogTypes'
    BY <1>0, <1>a, <2>1, <2>2 DEF LogTypes
  <2>5. LogIsr'
    BY <1>0, <1>a, <2>1, <2>2, <2>3 DEF LogTypes, LogIsr
  <2>6. ASSUME atomic, NEW t \in Tasks PROVE LogGuard(t)'
    <3>1. CASE p = t
      <4>1. buf[Log!BufOf(p)] = p
        BY <1>0, <2>2, <2>3, <2>6, <3>1 DEF LogGuard
      <4>2. sent'[t].other = sent[t].other
        BY <1>0, <2>1, <3>1, <4>1 DEF LogTypes
      <4>3. log_pc'[t] \in {"write", "done"}
        BY <1>0, <2>1, <3>1 DEF LogTypes
      <4>4. \A u \in Tasks \ {t} : log_pc'[u] = log_pc[u]
        BY <1>0, <2>1, <3>1 DEF LogTypes
      <4> QED
        BY <1>0, <2>2, <2>6, <3>1, <4>2, <4>3, <4>4
           DEF LogGuard, Passed, Log!Holds
    <3>2. CASE p # t
      <4>1. log_pc'[t] = log_pc[t] /\ sent'[t] = sent[t]
        BY <1>0, <2>1, <3>2 DEF LogTypes
      <4>2. log_pc'[p] \in {"write", "done"} /\ log_pc[p] = "write"
        BY <1>0, <2>1, <2>2 DEF LogTypes
      <4>3. \A u \in Tasks \ {p} : log_pc'[u] = log_pc[u]
        BY <1>0, <2>1 DEF LogTypes
      <4> QED
        BY <1>0, <2>2, <2>6, <3>2, <4>1, <4>2, <4>3
           DEF LogGuard, Passed, Log!Holds
    <3> QED BY <3>1, <3>2
  <2> QED BY <1>7, <2>4, <2>5, <2>6
<1>8. ASSUME NEW p \in Tasks \cup {Isr}, UNCHANGED prio, UNCHANGED atomic,
             Log!Release(p)
      PROVE  LogInv'
  <2>1. LogTypes'
    BY <1>0, <1>a, <1>8 DEF Log!Release, LogTypes
  <2>2. LogIsr'
    BY <1>0, <1>a, <1>8 DEF Log!Release, LogTypes, LogIsr
  <2>3. ASSUME atomic, NEW t \in Tasks PROVE LogGuard(t)'
    BY <1>0, <1>a, <1>8, <2>3
       DEF Log!Release, LogTypes, LogGuard, Passed, Log!Holds
  <2> QED BY <1>8, <2>1, <2>2, <2>3
<1>9. ASSUME NEW p \in Tasks \cup {Isr}, UNCHANGED prio, UNCHANGED atomic,
             Log!Yield(p)
      PROVE  LogInv'
  <2>1. LogTypes'
    BY <1>0, <1>a, <1>9 DEF Log!Yield, LogTypes
  <2>2. LogIsr'
    BY <1>0, <1>a, <1>9 DEF Log!Yield, LogTypes, LogIsr
  <2>3. ASSUME atomic, NEW t \in Tasks PROVE LogGuard(t)'
    BY <1>0, <1>a, <1>9, <2>3
       DEF Log!Yield, LogTypes, LogGuard, Passed, Log!Holds
  <2> QED BY <1>9, <2>1, <2>2, <2>3
<1> QED
  BY <1>0, <1>1, <1>2, <1>3, <1>4, <1>5, <1>6, <1>7, <1>8, <1>9
     DEF Log!Next, Log!s_vprintf

-----------------------------------------------------------------------------
(* HalUart *)

UartTypes ==
  /\ installed \in BOOLEAN /\ head \in Nat /\ tail \in Nat /\ head <= tail
  /\ uart_pc \in [Tasks -> {"idle", "read", "success", "overrun"}]
  /\ dataLen \in [Tasks -> Nat] /\ data_received \in [Tasks -> Nat]
  /\ data_remaining \in [Tasks -> Int] /\ further \in [Tasks -> BOOLEAN]

\* The remainder is right until the driver is called again after it has given
\* bytes; from then on it is too small by at least those.
UartRead(r) ==
  /\ uart_pc[r] = "idle" => data_received[r] = 0 /\ ~further[r]
  /\ uart_pc[r] = "read" =>
       /\ data_received[r] <= dataLen[r]
       /\ ~further[r] => data_remaining[r] = dataLen[r] - data_received[r]
       /\ further[r] => data_remaining[r] < dataLen[r] - data_received[r]
  /\ uart_pc[r] = "success" => (data_received[r] = dataLen[r] <=> ~further[r])
  /\ uart_pc[r] = "overrun" => further[r]

UartInv == UartTypes /\ \A r \in Tasks : UartRead(r)

LEMMA UartInit == Init => UartInv
<1> SUFFICES ASSUME Uart!Init PROVE UartInv
  BY DEF Init
<1>1. installed \in BOOLEAN /\ further \in [Tasks -> BOOLEAN]
  BY Zenon DEF Uart!Init
<1> QED BY <1>1 DEF Uart!Init, UartInv, UartTypes, UartRead

LEMMA UartReturn ==
  ASSUME UartInv, NEW r \in Tasks, Uart!Return(r),
         installed' \in BOOLEAN, head' \in Nat, tail' \in Nat, head' <= tail'
  PROVE  UartInv'
<1>1. further' \in [Tasks -> BOOLEAN]
  BY Zenon DEF Uart!Return, UartInv, UartTypes
<1>2. /\ uart_pc'[r] = "idle" /\ data_received'[r] = 0
      /\ \A q \in Tasks \ {r} :
           /\ uart_pc'[q] = uart_pc[q] /\ dataLen'[q] = dataLen[q]
           /\ data_received'[q] = data_received[q]
           /\ data_remaining'[q] = data_remaining[q]
           /\ further'[q] = further[q]
  BY DEF Uart!Return, Uart!GoTo, UartInv, UartTypes
<1>3. UartTypes'
  BY <1>1 DEF Uart!Return, Uart!GoTo, UartInv, UartTypes
<1>4. ~further'[r]
  BY Zenon DEF Uart!Return, UartInv, UartTypes
<1> QED BY <1>2, <1>3, <1>4 DEF UartInv, UartRead

\* A call of the driver that gave n bytes, or -1, is accounted for.
LEMMA UartAccount ==
  ASSUME UartInv, NEW r \in Tasks, uart_pc[r] = "read",
         NEW n \in Nat \cup {-1}, n <= data_remaining[r] \/ further[r],
         data_received[r] + n <= dataLen[r], Uart!Account(r, n),
         installed' \in BOOLEAN, head' \in Nat, tail' \in Nat, head' <= tail'
  PROVE  UartInv'
<1> USE DEF UartInv, UartTypes
<1>1. CASE data_received[r] + n < 0
  BY <1>1, UartReturn DEF Uart!Account
<1>2. CASE data_received[r] + n >= 0
  <2> DEFINE total == data_received[r] + n
             rest == data_remaining[r] - total
  <2>1. /\ data_received' = [data_received EXCEPT ![r] = total]
        /\ data_remaining' = [data_remaining EXCEPT ![r] =
             IF data_remaining[r] < 0 \/ rest < 0 THEN -1 ELSE rest]
        /\ uart_pc' = [uart_pc EXCEPT ![r] =
             IF data_remaining[r] > 0 /\ rest = 0 THEN "success" ELSE "read"]
        /\ UNCHANGED dataLen
    BY <1>2 DEF Uart!Account, Uart!GoTo, Uart!Negative
  <2>2. further' = [further EXCEPT ![r] = further[r] \/ data_received[r] > 0]
    BY <1>2 DEF Uart!Account
  <2>3. /\ further' \in [Tasks -> BOOLEAN]
        /\ further'[r] = (further[r] \/ data_received[r] > 0)
        /\ \A q \in Tasks \ {r} : further'[q] = further[q]
    BY <2>2, Zenon
  <2>4. UartTypes'
    <3>1. total \in Nat /\ rest \in Int
      BY <1>2
    <3> HIDE DEF total, rest
    <3>2. /\ data_received' \in [Tasks -> Nat] /\ dataLen' \in [Tasks -> Nat]
          /\ data_remaining' \in [Tasks -> Int]
      BY <2>1, <3>1
    <3>3. uart_pc' \in [Tasks -> {"idle", "read", "success", "overrun"}]
      BY <2>1
    <3> QED BY <2>3, <3>2, <3>3
  <2>5. \A q \in Tasks \ {r} : UartRead(q)'
    BY <2>1, <2>3 DEF UartRead
  <2>6. UartRead(r)'
    <3> DEFINE a == data_remaining[r]
               g == data_received[r]
    <3>1. /\ data_received'[r] = total /\ dataLen'[r] = dataLen[r]
          /\ data_remaining'[r] = IF a < 0 \/ rest < 0 THEN -1 ELSE rest
          /\ uart_pc'[r] = IF a > 0 /\ rest = 0 THEN "success" ELSE "read"
      BY <2>1
    <3>2. /\ total = g + n /\ rest = a - total /\ g \in Nat /\ a \in Int
          /\ dataLen[r] \in Nat /\ total \in 0 .. dataLen[r]
          /\ n <= a \/ further[r]
      BY <1>2
    <3>3. /\ g <= dataLen[r]
          /\ ~further[r] => a = dataLen[r] - g
          /\ further[r] => a < dataLen[r] - g
      BY DEF UartRead
    <3>4. further'[r] <=> further[r] \/ g > 0
      BY <2>3
    <3> HIDE DEF total, rest, a, g
    <3>5. CASE a > 0 /\ rest = 0
      <4>1. uart_pc'[r] = "success"
        BY <3>1, <3>5
      <4>2. total = dataLen[r] <=> ~further'[r]
        BY <3>2, <3>3, <3>4, <3>5
      <4> QED BY <3>1, <4>1, <4>2 DEF UartRead
    <3>6. CASE ~(a > 0 /\ rest = 0)
      <4>1. uart_pc'[r] = "read"
        BY <3>1, <3>6
      <4>2. CASE further[r] \/ g > 0
        <5>1. rest < dataLen[r] - total /\ -1 < dataLen[r] - total
          BY <3>2, <3>3, <4>2
        <5> QED BY <3>1, <3>2, <3>4, <4>1, <4>2, <5>1 DEF UartRead
      <4>3. CASE ~further[r] /\ g = 0
        <5>1. rest = dataLen[r] - total /\ a >= 0 /\ rest >= 0
          BY <3>2, <3>3, <4>3
        <5> QED BY <3>1, <3>2, <3>4, <4>1, <4>3, <5>1 DEF UartRead
      <4> QED BY <3>2, <4>2, <4>3
    <3> QED BY <3>5, <3>6
  <2> QED BY <2>4, <2>5, <2>6
<1> QED BY <1>1, <1>2

LEMMA UartNext == UartInv /\ [Next]_vars => UartInv'
<1> SUFFICES ASSUME UartInv, [Uart!Next]_uartVars PROVE UartInv'
  BY EachSteps
<1>0. MaxSize \in Nat
  BY ServicesAssumption DEF Uart!ConstantsOK
<1> USE DEF UartInv, UartTypes, Uart!portVars, Uart!fifoVars, Uart!readVars,
            Uart!Available
<1>1. CASE Uart!Arrive
  BY <1>1 DEF Uart!Arrive, UartRead
<1>2. CASE Uart!IoTUartInit
  <2>1. installed' \in BOOLEAN
    BY <1>2, Zenon DEF Uart!IoTUartInit
  <2> QED BY <1>2, <2>1 DEF Uart!IoTUartInit, UartRead
<1>3. CASE Uart!IoTUartDeinit
  <2>1. UartTypes'
    <3>1. installed' \in BOOLEAN
      BY <1>3, Zenon DEF Uart!IoTUartDeinit
    <3> QED BY <1>3, <3>1 DEF Uart!IoTUartDeinit
  <2> QED BY <1>3, <2>1 DEF Uart!IoTUartDeinit, UartRead
<1>4. ASSUME NEW r \in Tasks, Uart!Call(r) PROVE UartInv'
  <2>1. PICK k \in 1 .. MaxSize :
          /\ dataLen' = [dataLen EXCEPT ![r] = k]
          /\ data_remaining' = [data_remaining EXCEPT ![r] = k]
    BY <1>4 DEF Uart!Call
  <2>2. UartTypes'
    BY <1>0, <1>4, <2>1 DEF Uart!Call, Uart!GoTo
  <2>3. UartRead(r)'
    BY <1>0, <1>4, <2>1 DEF Uart!Call, Uart!GoTo, UartRead
  <2>4. \A q \in Tasks \ {r} : UartRead(q)'
    BY <1>0, <1>4, <2>1 DEF Uart!Call, Uart!GoTo, UartRead
  <2> QED BY <2>2, <2>3, <2>4
<1>5. ASSUME NEW r \in Tasks, Uart!ReadBytes(r) PROVE UartInv'
  <2>1. uart_pc[r] = "read" /\ UartRead(r) /\ UNCHANGED <<installed, tail>>
    BY <1>5 DEF Uart!ReadBytes
  <2>2. CASE ~installed /\ Uart!Account(r, -1) /\ UNCHANGED head
    BY <2>1, <2>2, UartAccount DEF UartRead
  <2>3. CASE installed /\ ~Uart!Sleeps(r)
    <3> DEFINE n == IF data_remaining[r] < 0 THEN tail - head
                    ELSE Uart!Least(data_remaining[r], tail - head)
    <3>1. /\ n \in Nat /\ n <= tail - head
          /\ data_remaining[r] >= 0 => n <= data_remaining[r]
      BY DEF Uart!Least
    <3>2. /\ head' = head + n
          /\ \/ data_received[r] + n <= dataLen[r] /\ Uart!Account(r, n)
             \/ /\ data_received[r] + n > dataLen[r]
                /\ Uart!GoTo(r, "overrun")
                /\ further' =
                     [further EXCEPT ![r] = further[r] \/ data_received[r] > 0]
                /\ UNCHANGED <<dataLen, data_received, data_remaining>>
      BY <1>5, <2>3 DEF Uart!ReadBytes
    <3> HIDE DEF n
    <3>3. n <= data_remaining[r] \/ further[r]
      BY <2>1, <3>1 DEF UartRead
    <3>4. CASE data_received[r] + n <= dataLen[r] /\ Uart!Account(r, n)
      BY <2>1, <3>1, <3>2, <3>3, <3>4, UartAccount
    <3>5. CASE data_received[r] + n > dataLen[r]
      <4>1. /\ further' \in [Tasks -> BOOLEAN]
            /\ further'[r] = (further[r] \/ data_received[r] > 0)
            /\ \A q \in Tasks \ {r} : further'[q] = further[q]
        <5>1. ~(data_received[r] + n <= dataLen[r])
          BY <3>1, <3>5
        <5> QED BY <3>2, <5>1, Zenon
      <4> QED
        BY <2>1, <3>1, <3>2, <3>3, <3>5, <4>1 DEF Uart!GoTo, UartRead
    <3> QED BY <3>2, <3>4, <3>5
  <2> QED BY <1>5, <2>2, <2>3 DEF Uart!ReadBytes
<1>6. ASSUME NEW r \in Tasks, Uart!ReadReturns(r) PROVE UartInv'
  BY <1>6, UartReturn DEF Uart!ReadReturns
<1>7. CASE UNCHANGED uartVars
  BY <1>7 DEF uartVars, UartRead
<1> QED
  BY <1>1, <1>2, <1>3, <1>4, <1>5, <1>6, <1>7 DEF Uart!Next, Uart!IoTUartRead

-----------------------------------------------------------------------------
(* BleStack *)

Enabling == {"controller enable", "bluedroid init", "bluedroid enable"}
Disabling == {"bluedroid disable", "controller disable"}

\* The controller is initialised once, so that one task at most ever enables.
\* Until it has brought up the host nobody disables, and while the host is up
\* and has refused nothing no task is about to take down the controller.
BleInv ==
  /\ Ble!TypeOK
  /\ controller = "idle" => bluedroid = "idle" /\ brought = 0
  /\ \A t \in BleTasks :
       /\ ble_pc[t] \in Enabling =>
            /\ controller # "idle" /\ bluedroid # "enabled" /\ brought = 0
            /\ \A u \in BleTasks \ {t} : ble_pc[u] = "out"
       /\ ble_pc[t] = "controller enable" =>
            controller = "inited" /\ bluedroid = "idle"
       /\ ble_pc[t] = "bluedroid init" =>
            controller = "enabled" /\ bluedroid = "idle"
       /\ ble_pc[t] = "bluedroid enable" =>
            controller = "enabled" /\ bluedroid = "inited"
       /\ ble_pc[t] \in Disabling => brought = 1 /\ bluedroid # "idle"
       /\ ble_pc[t] = "controller disable" => bluedroid = "inited" \/ refused
  /\ bluedroid = "enabled" => (controller = "enabled" \/ refused) /\ brought = 1
  /\ brought <= 1

LEMMA BleInit == Init => BleInv
<1> SUFFICES ASSUME Ble!Init PROVE BleInv
  BY DEF Init
<1>1. refused \in BOOLEAN
  BY Zenon DEF Ble!Init
<1>2. /\ controller = "idle" /\ bluedroid = "idle" /\ brought = 0
      /\ ble_pc = [t \in BleTasks |-> "out"]
  BY Zenon DEF Ble!Init
<1> QED BY <1>1, <1>2 DEF BleInv, Ble!TypeOK, Ble!States, Enabling, Disabling

LEMMA BleNext == BleInv /\ [Next]_vars => BleInv'
<1>0. SUFFICES ASSUME BleInv, [Ble!Next]_bleVars PROVE BleInv'
  BY EachSteps
<1> USE DEF BleInv, Ble!TypeOK, Ble!States, Ble!GoTo, Ble!history, Enabling,
            Disabling
<1>1. ASSUME NEW t \in BleTasks, Ble!ControllerInit(t) PROVE BleInv'
  BY <1>0, <1>1 DEF Ble!ControllerInit
<1>2. ASSUME NEW t \in BleTasks, Ble!ControllerEnable(t) PROVE BleInv'
  BY <1>0, <1>2 DEF Ble!ControllerEnable
<1>3. ASSUME NEW t \in BleTasks, Ble!BluedroidInit(t) PROVE BleInv'
  BY <1>0, <1>3 DEF Ble!BluedroidInit
<1>4. ASSUME NEW t \in BleTasks, Ble!BluedroidEnable(t) PROVE BleInv'
  <2>1. /\ bluedroid' = "enabled" /\ controller' = "enabled"
        /\ \A u \in BleTasks : ble_pc'[u] = "out"
        /\ ble_pc' = [u \in BleTasks |-> "out"]
    BY <1>0, <1>4 DEF Ble!BluedroidEnable
  <2>2. brought = 0
    BY <1>0, <1>4 DEF Ble!BluedroidEnable
  <2>3. brought' = brought + 1
    BY <1>4 DEF Ble!BluedroidEnable
  <2>4. brought' = 1
    BY <2>2, <2>3
  <2>5. refused' \in BOOLEAN
    BY <1>0, <1>4, Zenon DEF Ble!BluedroidEnable
  <2> QED BY <2>1, <2>4, <2>5
<1>5. ASSUME NEW t \in BleTasks, Ble!EnableFails(t) PROVE BleInv'
  BY <1>0, <1>5 DEF Ble!EnableFails
<1>6. ASSUME NEW t \in BleTasks, Ble!DisableTest(t) PROVE BleInv'
  BY <1>0, <1>6 DEF Ble!DisableTest
<1>7. ASSUME NEW t \in BleTasks, Ble!BluedroidDisable(t) PROVE BleInv'
  BY <1>0, <1>7 DEF Ble!BluedroidDisable
<1>8. ASSUME NEW t \in BleTasks, Ble!ControllerDisable(t) PROVE BleInv'
  BY <1>0, <1>8 DEF Ble!ControllerDisable
<1>9. CASE UNCHANGED bleVars
  BY <1>0, <1>9 DEF bleVars
<1> QED
  BY <1>0, <1>1, <1>2, <1>3, <1>4, <1>5, <1>6, <1>7, <1>8, <1>9
     DEF Ble!Next, Ble!EnableBle, Ble!DisableBle

-----------------------------------------------------------------------------
(* FlashWrite *)

FlashEnd == Flash!FlashEnd
Addrs == Flash!Addrs
Contents == Flash!Contents
Area(c) == Flash!Area(c)
Head(c) == Flash!Head(c)
Tail(c) == Flash!Tail(c)
Target(c) == Flash!Range(c)

LEMMA Quotient ==
  ASSUME NEW a \in Nat, NEW w \in Nat \ {0}
  PROVE  /\ a \div w \in Nat /\ a % w \in 0 .. w - 1
         /\ a = w * (a \div w) + (a % w)
  OBVIOUS

\* The rounding of an address to sectors.
LEMMA Rounding ==
  ASSUME NEW a \in Nat
  PROVE  /\ (a \div SectorSize) * SectorSize \in 0 .. a
         /\ (a \div SectorSize + 1) * SectorSize \in Nat
         /\ a < (a \div SectorSize + 1) * SectorSize
<1>1. SectorSize \in Nat \ {0}
  BY ServicesAssumption DEF Flash!ConstantsOK
<1>2. SUFFICES ASSUME NEW w \in Nat \ {0}
               PROVE  /\ (a \div w) * w \in 0 .. a
                      /\ (a \div w + 1) * w \in Nat
                      /\ a < (a \div w + 1) * w
  BY <1>1
<1>3. SUFFICES ASSUME NEW q \in Nat, NEW r \in 0 .. w - 1, a = w * q + r
               PROVE  /\ q * w \in 0 .. a /\ (q + 1) * w \in Nat
                      /\ a < (q + 1) * w
  BY Quotient
<1>4. q * w = w * q /\ (q + 1) * w = w * q + w
  OBVIOUS
<1>5. w * q \in Nat
  OBVIOUS
<1>6. SUFFICES ASSUME NEW p \in Nat, a = p + r
               PROVE  p \in 0 .. a /\ p + w \in Nat /\ a < p + w
  BY <1>3, <1>4, <1>5
<1> QED BY <1>6

LEMMA EndInNat == FlashEnd \in Nat
  BY ServicesAssumption DEF FlashEnd, Flash!FlashEnd, Flash!ConstantsOK

\* Where a call reads and writes.
LEMMA CallBounds ==
  ASSUME NEW c \in Flash!Calls
  PROVE  /\ c.flashOffset \in Nat /\ c.size \in Nat \ {0}
         /\ c.doErase \in BOOLEAN /\ c.flashOffset + c.size <= FlashEnd
         /\ Flash!startEraseAddr(c) \in 0 .. c.flashOffset
         /\ Flash!endEraseAddr(c) \in Nat
         /\ c.flashOffset + c.size <= Flash!endEraseAddr(c)
<1>1. /\ c.flashOffset \in Nat /\ c.size \in Nat \ {0}
      /\ c.flashOffset + c.size <= FlashEnd
  BY EndInNat DEF Flash!Calls, FlashEnd, Flash!Addrs
<1>2. c.doErase \in BOOLEAN
  BY Zenon DEF Flash!Calls
<1>3. Flash!startEraseAddr(c) \in 0 .. c.flashOffset
  BY <1>1, Rounding DEF Flash!startEraseAddr
<1>4. c.flashOffset + c.size \in Nat
  BY <1>1
<1>5. /\ ((c.flashOffset + c.size) \div SectorSize + 1) * SectorSize \in Nat
      /\ c.flashOffset + c.size <
           ((c.flashOffset + c.size) \div SectorSize + 1) * SectorSize
  BY <1>4, Rounding
<1>6. /\ Flash!endEraseAddr(c) \in Nat
      /\ c.flashOffset + c.size <= Flash!endEraseAddr(c)
  BY <1>1, <1>4, <1>5 DEF Flash!endEraseAddr
<1> QED BY <1>1, <1>2, <1>3, <1>6

\* The parts of the area of a call, by comparison.
LEMMA Parts ==
  ASSUME NEW c \in Flash!Calls, NEW a
  PROVE  LET o == c.flashOffset
             e == o + c.size
         IN  /\ a \in Target(c) <=> a \in Int /\ o <= a /\ a < e
             /\ a \in Addrs <=> a \in Int /\ 0 <= a /\ a < FlashEnd
             /\ a \in Head(c) => a \in Nat /\ a < o
             /\ a \in Tail(c) => a \in Nat /\ e < a
             /\ a \in Target(c) => a \in Area(c) /\ a \in Addrs
             /\ a \in Head(c) => a \in Addrs
             /\ c.doErase /\ a \in Head(c) => a \in Area(c)
             /\ c.doErase /\ a \in Tail(c) => a \in Area(c)
             /\ ~c.doErase /\ a \in Area(c) => a \in Target(c)
             /\ a \in Area(c) => \/ a \in Target(c) \/ a = e
                                 \/ a \in Head(c) \/ a \in Tail(c)
<1>0. FlashEnd \in Nat
  BY EndInNat
<1> DEFINE st == Flash!startEraseAddr(c)
           en == Flash!endEraseAddr(c)
<1>1. /\ c.flashOffset \in Nat /\ c.size \in Nat \ {0} /\ c.doErase \in BOOLEAN
      /\ c.flashOffset + c.size <= FlashEnd /\ st \in 0 .. c.flashOffset
      /\ en \in Nat /\ c.flashOffset + c.size <= en
  BY CallBounds
<1>2. /\ Target(c) = c.flashOffset .. c.flashOffset + c.size - 1
      /\ Addrs = 0 .. FlashEnd - 1
      /\ Head(c) = st .. c.flashOffset - 1
      /\ Tail(c) = c.flashOffset + c.size + 1 .. en
      /\ Area(c) = IF c.doErase THEN st .. en ELSE Target(c)
  BY DEF Target, Addrs, Head, Tail, Area, Flash!Range, Flash!Addrs, Flash!Head,
         Flash!Tail, Flash!Area, FlashEnd
<1> HIDE DEF st, en
<1>3. SUFFICES /\ a \in Target(c) <=> /\ a \in Int /\ c.flashOffset <= a
                                      /\ a < c.flashOffset + c.size
               /\ a \in Addrs <=> a \in Int /\ 0 <= a /\ a < FlashEnd
               /\ a \in Head(c) => a \in Nat /\ a < c.flashOffset
               /\ a \in Tail(c) => a \in Nat /\ c.flashOffset + c.size < a
               /\ a \in Target(c) => a \in Area(c) /\ a \in Addrs
               /\ a \in Head(c) => a \in Addrs
               /\ c.doErase /\ a \in Head(c) => a \in Area(c)
               /\ c.doErase /\ a \in Tail(c) => a \in Area(c)
               /\ ~c.doErase /\ a \in Area(c) => a \in Target(c)
               /\ a \in Area(c) =>
                    \/ a \in Target(c) \/ a = c.flashOffset + c.size
                    \/ a \in Head(c) \/ a \in Tail(c)
  OBVIOUS
<1>4. SUFFICES ASSUME NEW o \in Nat, NEW z \in Nat \ {0}, o = c.flashOffset,
                      z = c.size, NEW n \in Nat, n = FlashEnd, o + z <= n,
                      st \in 0 .. o, en \in Nat, o + z <= en
               PROVE  /\ a \in o .. o + z - 1 <=>
                           a \in Int /\ o <= a /\ a < o + z
                      /\ a \in 0 .. n - 1 <=> a \in Int /\ 0 <= a /\ a < n
                      /\ a \in st .. o - 1 =>
                           /\ a \in Nat /\ a < o
                           /\ a \in 0 .. n - 1 /\ a \in st .. en
                      /\ a \in o + z + 1 .. en =>
                           a \in Nat /\ o + z < a /\ a \in st .. en
                      /\ a \in o .. o + z - 1 =>
                           a \in st .. en /\ a \in 0 .. n - 1
                      /\ a \in st .. en =>
                           \/ a \in o .. o + z - 1 \/ a = o + z
                           \/ a \in st .. o - 1 \/ a \in o + z + 1 .. en
  <2>1. /\ c.flashOffset \in Nat /\ c.size \in Nat \ {0}
        /\ c.flashOffset + c.size <= FlashEnd /\ st \in 0 .. c.flashOffset
        /\ en \in Nat /\ c.flashOffset + c.size <= en
    BY <1>1
  <2> QED BY <1>0, <1>1, <1>2, <2>1
<1> QED BY <1>4

LEMMA ContentsHold ==
  /\ Flash!Erased \in Contents /\ Flash!Mixed \in Contents
  /\ \A a \in Addrs : Flash!First(a) \in Contents
  /\ \A t \in Tasks, a \in Addrs : <<t, a>> \in Contents
  /\ \A u, v \in Contents : Flash!Put(u, v) \in Contents
<1>1. /\ Flash!Erased \in Contents /\ Flash!Mixed \in Contents
      /\ \A a \in Addrs : Flash!First(a) \in Contents
      /\ \A t \in Tasks, a \in Addrs : <<t, a>> \in Contents
  BY DEF Contents, Flash!Contents, Addrs
<1>2. \A u, v \in Contents : Flash!Put(u, v) \in Contents
  BY <1>1 DEF Flash!Put
<1> QED BY <1>1, <1>2

LEMMA ForgottenHolds == Flash!Forgotten \in [Addrs -> Contents]
  BY ContentsHold DEF Flash!Forgotten, Addrs

LEMMA PutErased == \A v : Flash!Put(Flash!Erased, v) = v
  BY DEF Flash!Put

-----------------------------------------------------------------------------
\* The addresses that a call has left as they were, erased, or written, when it
\* is about to make the step that a label stands for.
Intact(l, c, a) ==
  \/ l \in {"readHead", "readTail", "erase"}
  \/ l = "writeData" /\ ~c.doErase
  \/ l \in {"writeTail", "writeData", "done"} /\ c.doErase /\ a \in Head(c)
  \/ l \in {"writeData", "done"} /\ c.doErase /\ a \in Tail(c)

Cleared(l, c, a) ==
  /\ c.doErase
  /\ \/ l = "writeHead"
     \/ l = "writeTail" /\ a \notin Head(c)
     \/ l = "writeData" /\ a \notin Head(c) /\ a \notin Tail(c)
     \/ l = "done" /\ a \notin Head(c) /\ a \notin Tail(c) /\ a \notin Target(c)

Written(l, c, a) == l = "done" /\ a \in Target(c)

Live(t) == flash_pc[t] # "idle" /\ ~ended[t]

\* The flash under a call that goes on and shares its sectors with none.
FlashStage(t) ==
  Live(t) /\ ~shared[t] =>
    \A a \in Addrs : a \in Area(call[t]) =>
      /\ Intact(flash_pc[t], call[t], a) => flash[a] = before[t][a]
      /\ Cleared(flash_pc[t], call[t], a) => flash[a] = Flash!Erased
      /\ Written(flash_pc[t], call[t], a) =>
           flash[a] = IF call[t].doErase
                        THEN Flash!Data(t, a)
                        ELSE Flash!Put(before[t][a], Flash!Data(t, a))

FlashCall(t) ==
  Live(t) =>
    /\ call[t] \in Flash!Calls
    /\ flash_pc[t] \notin {"writeData", "done"} => call[t].doErase
    /\ flash_pc[t] = "readHead" => DOMAIN backup[t] = {}
    /\ flash_pc[t] = "readTail" => DOMAIN backup[t] = Head(call[t])
    /\ flash_pc[t] \in {"erase", "writeHead", "writeTail"} =>
         DOMAIN backup[t] = Head(call[t]) \cup Tail(call[t])
    /\ call[t].doErase /\ flash_pc[t] \notin {"readHead", "readTail"} =>
         Tail(call[t]) \subseteq Addrs
    /\ ~shared[t] /\ flash_pc[t] \notin {"writeData", "done"} =>
         \A a \in DOMAIN backup[t] : backup[t][a] = before[t][a]

\* Calls that touch the same address know of it.
FlashApart ==
  \A t, u \in Tasks :
    t # u /\ flash_pc[t] # "idle" /\ flash_pc[u] # "idle" /\ ~shared[t] =>
      Area(call[t]) \cap Area(call[u]) = {}

FlashFree(t) == flash_pc[t] = "idle" => DOMAIN backup[t] = {} /\ ~ended[t]

\* The content v of an address a, b before, of a call that task t has brought
\* to a label.
Accounted(t, l, c, b, v, a) ==
  \/ v = b
  \/ v = Flash!Erased /\ a \in Flash!Unrestored(l, c)
  \/ /\ v = <<t, a - c.flashOffset>> /\ a \in Target(c)
     /\ l \in {"writeData", "done"}

\* The flash under a call with doErase that goes on or has failed.
FlashRest(t) ==
  flash_pc[t] # "idle" /\ call[t].doErase /\ ~shared[t] =>
    \A a \in Addrs : a \in Area(call[t]) =>
      Accounted(t, flash_pc[t], call[t], before[t][a], flash[a], a)

FlashCore(t) == FlashFree(t) /\ FlashCall(t) /\ FlashStage(t)

FlashTask(t) == FlashCore(t) /\ FlashRest(t)

FlashInv == Flash!TypeOK /\ FlashApart /\ \A t \in Tasks : FlashTask(t)

LEMMA FlashInit == Init => FlashInv
<1> SUFFICES ASSUME Flash!Init PROVE FlashInv
  BY DEF Init
<1>1. Flash!NoBackup \in
        UNION {[A -> Flash!Contents] : A \in SUBSET Flash!Addrs}
  <2>1. Flash!NoBackup \in [{} -> Flash!Contents]
    BY DEF Flash!NoBackup
  <2>2. {} \in SUBSET Flash!Addrs
    OBVIOUS
  <2> QED BY <2>1, <2>2, Zenon
<1>2. flash \in [Flash!Addrs -> Flash!Contents]
  BY ContentsHold DEF Flash!Init, Addrs, Contents
<1>3. calls \in [Tasks -> Nat]
  BY ServicesAssumption DEF Flash!Init, Flash!ConstantsOK
<1>4. shared \in [Tasks -> BOOLEAN] /\ ended \in [Tasks -> BOOLEAN]
  BY Zenon DEF Flash!Init
<1>8. before \in [Tasks -> [Flash!Addrs -> Flash!Contents]]
  BY ForgottenHolds DEF Flash!Init, Addrs, Contents
<1>5. Flash!TypeOK
  BY <1>1, <1>2, <1>3, <1>4, <1>8 DEF Flash!Init, Flash!TypeOK
<1>6. \A t \in Tasks : flash_pc[t] = "idle" /\ DOMAIN backup[t] = {}
  BY DEF Flash!Init, Flash!NoBackup
<1>7. \A t \in Tasks : ~ended[t]
  BY Zenon DEF Flash!Init
<1> QED BY <1>5, <1>6, <1>7
        DEF FlashInv, FlashApart, FlashTask, FlashCore, FlashFree, FlashCall,
            FlashStage, FlashRest, Live

\* A call that goes on leaves its addresses as its stage says.
LEMMA StageAccounts ==
  ASSUME NEW t, NEW l \in {"readHead", "readTail", "erase", "writeHead",
                           "writeTail", "writeData", "done"},
         NEW c \in Flash!Calls, c.doErase, NEW a, a \in Area(c), NEW b, NEW v,
         Intact(l, c, a) => v = b, Cleared(l, c, a) => v = Flash!Erased,
         Written(l, c, a) => v = <<t, a - c.flashOffset>>
  PROVE  Accounted(t, l, c, b, v, a)
<1>1. CASE l \in {"readHead", "readTail", "erase"}
  BY <1>1 DEF Intact, Accounted
<1>2. CASE l = "writeHead"
  BY <1>2 DEF Cleared, Accounted, Flash!Unrestored, Area
<1>3. CASE l = "writeTail"
  BY <1>3 DEF Intact, Cleared, Accounted, Flash!Unrestored, Area, Head
<1>4. CASE l = "writeData"
  BY <1>4 DEF Intact, Cleared, Accounted, Flash!Unrestored, Area, Head, Tail
<1>5. CASE l = "done"
  <2>1. \/ a \in Target(c) \/ a = c.flashOffset + c.size
        \/ a \in Head(c) \/ a \in Tail(c)
    BY Parts
  <2>2. CASE a \in Target(c)
    BY <1>5, <2>2 DEF Written, Accounted
  <2>3. CASE a \in Head(c) \/ a \in Tail(c)
    BY <1>5, <2>3 DEF Intact, Accounted
  <2>4. CASE a \notin Target(c) /\ a \notin Head(c) /\ a \notin Tail(c)
    BY <1>5, <2>1, <2>4 DEF Cleared, Accounted, Flash!Unrestored
  <2> QED BY <2>2, <2>3, <2>4
<1> QED BY <1>1, <1>2, <1>3, <1>4, <1>5

\* What others do leaves a task's part of the invariant alone.
LEMMA FlashBystander ==
  ASSUME FlashInv, NEW t \in Tasks,
         flash_pc'[t] = flash_pc[t], call'[t] = call[t],
         backup'[t] = backup[t], ended'[t] = ended[t],
         ~shared'[t] => before'[t] = before[t],
         flash_pc[t] # "idle" => (shared[t] => shared'[t]),
         flash_pc[t] # "idle" /\ ~shared'[t] =>
           \A a \in Addrs : a \in Area(call[t]) => flash'[a] = flash[a]
  PROVE  FlashTask(t)'
<1>1. CASE flash_pc[t] = "idle"
  BY <1>1 DEF FlashInv, FlashTask, FlashCore, FlashFree, FlashCall, FlashStage,
              FlashRest, Live
<1>2. CASE flash_pc[t] # "idle"
  <2>1. FlashCall(t)'
    BY <1>2 DEF FlashInv, FlashTask, FlashCore, FlashCall, Live
  <2>2. \A a : Flash!Data(t, a)' = Flash!Data(t, a)
    BY DEF Flash!Data
  <2>3. FlashStage(t)'
    BY <1>2, <2>2 DEF FlashInv, FlashTask, FlashCore, FlashStage, Live
  <2>4. FlashRest(t)'
    BY <1>2 DEF FlashInv, FlashTask, FlashRest
  <2> QED BY <1>2, <2>1, <2>3, <2>4 DEF FlashTask, FlashCore, FlashFree
<1> QED BY <1>1, <1>2

\* Calls that go on or end stay apart.
LEMMA FlashStayApart ==
  ASSUME FlashInv,
         \A t \in Tasks : flash_pc'[t] # "idle" =>
           /\ flash_pc[t] # "idle" /\ call'[t] = call[t]
           /\ shared[t] => shared'[t]
  PROVE  FlashApart'
  BY DEF FlashInv, FlashApart

\* A step of task t that changes the flash in its own area only, and that
\* either goes on or ends the call.
LEMMA FlashOwnStep ==
  ASSUME FlashInv, NEW t \in Tasks, flash_pc[t] # "idle", Flash!TypeOK',
         \A u \in Tasks \ {t} :
           /\ flash_pc'[u] = flash_pc[u] /\ call'[u] = call[u]
           /\ before'[u] = before[u] /\ backup'[u] = backup[u]
           /\ shared'[u] = shared[u] /\ ended'[u] = ended[u],
         \A a \in Addrs : a \notin Area(call[t]) => flash'[a] = flash[a],
         \/ flash_pc'[t] = "idle" /\ DOMAIN backup'[t] = {} /\ ~ended'[t]
         \/ call'[t] = call[t] /\ shared'[t] = shared[t] /\ FlashTask(t)'
  PROVE  FlashInv'
<1>1. FlashApart'
  BY FlashStayApart
<1>2. ASSUME NEW u \in Tasks \ {t} PROVE FlashTask(u)'
  <2>1. flash_pc[u] # "idle" /\ ~shared[u] =>
          \A a \in Addrs : a \in Area(call[u]) => flash'[a] = flash[a]
    BY <1>2 DEF FlashInv, FlashApart
  <2> QED BY <1>2, <2>1, FlashBystander
<1>3. FlashTask(t)'
  BY DEF FlashTask, FlashCore, FlashFree, FlashCall, FlashStage, FlashRest, Live
<1> QED BY <1>1, <1>2, <1>3 DEF FlashInv

\* A call returns.
LEMMA FlashReturns ==
  ASSUME FlashInv, NEW t \in Tasks, flash_pc[t] # "idle", Flash!Return(t)
  PROVE  FlashInv'
<1> USE DEF FlashInv, Flash!TypeOK, Flash!Return, Flash!GoTo
<1>1. Flash!NoBackup \in
        UNION {[A -> Flash!Contents] : A \in SUBSET Flash!Addrs}
  <2>1. Flash!NoBackup \in [{} -> Flash!Contents]
    BY DEF Flash!NoBackup
  <2>2. {} \in SUBSET Flash!Addrs
    OBVIOUS
  <2> QED BY <2>1, <2>2, Zenon
<1>2. Flash!Forgotten \in [Flash!Addrs -> Flash!Contents]
  BY ForgottenHolds DEF Addrs, Contents
<1>3. /\ flash' \in [Flash!Addrs -> Flash!Contents] /\ calls' \in [Tasks -> Nat]
      /\ before' \in [Tasks -> [Flash!Addrs -> Flash!Contents]]
  BY <1>2 DEF Addrs, Contents
<1>4. /\ backup' \in [Tasks -> UNION {[A -> Flash!Contents] :
                                        A \in SUBSET Flash!Addrs}]
      /\ call' \in [Tasks -> Flash!Calls \cup {Flash!NoCall}]
  BY <1>1
<1>5. shared' \in [Tasks -> BOOLEAN] /\ ended' \in [Tasks -> BOOLEAN]
  BY Zenon
<1>6. flash_pc' \in [Tasks -> {"idle", "readHead", "readTail", "erase",
                               "writeHead", "writeTail", "writeData", "done"}]
  OBVIOUS
<1>7. Flash!TypeOK'
  BY <1>3, <1>4, <1>5, <1>6
<1>8. /\ flash_pc'[t] = "idle" /\ backup'[t] = Flash!NoBackup
      /\ \A u \in Tasks \ {t} :
           /\ flash_pc'[u] = flash_pc[u] /\ call'[u] = call[u]
           /\ before'[u] = before[u] /\ backup'[u] = backup[u]
           /\ shared'[u] = shared[u] /\ ended'[u] = ended[u]
  OBVIOUS
<1>10. ~ended'[t] /\ flash' = flash
  BY Zenon
<1> HIDE DEF FlashInv, Flash!TypeOK, Flash!Return
<1>9. DOMAIN backup'[t] = {}
  BY <1>8 DEF Flash!NoBackup
<1> QED BY <1>7, <1>8, <1>9, <1>10, FlashOwnStep

\* A call fails, having changed the flash in its own area at most and left each
\* address of it as Accounted says.
LEMMA FlashFails ==
  ASSUME FlashInv, NEW t \in Tasks, flash_pc[t] # "idle", Flash!Fail(t),
         flash' \in [Addrs -> Contents], UNCHANGED calls,
         \A a \in Addrs : a \notin Area(call[t]) => flash'[a] = flash[a],
         call[t].doErase /\ ~shared[t] =>
           \A a \in Addrs : a \in Area(call[t]) =>
             Accounted(t, flash_pc[t], call[t], before[t][a], flash'[a], a)
  PROVE  FlashInv'
<1> USE DEF FlashInv, Flash!TypeOK, Flash!Fail
<1>1. Flash!NoBackup \in
        UNION {[A -> Flash!Contents] : A \in SUBSET Flash!Addrs}
  <2>1. Flash!NoBackup \in [{} -> Flash!Contents]
    BY DEF Flash!NoBackup
  <2>2. {} \in SUBSET Flash!Addrs
    OBVIOUS
  <2> QED BY <2>1, <2>2, Zenon
<1>2. /\ flash' \in [Flash!Addrs -> Flash!Contents]
      /\ backup' \in [Tasks -> UNION {[A -> Flash!Contents] :
                                        A \in SUBSET Flash!Addrs}]
  BY <1>1 DEF Addrs, Contents
<1>3. ended' \in [Tasks -> BOOLEAN]
  BY Zenon
<1>4. UNCHANGED <<flash_pc, call, before, shared, calls>>
  OBVIOUS
<1>5. Flash!TypeOK'
  BY <1>2, <1>3, <1>4
<1>6. ended'[t] /\ \A u \in Tasks \ {t} : ended'[u] = ended[u]
  BY Zenon
<1>7. \A u \in Tasks \ {t} : backup'[u] = backup[u]
  OBVIOUS
<1> HIDE DEF FlashInv, Flash!TypeOK, Flash!Fail
<1>8. FlashRest(t)'
  BY <1>4 DEF FlashRest
<1>9. FlashTask(t)'
  BY <1>4, <1>6, <1>8
     DEF FlashTask, FlashCore, FlashFree, FlashCall, FlashStage, Live
<1> QED BY <1>4, <1>5, <1>6, <1>7, <1>9, FlashOwnStep

FlashLabels == {"idle", "readHead", "readTail", "erase", "writeHead",
                "writeTail", "writeData", "done"}
FlashBackups == UNION {[A -> Contents] : A \in SUBSET Addrs}

LEMMA BackupType == FlashInv => backup = [u \in Tasks |-> backup[u]]
  BY DEF FlashInv, Flash!TypeOK

\* A backup's domain and values.
LEMMA BackupHolds ==
  ASSUME FlashInv, NEW t \in Tasks
  PROVE  /\ backup[t] \in FlashBackups
         /\ \A a \in DOMAIN backup[t] : a \in Addrs /\ backup[t][a] \in Contents
<1>1. backup[t] \in FlashBackups
  BY Zenon DEF FlashInv, Flash!TypeOK, FlashBackups, Contents, Addrs
<1> QED BY <1>1 DEF FlashBackups

LEMMA BackupMade ==
  ASSUME NEW f, NEW A \in SUBSET Addrs, f \in [A -> Contents]
  PROVE  f \in FlashBackups
  BY Zenon DEF FlashBackups

LEMMA NoBackupHolds == Flash!NoBackup \in FlashBackups
<1>1. Flash!NoBackup \in [{} -> Contents]
  BY DEF Flash!NoBackup
<1>2. {} \in SUBSET Addrs
  OBVIOUS
<1> QED BY <1>1, <1>2, BackupMade

\* A step of task t that goes on.
LEMMA FlashGoes ==
  ASSUME FlashInv, NEW t \in Tasks, flash_pc[t] # "idle",
         NEW to \in FlashLabels, Flash!GoTo(t, to),
         NEW kept \in FlashBackups, backup' = [backup EXCEPT ![t] = kept],
         flash' \in [Addrs -> Contents],
         UNCHANGED <<call, before, shared, ended, calls>>,
         \A a \in Addrs : a \notin Area(call[t]) => flash'[a] = flash[a],
         ~ended[t], to # "idle", FlashCore(t)'
  PROVE  FlashInv'
<1> USE DEF FlashInv, Flash!TypeOK, Flash!GoTo
<1>1. backup' \in [Tasks -> FlashBackups]
  BY DEF FlashBackups, Contents, Addrs
<1>2. flash_pc' \in [Tasks -> FlashLabels]
  BY DEF FlashLabels
<1>3. Flash!TypeOK'
  BY <1>1, <1>2 DEF FlashLabels, FlashBackups, Contents, Addrs
<1>4. \A u \in Tasks \ {t} :
        /\ flash_pc'[u] = flash_pc[u] /\ call'[u] = call[u]
        /\ before'[u] = before[u] /\ backup'[u] = backup[u]
        /\ shared'[u] = shared[u] /\ ended'[u] = ended[u]
  OBVIOUS
<1>5. call'[t] = call[t] /\ shared'[t] = shared[t] /\ before'[t] = before[t]
      /\ flash_pc'[t] = to /\ ended'[t] = ended[t]
  OBVIOUS
<1> HIDE DEF FlashInv, Flash!TypeOK, Flash!GoTo
<1>6. FlashRest(t)'
  <2> SUFFICES ASSUME call[t].doErase, ~shared[t], NEW a \in Addrs,
                      a \in Area(call[t])
               PROVE  Accounted(t, to, call[t], before[t][a], flash'[a], a)
    BY <1>5 DEF FlashRest
  <2>1. to \in FlashLabels \ {"idle"} /\ Live(t)'
    BY <1>5 DEF Live
  <2>2. call[t] \in Flash!Calls
    BY <1>5, <2>1 DEF FlashCore, FlashCall
  <2>3. /\ Intact(to, call[t], a) => flash'[a] = before[t][a]
        /\ Cleared(to, call[t], a) => flash'[a] = Flash!Erased
        /\ Written(to, call[t], a) => flash'[a] = Flash!Data(t, a)'
    BY <1>5, <2>1 DEF FlashCore, FlashStage
  <2>4. Flash!Data(t, a)' = <<t, a - call[t].flashOffset>>
    BY <1>5 DEF Flash!Data
  <2> QED BY <2>1, <2>2, <2>3, <2>4, StageAccounts DEF FlashLabels
<1>7. FlashTask(t)'
  BY <1>6 DEF FlashTask
<1> QED BY <1>3, <1>4, <1>5, <1>7, FlashOwnStep

\* A write of the driver within the area of its call.
LEMMA FlashWrites ==
  ASSUME FlashInv, NEW t \in Tasks, Live(t),
         NEW to \in FlashLabels \ {"idle"}, NEW kept \in FlashBackups,
         NEW A, NEW new,
         \A a \in A : a \in Addrs => a \in Area(call[t]) /\ new[a] \in Contents,
         call[t].doErase /\ ~shared[t] => \A a \in A : a \in Addrs =>
           Accounted(t, flash_pc[t], call[t], before[t][a],
                     Flash!Put(flash[a], new[a]), a),
         Flash!WriteFlash(t, A, new, kept, to), UNCHANGED calls,
         /\ Flash!GoTo(t, to) /\ backup' = [backup EXCEPT ![t] = kept]
         /\ UNCHANGED <<call, before, shared, ended>>
         /\ flash' = [a \in Addrs |->
                        IF a \in A THEN Flash!Put(flash[a], new[a])
                                   ELSE flash[a]]
         => FlashCore(t)'
  PROVE  FlashInv'
<1>1. PICK stop \in A \cup {FlashEnd} :
        /\ flash' = [a \in Addrs |-> IF a \in A /\ a < stop
                                       THEN Flash!Put(flash[a], new[a])
                                       ELSE flash[a]]
        /\ \/ stop = FlashEnd /\ Flash!GoTo(t, to)
              /\ backup' = [backup EXCEPT ![t] = kept]
              /\ UNCHANGED <<call, before, shared, ended>>
           \/ Flash!Fail(t)
  BY DEF Flash!WriteFlash, FlashEnd, Addrs
<1>2. flash \in [Addrs -> Contents] /\ flash_pc[t] # "idle" /\ ~ended[t]
  BY DEF FlashInv, Flash!TypeOK, Addrs, Contents, Live
<1>3. flash' \in [Addrs -> Contents]
  BY <1>1, <1>2, ContentsHold
<1>4. \A a \in Addrs : a \notin Area(call[t]) => flash'[a] = flash[a]
  BY <1>1, <1>2
<1>5. CASE Flash!Fail(t)
  <2> SUFFICES ASSUME call[t].doErase, ~shared[t], NEW a \in Addrs,
                      a \in Area(call[t])
               PROVE  Accounted(t, flash_pc[t], call[t], before[t][a],
                                flash'[a], a)
    BY <1>2, <1>3, <1>4, <1>5, FlashFails
  <2>1. CASE a \in A /\ a < stop
    BY <1>1, <2>1
  <2>2. CASE ~(a \in A /\ a < stop)
    <3>1. Accounted(t, flash_pc[t], call[t], before[t][a], flash[a], a)
      BY <1>2 DEF FlashInv, FlashTask, FlashRest
    <3> QED BY <1>1, <2>2, <3>1
  <2> QED BY <2>1, <2>2
<1>6. CASE /\ stop = FlashEnd /\ Flash!GoTo(t, to)
           /\ backup' = [backup EXCEPT ![t] = kept]
           /\ UNCHANGED <<call, before, shared, ended>>
  <2>1. \A a \in Addrs : a < FlashEnd
    BY EndInNat DEF Addrs, Flash!Addrs, FlashEnd
  <2>2. flash' = [a \in Addrs |-> IF a \in A THEN Flash!Put(flash[a], new[a])
                                            ELSE flash[a]]
    BY <1>1, <1>6, <2>1
  <2>3. FlashCore(t)'
    BY <1>6, <2>2
  <2> QED BY <1>2, <1>3, <1>4, <1>6, <2>3, FlashGoes
<1> QED BY <1>1, <1>5, <1>6

\* What the invariant says of a call in progress.
LEMMA FlashKnown ==
  ASSUME FlashInv, NEW t \in Tasks, Live(t)
  PROVE  /\ call[t] \in Flash!Calls /\ flash_pc[t] # "idle" /\ ~ended[t]
         /\ flash_pc[t] \notin {"writeData", "done"} => call[t].doErase
         /\ flash_pc[t] = "readHead" => DOMAIN backup[t] = {}
         /\ flash_pc[t] = "readTail" => DOMAIN backup[t] = Head(call[t])
         /\ flash_pc[t] \in {"erase", "writeHead", "writeTail"} =>
              DOMAIN backup[t] = Head(call[t]) \cup Tail(call[t])
         /\ call[t].doErase /\ flash_pc[t] \notin {"readHead", "readTail"} =>
              Tail(call[t]) \subseteq Addrs
         /\ ~shared[t] /\ flash_pc[t] \notin {"writeData", "done"} =>
              \A a \in DOMAIN backup[t] : backup[t][a] = before[t][a]
         /\ ~shared[t] => \A a \in Addrs : a \in Area(call[t]) =>
              /\ Intact(flash_pc[t], call[t], a) => flash[a] = before[t][a]
              /\ Cleared(flash_pc[t], call[t], a) => flash[a] = Flash!Erased
  BY DEF FlashInv, FlashTask, FlashCore, FlashCall, FlashStage, Live

LEMMA FlashReadHead ==
  ASSUME FlashInv, NEW t \in Tasks,
         Flash!ReadFlash(t, "readHead", Flash!Head(call[t]), "readTail")
  PROVE  FlashInv'
<1>1. /\ flash_pc[t] = "readHead" /\ Live(t) /\ flash_pc[t] # "idle"
      /\ ~ended[t] /\ flash' = flash /\ calls' = calls
  BY DEF Flash!ReadFlash, Flash!At, Live
<1>2. /\ flash' \in [Addrs -> Contents]
      /\ \A a \in Addrs : a \notin Area(call[t]) => flash'[a] = flash[a]
      /\ flash_pc \in [Tasks -> FlashLabels]
      /\ DOMAIN backup = Tasks
  BY <1>1 DEF FlashInv, Flash!TypeOK, Addrs, Contents, FlashLabels
<1>3. CASE Flash!Fail(t)
  <2>1. FlashRest(t)
    BY DEF FlashInv, FlashTask
  <2> QED BY <1>1, <1>2, <1>3, <2>1, FlashFails DEF FlashRest
<1>4. ASSUME Head(call[t]) \subseteq Addrs, Flash!GoTo(t, "readTail"),
             UNCHANGED <<call, before, shared, ended>>,
             backup' = [backup EXCEPT ![t] =
               [a \in DOMAIN backup[t] \cup Head(call[t]) |->
                  IF a \in Head(call[t]) THEN flash[a] ELSE backup[t][a]]]
      PROVE  FlashInv'
  <2>1. DOMAIN backup[t] = {} /\ call[t] \in Flash!Calls /\ call[t].doErase
    BY <1>1, FlashKnown
  <2> DEFINE new == [a \in Head(call[t]) |-> flash[a]]
  <2>2. backup' = [backup EXCEPT ![t] = new]
    BY <1>4, <2>1
  <2>3. new \in FlashBackups
    <3>1. new \in [Head(call[t]) -> Contents]
      BY <1>1, <1>2, <1>4
    <3> QED BY <1>4, <3>1, BackupMade
  <2>4. flash_pc'[t] = "readTail" /\ backup'[t] = new /\ call'[t] = call[t]
        /\ before'[t] = before[t] /\ shared'[t] = shared[t]
    BY <1>2, <1>4, <2>2 DEF Flash!GoTo
  <2>5. ~shared[t] =>
          \A a \in Addrs : a \in Area(call[t]) => flash[a] = before[t][a]
    BY <1>1, FlashKnown DEF Intact
  <2>6. FlashCall(t)'
    <3>1. \A a \in Head(call[t]) : a \in Addrs /\ a \in Area(call[t])
      BY <2>1, Parts
    <3> QED BY <2>1, <2>4, <2>5, <3>1 DEF FlashCall
  <2>7. FlashStage(t)'
    BY <1>1, <2>4, <2>5 DEF FlashStage, Intact, Cleared, Written
  <2>8. FlashCore(t)'
    BY <2>4, <2>6, <2>7 DEF FlashCore, FlashFree
  <2> HIDE DEF new
  <2> QED BY <1>1, <1>2, <1>4, <2>2, <2>3, <2>8, FlashGoes DEF FlashLabels
<1> QED BY <1>3, <1>4 DEF Flash!ReadFlash, Head, Addrs

LEMMA FlashReadTail ==
  ASSUME FlashInv, NEW t \in Tasks,
         Flash!ReadFlash(t, "readTail", Flash!Tail(call[t]), "erase")
  PROVE  FlashInv'
<1>1. /\ flash_pc[t] = "readTail" /\ Live(t) /\ flash_pc[t] # "idle"
      /\ ~ended[t] /\ flash' = flash /\ calls' = calls
  BY DEF Flash!ReadFlash, Flash!At, Live
<1>2. /\ flash' \in [Addrs -> Contents]
      /\ \A a \in Addrs : a \notin Area(call[t]) => flash'[a] = flash[a]
      /\ flash_pc \in [Tasks -> FlashLabels]
      /\ DOMAIN backup = Tasks
  BY <1>1 DEF FlashInv, Flash!TypeOK, Addrs, Contents, FlashLabels
<1>3. CASE Flash!Fail(t)
  <2>1. FlashRest(t)
    BY DEF FlashInv, FlashTask
  <2> QED BY <1>1, <1>2, <1>3, <2>1, FlashFails DEF FlashRest
<1>4. ASSUME Tail(call[t]) \subseteq Addrs, Flash!GoTo(t, "erase"),
             UNCHANGED <<call, before, shared, ended>>,
             backup' = [backup EXCEPT ![t] =
               [a \in DOMAIN backup[t] \cup Tail(call[t]) |->
                  IF a \in Tail(call[t]) THEN flash[a] ELSE backup[t][a]]]
      PROVE  FlashInv'
  <2>0. DOMAIN backup[t] = Head(call[t])
    BY <1>1, FlashKnown
  <2>1. call[t] \in Flash!Calls /\ call[t].doErase
    BY <1>1, FlashKnown
  <2>b. ~shared[t] => \A a \in Head(call[t]) : backup[t][a] = before[t][a]
    BY <1>1, <2>0, FlashKnown
  <2> DEFINE new == [a \in Head(call[t]) \cup Tail(call[t]) |->
                       IF a \in Tail(call[t]) THEN flash[a] ELSE backup[t][a]]
  <2>2. backup' = [backup EXCEPT ![t] = new]
    BY <1>4, <2>0
  <2>3. new \in FlashBackups
    <3>1. \A a \in Head(call[t]) : a \in Addrs /\ backup[t][a] \in Contents
      BY <2>0, BackupHolds
    <3>2. new \in [Head(call[t]) \cup Tail(call[t]) -> Contents]
      BY <1>1, <1>2, <1>4, <3>1
    <3>3. Head(call[t]) \cup Tail(call[t]) \in SUBSET Addrs
      BY <1>4, <3>1
    <3> QED BY <3>2, <3>3, BackupMade
  <2>4. flash_pc'[t] = "erase" /\ backup'[t] = new /\ call'[t] = call[t]
        /\ before'[t] = before[t] /\ shared'[t] = shared[t]
    BY <1>2, <1>4, <2>2 DEF Flash!GoTo
  <2>5. ~shared[t] =>
          \A a \in Addrs : a \in Area(call[t]) => flash[a] = before[t][a]
    BY <1>1, FlashKnown DEF Intact
  <2>6. FlashCall(t)'
    <3>1. \A a \in Tail(call[t]) : a \in Addrs /\ a \in Area(call[t])
      BY <1>4, <2>1, Parts
    <3> QED BY <1>4, <2>1, <2>b, <2>4, <2>5, <3>1 DEF FlashCall
  <2>7. FlashStage(t)'
    BY <1>1, <2>4, <2>5 DEF FlashStage, Intact, Cleared, Written
  <2>8. FlashCore(t)'
    BY <2>4, <2>6, <2>7 DEF FlashCore, FlashFree
  <2> HIDE DEF new
  <2> QED BY <1>1, <1>2, <1>4, <2>2, <2>3, <2>8, FlashGoes DEF FlashLabels
<1> QED BY <1>3, <1>4 DEF Flash!ReadFlash, Tail, Addrs

LEMMA FlashErase ==
  ASSUME FlashInv, NEW t \in Tasks, Flash!Erase(t)
  PROVE  FlashInv'
<1>1. /\ flash_pc[t] = "erase" /\ Live(t) /\ flash_pc[t] # "idle"
      /\ ~ended[t] /\ calls' = calls
  BY DEF Flash!Erase, Flash!At, Live
<1>2. PICK stop \in {SectorSize * k : k \in 0 .. Sectors} :
        /\ flash' = [a \in Addrs |-> IF a \in Area(call[t]) /\ a < stop
                                       THEN Flash!Erased ELSE flash[a]]
        /\ \/ stop = FlashEnd /\ Flash!GoTo(t, "writeHead")
              /\ UNCHANGED <<call, backup, before, shared, ended>>
           \/ Flash!Fail(t)
  BY DEF Flash!Erase, Flash!EraseFlash, FlashEnd, Addrs, Area
<1>3. /\ flash \in [Addrs -> Contents]
      /\ flash_pc \in [Tasks -> FlashLabels] /\ DOMAIN backup = Tasks
  BY <1>1 DEF FlashInv, Flash!TypeOK, Addrs, Contents, FlashLabels
<1>4. flash' \in [Addrs -> Contents]
  BY <1>2, <1>3, ContentsHold
<1>5. \A a \in Addrs : a \notin Area(call[t]) => flash'[a] = flash[a]
  BY <1>2, <1>3
<1>6. CASE Flash!Fail(t)
  <2>1. ~shared[t] =>
          \A a \in Addrs : a \in Area(call[t]) => flash[a] = before[t][a]
    BY <1>1, FlashKnown DEF Intact
  <2>2. ~shared[t] => \A a \in Addrs : a \in Area(call[t]) =>
          flash'[a] = before[t][a] \/ flash'[a] = Flash!Erased
    BY <1>2, <2>1
  <2>3. Flash!Unrestored(flash_pc[t], call[t]) = Area(call[t])
    BY <1>1 DEF Flash!Unrestored, Area
  <2>4. ~shared[t] => \A a \in Addrs : a \in Area(call[t]) =>
          Accounted(t, flash_pc[t], call[t], before[t][a], flash'[a], a)
    BY <2>2, <2>3 DEF Accounted
  <2> QED BY <1>1, <1>4, <1>5, <1>6, <2>4, FlashFails
<1>7. CASE stop = FlashEnd /\ Flash!GoTo(t, "writeHead")
           /\ UNCHANGED <<call, backup, before, shared, ended>>
  <2>1. \A a \in Addrs : a < FlashEnd
    BY EndInNat DEF Addrs, Flash!Addrs, FlashEnd
  <2>a. flash_pc'[t] = "writeHead"
    BY <1>3, <1>7 DEF Flash!GoTo
  <2>b. backup' = [backup EXCEPT ![t] = backup[t]]
    BY <1>7, BackupType
  <2>2. flash_pc'[t] = "writeHead" /\ backup' = [backup EXCEPT ![t] = backup[t]]
    BY <2>a, <2>b
  <2>3. FlashCall(t)'
    BY <1>1, <1>7, <2>2, FlashKnown DEF FlashCall
  <2>4. FlashStage(t)'
    BY <1>2, <1>7, <2>1, <2>2 DEF FlashStage, Intact, Cleared, Written
  <2> QED BY <1>1, <1>4, <1>5, <1>7, <2>2, <2>3, <2>4, BackupHolds, FlashGoes
          DEF FlashCore, FlashFree, FlashLabels
<1> QED BY <1>2, <1>6, <1>7

\* What a step that goes on to a label keeps of the state of its call.
LEMMA FlashWent ==
  ASSUME FlashInv, NEW t \in Tasks, NEW to, Flash!GoTo(t, to),
         UNCHANGED <<call, before, shared, ended>>
  PROVE  /\ flash_pc'[t] = to /\ call'[t] = call[t] /\ before'[t] = before[t]
         /\ shared'[t] = shared[t]
  BY DEF FlashInv, Flash!TypeOK, Flash!GoTo

LEMMA FlashWriteHead ==
  ASSUME FlashInv, NEW t \in Tasks, Flash!WriteHead(t)
  PROVE  FlashInv'
<1>1. /\ flash_pc[t] = "writeHead" /\ Live(t) /\ ~ended[t] /\ UNCHANGED calls
  BY DEF Flash!WriteHead, Flash!At, Live
<1>2. Flash!WriteFlash(t, Head(call[t]), backup[t], backup[t], "writeTail")
  BY DEF Flash!WriteHead, Head
<1>3. /\ call[t] \in Flash!Calls /\ call[t].doErase
      /\ Tail(call[t]) \subseteq Addrs
  BY <1>1, FlashKnown
<1>4. DOMAIN backup[t] = Head(call[t]) \cup Tail(call[t])
  BY <1>1, FlashKnown
<1>5. \A a \in Head(call[t]) :
        a \in Area(call[t]) /\ a \in Addrs /\ backup[t][a] \in Contents
  BY <1>3, <1>4, BackupHolds, Parts
<1>6. ASSUME Flash!GoTo(t, "writeTail"),
             backup' = [backup EXCEPT ![t] = backup[t]],
             UNCHANGED <<call, before, shared, ended>>,
             flash' = [a \in Addrs |-> IF a \in Head(call[t])
                                         THEN Flash!Put(flash[a], backup[t][a])
                                         ELSE flash[a]]
      PROVE  FlashCore(t)'
  <2>1. /\ flash_pc'[t] = "writeTail" /\ call'[t] = call[t]
        /\ before'[t] = before[t] /\ shared'[t] = shared[t]
    BY <1>6, FlashWent
  <2>2. backup'[t] = backup[t]
    BY <1>6, BackupType
  <2>3. ~shared[t] => \A a \in DOMAIN backup[t] : backup[t][a] = before[t][a]
    BY <1>1, FlashKnown
  <2>4. FlashCall(t)'
    BY <1>3, <1>4, <2>1, <2>2, <2>3 DEF FlashCall
  <2>5. ~shared[t] =>
          \A a \in Addrs : a \in Area(call[t]) => flash[a] = Flash!Erased
    BY <1>1, <1>3, FlashKnown DEF Cleared
  <2>6. ~shared[t] => \A a \in Addrs : a \in Area(call[t]) =>
          flash'[a] = IF a \in Head(call[t]) THEN before[t][a] ELSE Flash!Erased
    BY <1>4, <1>6, <2>3, <2>5, PutErased
  <2>7. FlashStage(t)'
    BY <2>1, <2>6 DEF FlashStage, Intact, Cleared, Written
  <2> QED BY <2>1, <2>4, <2>7 DEF FlashCore, FlashFree
<1>7. ASSUME ~shared[t], NEW a \in Head(call[t])
      PROVE  Accounted(t, flash_pc[t], call[t], before[t][a],
                       Flash!Put(flash[a], backup[t][a]), a)
  <2>1. flash[a] = Flash!Erased /\ backup[t][a] = before[t][a]
    BY <1>1, <1>3, <1>4, <1>5, <1>7, FlashKnown DEF Cleared
  <2> QED BY <2>1, PutErased DEF Accounted
<1> QED
  BY <1>1, <1>2, <1>5, <1>6, <1>7, BackupHolds, FlashWrites DEF FlashLabels

LEMMA FlashWriteTail ==
  ASSUME FlashInv, NEW t \in Tasks, Flash!WriteTail(t)
  PROVE  FlashInv'
<1>1. /\ flash_pc[t] = "writeTail" /\ Live(t) /\ ~ended[t] /\ UNCHANGED calls
  BY DEF Flash!WriteTail, Flash!At, Live
<1>2. Flash!WriteFlash(t, Tail(call[t]), backup[t], Flash!NoBackup, "writeData")
  BY DEF Flash!WriteTail, Tail
<1>3. /\ call[t] \in Flash!Calls /\ call[t].doErase
      /\ Tail(call[t]) \subseteq Addrs
  BY <1>1, FlashKnown
<1>4. DOMAIN backup[t] = Head(call[t]) \cup Tail(call[t])
  BY <1>1, FlashKnown
<1>5. \A a \in Tail(call[t]) :
        a \in Area(call[t]) /\ a \in Addrs /\ backup[t][a] \in Contents
  BY <1>3, <1>4, BackupHolds, Parts
<1>a. \A a \in Tail(call[t]) : a \notin Head(call[t])
  <2> SUFFICES ASSUME NEW a \in Tail(call[t]), a \in Head(call[t])
               PROVE  FALSE
    OBVIOUS
  <2>1. /\ a \in Nat /\ a < call[t].flashOffset
        /\ call[t].flashOffset + call[t].size < a
    BY <1>3, Parts
  <2>2. call[t].flashOffset \in Nat /\ call[t].size \in Nat
    BY <1>3, CallBounds
  <2> QED BY <2>1, <2>2
<1>6. ASSUME Flash!GoTo(t, "writeData"),
             UNCHANGED <<call, before, shared, ended>>,
             flash' = [a \in Addrs |-> IF a \in Tail(call[t])
                                         THEN Flash!Put(flash[a], backup[t][a])
                                         ELSE flash[a]]
      PROVE  FlashCore(t)'
  <2>1. /\ flash_pc'[t] = "writeData" /\ call'[t] = call[t]
        /\ before'[t] = before[t] /\ shared'[t] = shared[t]
    BY <1>6, FlashWent
  <2>2. ~shared[t] => \A a \in DOMAIN backup[t] : backup[t][a] = before[t][a]
    BY <1>1, FlashKnown
  <2>3. FlashCall(t)'
    BY <1>3, <2>1 DEF FlashCall
  <2>4. ~shared[t] => \A a \in Addrs : a \in Area(call[t]) =>
          flash[a] = IF a \in Head(call[t]) THEN before[t][a] ELSE Flash!Erased
    BY <1>1, <1>3, FlashKnown DEF Intact, Cleared
  <2>6. ~shared[t] => \A a \in Addrs : a \in Area(call[t]) =>
          flash'[a] = IF a \in Head(call[t]) \cup Tail(call[t])
                        THEN before[t][a] ELSE Flash!Erased
    BY <1>4, <1>6, <2>2, <2>4, <1>a, PutErased
  <2>7. FlashStage(t)'
    BY <1>3, <2>1, <2>6 DEF FlashStage, Intact, Cleared, Written
  <2> QED BY <2>1, <2>3, <2>7 DEF FlashCore, FlashFree
<1>7. ASSUME ~shared[t], NEW a \in Tail(call[t])
      PROVE  Accounted(t, flash_pc[t], call[t], before[t][a],
                       Flash!Put(flash[a], backup[t][a]), a)
  <2>1. flash[a] = Flash!Erased /\ backup[t][a] = before[t][a]
    BY <1>1, <1>3, <1>4, <1>5, <1>7, <1>a, FlashKnown DEF Cleared
  <2> QED BY <2>1, PutErased DEF Accounted
<1> QED
  BY <1>1, <1>2, <1>5, <1>6, <1>7, NoBackupHolds, FlashWrites DEF FlashLabels

\* A task's data at an address of its range.
LEMMA DataHolds ==
  ASSUME NEW t \in Tasks, call[t] \in Flash!Calls, NEW a \in Target(call[t])
  PROVE  Flash!Data(t, a) \in Contents
<1>1. /\ call[t].flashOffset \in Nat /\ call[t].size \in Nat \ {0}
      /\ call[t].flashOffset + call[t].size <= FlashEnd
  BY CallBounds
<1>2. /\ a \in Int /\ call[t].flashOffset <= a
      /\ a < call[t].flashOffset + call[t].size
  BY Parts
<1>3. SUFFICES a - call[t].flashOffset \in Addrs
  BY ContentsHold DEF Flash!Data
<1> QED BY <1>1, <1>2, EndInNat DEF Addrs, Flash!Addrs, FlashEnd

LEMMA FlashWriteData ==
  ASSUME FlashInv, NEW t \in Tasks, Flash!WriteData(t)
  PROVE  FlashInv'
<1> DEFINE new == [a \in Addrs |-> Flash!Data(t, a)]
<1>1. /\ flash_pc[t] = "writeData" /\ Live(t) /\ ~ended[t] /\ UNCHANGED calls
  BY DEF Flash!WriteData, Flash!At, Live
<1>2. Flash!WriteFlash(t, Target(call[t]), new, Flash!NoBackup, "done")
  BY DEF Flash!WriteData, Target, Addrs
<1>3. call[t] \in Flash!Calls
  BY <1>1, FlashKnown
<1>4. \A a \in Target(call[t]) :
        /\ a \in Area(call[t]) /\ a \in Addrs
        /\ new[a] = Flash!Data(t, a) /\ new[a] \in Contents
  BY <1>3, Parts, DataHolds
<1>a. \A a \in Target(call[t]) : a \notin Head(call[t]) \cup Tail(call[t])
  <2> SUFFICES ASSUME NEW a \in Target(call[t]),
                      a \in Head(call[t]) \cup Tail(call[t])
               PROVE  FALSE
    OBVIOUS
  <2>1. /\ a \in Int /\ call[t].flashOffset <= a
        /\ a < call[t].flashOffset + call[t].size
    BY <1>3, Parts
  <2>2. a < call[t].flashOffset \/ call[t].flashOffset + call[t].size < a
    BY <1>3, Parts
  <2>3. call[t].flashOffset \in Nat /\ call[t].size \in Nat
    BY <1>3, CallBounds
  <2> QED BY <2>1, <2>2, <2>3
<1> HIDE DEF new
<1>5. ASSUME Flash!GoTo(t, "done"), UNCHANGED <<call, before, shared, ended>>,
             flash' = [a \in Addrs |-> IF a \in Target(call[t])
                                         THEN Flash!Put(flash[a], new[a])
                                         ELSE flash[a]]
      PROVE  FlashCore(t)'
  <2>1. /\ flash_pc'[t] = "done" /\ call'[t] = call[t]
        /\ before'[t] = before[t] /\ shared'[t] = shared[t]
    BY <1>5, FlashWent
  <2>2. call[t].doErase => Tail(call[t]) \subseteq Addrs
    BY <1>1, FlashKnown
  <2>3. FlashCall(t)'
    BY <1>3, <2>1, <2>2 DEF FlashCall
  <2>4. ~shared[t] => \A a \in Addrs : a \in Area(call[t]) =>
          flash[a] = IF /\ call[t].doErase
                        /\ a \notin Head(call[t]) \cup Tail(call[t])
                       THEN Flash!Erased ELSE before[t][a]
    BY <1>1, FlashKnown DEF Intact, Cleared
  <2>6. \A a : Flash!Data(t, a)' = Flash!Data(t, a)
    BY <1>5 DEF Flash!Data
  <2>7. \A a \in Addrs : a \in Target(call[t]) =>
          flash'[a] = Flash!Put(flash[a], Flash!Data(t, a))
    BY <1>4, <1>5
  <2>8. \A a \in Addrs : a \notin Target(call[t]) => flash'[a] = flash[a]
    BY <1>5
  <2>9. SUFFICES ASSUME ~shared[t], NEW a \in Addrs, a \in Area(call[t])
                 PROVE  /\ Intact("done", call[t], a) =>
                             flash'[a] = before[t][a]
                        /\ Cleared("done", call[t], a) =>
                             flash'[a] = Flash!Erased
                        /\ Written("done", call[t], a) =>
                             flash'[a] = IF call[t].doErase
                                           THEN Flash!Data(t, a)
                                           ELSE Flash!Put(before[t][a],
                                                          Flash!Data(t, a))
    BY <2>1, <2>3, <2>6 DEF FlashCore, FlashFree, FlashStage
  <2>10. CASE a \in Target(call[t])
    BY <2>4, <1>a, <2>7, <2>9, <2>10, PutErased DEF Intact, Cleared, Written
  <2>11. CASE a \notin Target(call[t])
    BY <2>4, <2>8, <2>9, <2>11 DEF Intact, Cleared, Written
  <2> QED BY <2>10, <2>11
<1>6. ASSUME call[t].doErase, ~shared[t], NEW a \in Target(call[t])
      PROVE  Accounted(t, flash_pc[t], call[t], before[t][a],
                       Flash!Put(flash[a], new[a]), a)
  <2>1. flash[a] = Flash!Erased
    BY <1>1, <1>4, <1>6, <1>a, FlashKnown DEF Cleared
  <2>2. new[a] = <<t, a - call[t].flashOffset>>
    BY <1>4 DEF Flash!Data
  <2> QED BY <1>1, <2>1, <2>2, PutErased DEF Accounted
<1> QED
  BY <1>1, <1>2, <1>4, <1>5, <1>6, NoBackupHolds, FlashWrites DEF FlashLabels

\* What Rivals says of a task.
LEMMA RivalsApart ==
  ASSUME NEW t \in Tasks, NEW u \in Tasks \ {t}, flash_pc[u] # "idle", NEW A,
         u \notin Flash!Rivals(t, A)
  PROVE  Area(call[u]) \cap A = {}
  BY DEF Flash!Rivals, Flash!At, Area

LEMMA FlashBegin ==
  ASSUME FlashInv, NEW t \in Tasks, Flash!Begin(t)
  PROVE  FlashInv'
<1>1. PICK c \in Flash!Calls :
        /\ shared' = [u \in Tasks |->
             IF u = t THEN Flash!Rivals(t, Area(c)) # {}
                      ELSE shared[u] \/ u \in Flash!Rivals(t, Area(c))]
        /\ call' = [call EXCEPT ![t] = c]
        /\ Flash!GoTo(t, IF c.doErase THEN "readHead" ELSE "writeData")
  BY DEF Flash!Begin, Area
<1>b. before' = [u \in Tasks |-> IF shared'[u] THEN Flash!Forgotten
                                 ELSE IF u = t THEN flash ELSE before[u]]
  BY DEF Flash!Begin
<1>2. /\ flash_pc[t] = "idle" /\ ~ended[t] /\ calls[t] > 0
      /\ calls' = [calls EXCEPT ![t] = @ - 1]
      /\ UNCHANGED <<flash, backup, ended>>
  BY DEF Flash!Begin, Flash!At
<1>3. /\ flash_pc' = [flash_pc EXCEPT ![t] = flash_pc'[t]]
      /\ flash_pc'[t] = IF c.doErase THEN "readHead" ELSE "writeData"
      /\ call'[t] = c /\ backup'[t] = backup[t]
      /\ flash' = flash /\ DOMAIN backup[t] = {}
  BY <1>1, <1>2
     DEF FlashInv, Flash!TypeOK, Flash!GoTo, FlashTask, FlashCore, FlashFree
<1>c. ~shared'[t] => before'[t] = flash
  BY <1>b
<1>4. Flash!TypeOK'
  <2> USE DEF FlashInv, Flash!TypeOK
  <2>1. /\ flash' \in [Flash!Addrs -> Flash!Contents]
        /\ call' \in [Tasks -> Flash!Calls \cup {Flash!NoCall}]
    BY <1>1, <1>2
  <2>6. before' \in [Tasks -> [Flash!Addrs -> Flash!Contents]]
    BY <1>b, ForgottenHolds DEF Addrs, Contents
  <2>7. ended' \in [Tasks -> BOOLEAN]
    BY <1>2
  <2>2. calls' \in [Tasks -> Nat]
    BY <1>2
  <2>3. shared' \in [Tasks -> BOOLEAN]
    <3>1. \A u \in Tasks : shared[u] \in BOOLEAN
      BY Zenon
    <3> QED BY <1>1, <3>1, Zenon
  <2>4. backup' \in [Tasks -> UNION {[A -> Flash!Contents] :
                                       A \in SUBSET Flash!Addrs}]
    BY <1>2
  <2>5. flash_pc' \in [Tasks -> {"idle", "readHead", "readTail", "erase",
                                 "writeHead", "writeTail", "writeData", "done"}]
    BY <1>1, <1>3 DEF Flash!GoTo
  <2> QED BY <2>1, <2>2, <2>3, <2>4, <2>5, <2>6, <2>7
<1>5. ASSUME NEW u \in Tasks \ {t}
      PROVE  /\ flash_pc'[u] = flash_pc[u] /\ call'[u] = call[u]
             /\ ended'[u] = ended[u] /\ backup'[u] = backup[u]
             /\ ~shared'[u] => before'[u] = before[u]
  BY <1>1, <1>2, <1>3, <1>b, <1>5 DEF FlashInv, Flash!TypeOK
<1>6. \A u \in Tasks \ {t} : shared[u] => shared'[u]
  BY <1>1, Zenon
<1>7. \A u \in Tasks \ {t} : FlashTask(u)'
  BY <1>3, <1>5, <1>6, FlashBystander
<1>8. FlashTask(t)'
  <2>1. flash_pc'[t] # "idle"
    BY <1>3
  <2>2. FlashCall(t)'
    BY <1>1, <1>3 DEF FlashCall
  <2>3. FlashStage(t)'
    BY <1>3, <1>c DEF FlashStage, Intact, Cleared, Written
  <2>4. FlashRest(t)'
    BY <1>3, <1>c DEF FlashRest, Accounted
  <2> QED BY <2>1, <2>2, <2>3, <2>4 DEF FlashTask, FlashCore, FlashFree
<1>9. ~shared'[t] => Flash!Rivals(t, Area(c)) = {}
  BY <1>1, Zenon
<1>10. \A u \in Tasks \ {t} : ~shared'[u] => u \notin Flash!Rivals(t, Area(c))
  BY <1>1, Zenon
<1>11. FlashApart'
  <2> SUFFICES ASSUME NEW v \in Tasks, NEW u \in Tasks, v # u, ~shared'[v],
                      flash_pc'[v] # "idle", flash_pc'[u] # "idle"
               PROVE  Area(call'[v]) \cap Area(call'[u]) = {}
    BY DEF FlashApart, Area, Flash!Area, Flash!startEraseAddr,
           Flash!endEraseAddr, Flash!Range
  <2>1. CASE v = t
    <3>1. u \in Tasks \ {t} /\ flash_pc[u] # "idle" /\ call'[u] = call[u]
      BY <1>5, <2>1
    <3>2. u \notin Flash!Rivals(t, Area(c))
      BY <1>9, <2>1
    <3>3. Area(call[u]) \cap Area(c) = {}
      BY <3>1, <3>2, RivalsApart
    <3> QED BY <1>3, <2>1, <3>1, <3>3
  <2>2. CASE u = t
    <3>1. v \in Tasks \ {t} /\ flash_pc[v] # "idle" /\ call'[v] = call[v]
      BY <1>5, <2>2
    <3>2. v \notin Flash!Rivals(t, Area(c))
      BY <1>10, <3>1
    <3>3. Area(call[v]) \cap Area(c) = {}
      BY <3>1, <3>2, RivalsApart
    <3> QED BY <1>3, <2>2, <3>1, <3>3
  <2>3. CASE v # t /\ u # t
    <3>1. /\ flash_pc[v] # "idle" /\ flash_pc[u] # "idle" /\ ~shared[v]
          /\ call'[v] = call[v] /\ call'[u] = call[u]
      BY <1>5, <1>6, <2>3
    <3> QED BY <3>1 DEF FlashInv, FlashApart
  <2> QED BY <2>1, <2>2, <2>3
<1> QED BY <1>4, <1>7, <1>8, <1>11 DEF FlashInv

LEMMA FlashSectors ==
  ASSUME FlashInv, NEW t \in Tasks, Flash!IoTFlashErase(t)
  PROVE  FlashInv'
<1>1. PICK i \in 0 .. Sectors - 1, j \in 0 .. Sectors - 1 :
        LET A == i * SectorSize .. (j + 1) * SectorSize - 1 IN
        /\ shared' = [u \in Tasks |-> shared[u] \/ u \in Flash!Rivals(t, A)]
        /\ flash' = [a \in Addrs |-> IF a \in A THEN Flash!Erased ELSE flash[a]]
  BY DEF Flash!IoTFlashErase, Addrs
<1> DEFINE A == i * SectorSize .. (j + 1) * SectorSize - 1
<1>2. /\ flash_pc[t] = "idle" /\ calls[t] > 0
      /\ calls' = [calls EXCEPT ![t] = @ - 1]
      /\ UNCHANGED <<flash_pc, call, backup, ended>>
  BY DEF Flash!IoTFlashErase, Flash!At
<1>b. before' = [u \in Tasks |-> IF shared'[u] THEN Flash!Forgotten
                                               ELSE before[u]]
  BY DEF Flash!IoTFlashErase
<1> HIDE DEF A
<1>3. /\ shared' = [u \in Tasks |-> shared[u] \/ u \in Flash!Rivals(t, A)]
      /\ flash' = [a \in Addrs |-> IF a \in A THEN Flash!Erased ELSE flash[a]]
  BY <1>1 DEF A
<1>4. Flash!TypeOK'
  <2>1. flash' \in [Addrs -> Contents]
    BY <1>3, ContentsHold DEF FlashInv, Flash!TypeOK, Addrs, Contents
  <2>2. calls' \in [Tasks -> Nat]
    BY <1>2 DEF FlashInv, Flash!TypeOK
  <2>3. shared' \in [Tasks -> BOOLEAN]
    BY <1>3, Zenon
  <2>4. before' \in [Tasks -> [Addrs -> Contents]]
    BY <1>b, ForgottenHolds DEF FlashInv, Flash!TypeOK, Addrs, Contents
  <2> QED BY <1>2, <2>1, <2>2, <2>3, <2>4
          DEF FlashInv, Flash!TypeOK, Addrs, Contents
<1>5. \A u \in Tasks : shared[u] => shared'[u]
  BY <1>3, Zenon
<1>6. \A u \in Tasks : ~shared'[u] => u \notin Flash!Rivals(t, A)
  BY <1>3, Zenon
<1>7. FlashApart'
  BY <1>2, <1>5, FlashStayApart
<1>8. ASSUME NEW u \in Tasks PROVE FlashTask(u)'
  <2>1. flash_pc[u] # "idle" /\ ~shared'[u] => Area(call[u]) \cap A = {}
    BY <1>2, <1>6, RivalsApart
  <2>2. flash_pc[u] # "idle" /\ ~shared'[u] =>
          \A a \in Addrs : a \in Area(call[u]) => flash'[a] = flash[a]
    BY <1>3, <2>1
  <2>3. ~shared'[u] => before'[u] = before[u]
    BY <1>b
  <2> QED BY <1>2, <1>5, <2>2, <2>3, FlashBystander
<1> QED BY <1>4, <1>7, <1>8 DEF FlashInv

LEMMA FlashPowerLoss == FlashInv /\ Flash!PowerLoss => FlashInv'
<1> SUFFICES ASSUME FlashInv, Flash!PowerLoss PROVE FlashInv'
  OBVIOUS
<1>1. \A t \in Tasks : DOMAIN backup'[t] = {}
  BY DEF Flash!PowerLoss, Flash!NoBackup
<1>2. UNCHANGED <<flash, flash_pc, call, before, shared, calls>>
  BY DEF Flash!PowerLoss
<1>3. \A t \in Tasks : ended'[t] <=> flash_pc[t] # "idle"
  BY Zenon DEF Flash!PowerLoss
<1>4. Flash!TypeOK'
  <2>1. backup' \in [Tasks -> FlashBackups]
    BY NoBackupHolds DEF Flash!PowerLoss
  <2>2. ended' \in [Tasks -> BOOLEAN]
    BY Zenon DEF Flash!PowerLoss
  <2> QED BY <1>2, <2>1, <2>2
          DEF FlashInv, Flash!TypeOK, FlashBackups, Contents, Addrs
<1>5. ASSUME NEW t \in Tasks PROVE FlashTask(t)'
  <2>1. FlashRest(t)'
    BY <1>2 DEF FlashInv, FlashTask, FlashRest
  <2> QED BY <1>1, <1>2, <1>3, <2>1
          DEF FlashTask, FlashCore, FlashFree, FlashCall, FlashStage, Live
<1>6. FlashApart'
  BY <1>2, FlashStayApart
<1> QED BY <1>4, <1>5, <1>6 DEF FlashInv

LEMMA FlashNext == FlashInv /\ [Flash!Next]_flashVars => FlashInv'
<1> SUFFICES ASSUME FlashInv, [Flash!Next]_flashVars PROVE FlashInv'
  OBVIOUS
<1>1. ASSUME NEW t \in Tasks, Flash!Return(t) PROVE FlashInv'
  <2>1. CASE flash_pc[t] # "idle"
    BY <1>1, <2>1, FlashReturns
  <2>2. CASE flash_pc[t] = "idle"
    BY <1>1, <2>2
       DEF FlashInv, FlashTask, FlashCore, FlashFree, Flash!Return
  <2> QED BY <2>1, <2>2
<1>2. CASE UNCHANGED flashVars
  BY <1>2 DEF flashVars, FlashInv, Flash!TypeOK, FlashApart, FlashTask,
              FlashCore, FlashFree, FlashCall, FlashStage, FlashRest, Live,
              Flash!Data
<1>3. ASSUME NEW t \in Tasks, Flash!IoTFlashWrite(t) PROVE FlashInv'
  BY <1>1, <1>3, FlashBegin, FlashReadHead, FlashReadTail, FlashErase,
     FlashWriteHead, FlashWriteTail, FlashWriteData DEF Flash!IoTFlashWrite
<1> QED BY <1>2, <1>3, FlashSectors, FlashPowerLoss DEF Flash!Next

-----------------------------------------------------------------------------
(* The theorems *)

\* log.c 38-68.  A printer sends its own text only, if test and store are one
\* step; the interrupt and the tasks never send each other's.
THEOREM TextIntactHolds == Spec => []TextIntact
<1>1. Init => LogInv
  BY LogInit
<1>2. LogInv /\ [Next]_vars => LogInv'
  BY LogNext
<1>3. LogInv => TextIntact
  BY DEF LogInv, LogIsr, LogGuard, TextIntact, Log!TextIntact
<1> QED BY <1>1, <1>2, <1>3, PTL DEF Spec

\* hal_iot_flash.c 44-99.  At the success of a write, the stage of the
\* invariant says of every address of the area what WriteIsExact says.
THEOREM WriteIsExactHolds == Spec => []WriteIsExact
<1>1. Init => FlashInv
  BY FlashInit
<1>2. FlashInv /\ [Next]_vars => FlashInv'
  BY FlashNext, EachSteps
<1>3. FlashInv => WriteIsExact
  <2> SUFFICES ASSUME FlashInv, NEW t \in Tasks, flash_pc[t] = "done",
                      ~ended[t], ~shared[t]
               PROVE  /\ \A a \in Target(call[t]) :
                           flash[a] = IF call[t].doErase
                                        THEN Flash!Data(t, a)
                                        ELSE Flash!Put(before[t][a],
                                                       Flash!Data(t, a))
                      /\ \A a \in Area(call[t]) \ Target(call[t]) :
                           a # call[t].flashOffset + call[t].size =>
                             flash[a] = before[t][a]
    BY DEF WriteIsExact, Flash!WriteIsExact, Flash!At, Target, Area
  <2>1. call[t] \in Flash!Calls /\ Live(t)
    BY FlashKnown DEF Live
  <2>2. call[t].doErase => Tail(call[t]) \subseteq Addrs
    BY <2>1, FlashKnown
  <2>3. ASSUME NEW a \in Target(call[t])
        PROVE  flash[a] = IF call[t].doErase
                            THEN Flash!Data(t, a)
                            ELSE Flash!Put(before[t][a], Flash!Data(t, a))
    <3>1. a \in Addrs /\ a \in Area(call[t])
      BY <2>1, <2>3, Parts
    <3> QED BY <2>1, <2>3, <3>1 DEF FlashInv, FlashTask, FlashCore,
         FlashStage, Written
  <2>4. ASSUME NEW a \in Area(call[t]) \ Target(call[t]),
               a # call[t].flashOffset + call[t].size
        PROVE  flash[a] = before[t][a]
    <3>1. call[t].doErase
      BY <2>1, <2>4, CallBounds, Parts
    <3>2. a \in Head(call[t]) \/ a \in Tail(call[t])
      BY <2>1, <2>4, Parts
    <3>3. a \in Addrs
      BY <2>1, <2>2, <3>1, <3>2, Parts
    <3> QED BY <2>1, <3>1, <3>2, <3>3, FlashKnown DEF Intact
  <2> QED BY <2>3, <2>4
<1> QED BY <1>1, <1>2, <1>3, PTL DEF Spec

\* hal_iot_flash.c 64-98.  Every stage of a write with doErase accounts for
\* each address of its sectors, and so does whatever a failing driver call or
\* the power leaves of it.
THEOREM OnlyUnrestoredIsLostHolds == Spec => []OnlyUnrestoredIsLost
<1>1. Init => FlashInv
  BY FlashInit
<1>2. FlashInv /\ [Next]_vars => FlashInv'
  BY FlashNext, EachSteps
<1>3. FlashInv => OnlyUnrestoredIsLost
  BY DEF FlashInv, FlashTask, FlashRest, Accounted, OnlyUnrestoredIsLost,
         Flash!OnlyUnrestoredIsLost, Flash!Data, Target, Area, Addrs
<1> QED BY <1>1, <1>2, <1>3, PTL DEF Spec

\* hal_iot_uart.c 202-220.  A read succeeds with a full buffer if and only if
\* the driver was not called again after it had given bytes.
THEOREM FullUnlessFurtherHolds == Spec => []FullUnlessFurther
<1>1. Init => UartInv
  BY UartInit
<1>2. UartInv /\ [Next]_vars => UartInv'
  BY UartNext
<1>3. UartInv => FullUnlessFurther
  BY DEF UartInv, UartRead, FullUnlessFurther, Uart!FullUnlessFurther
<1> QED BY <1>1, <1>2, <1>3, PTL DEF Spec

\* bluetooth_device.c 20-57.  The host is up on an enabled controller only,
\* unless it has refused a disable, and at most once.
THEOREM HostOnControllerHolds == Spec => []HostOnController
<1>1. Init => BleInv
  BY BleInit
<1>2. BleInv /\ [Next]_vars => BleInv'
  BY BleNext
<1>3. BleInv => HostOnController
  BY DEF BleInv, HostOnController, Ble!HostOnController
<1> QED BY <1>1, <1>2, <1>3, PTL DEF Spec
=============================================================================
