----------------------------- MODULE VcpProofs ------------------------------
(***************************************************************************)
(* The task that uses the serial port never sleeps through its wake-ups,   *)
(* and an undisturbed put returns when its string has been sent.           *)
(***************************************************************************)
EXTENDS Vcp, TLAPS

Busy == tdr \/ shifting \/ tc

(* Where the task may be blocked, and what it relies on before it blocks.  *)
Waits ==
  /\ blocked = "rx" => pc = "rx clear" /\ rx = 0
  /\ blocked = "tx" => pc = "tx clear" /\ Busy
  /\ blocked \in {"none", "rx", "tx"}
  /\ pc = "rx wait" /\ rx # 0 => rxSignal = 1
  /\ pc = "tx wait" => Busy \/ txSignal = 1

(* The transmission of an undisturbed put.                                 *)
Sending ==
  /\ tc => ~tdr /\ ~shifting
  /\ ~early =>
       /\ pc = "insert" => ~Busy /\ txSignal = 0
       /\ pc = "tx wait" /\ txSignal = 1 => Idle /\ ~tc
       /\ pc = "tx clear" /\ blocked = "none" => Idle /\ ~tc
       /\ pc = "sent" => Idle

Inv == TypeOK /\ Waits /\ Sending

LEMMA InitInv == Init => Inv
<1> SUFFICES ASSUME Init
             PROVE  Inv
  OBVIOUS
<1>1. TypeOK
  <2>1. tx \in 0 .. TxSize - 1 /\ rx \in 0 .. RxSize - 1 /\ left \in 0 .. MaxLength
    BY VcpAssumption DEF Init
  <2>2. /\ tdr \in BOOLEAN /\ shifting \in BOOLEAN /\ tc \in BOOLEAN
        /\ rxne \in BOOLEAN /\ ore \in BOOLEAN /\ early \in BOOLEAN
    BY DEF Init
  <2>3. /\ txSignal = 0 /\ rxSignal = 0 /\ blocked = "none"
        /\ pc = "idle" /\ halt = "none"
    BY DEF Init
  <2> QED
    BY <2>1, <2>2, <2>3 DEF TypeOK
<1>2. Waits /\ Sending
  BY DEF Init, Waits, Sending, Busy
<1> QED
  BY <1>1, <1>2 DEF Inv

LEMMA ModRange ==
  ASSUME NEW n \in Nat \ {0}, NEW i \in Nat
  PROVE  i % n \in 0 .. n - 1
  OBVIOUS

LEMMA StepInv == Inv /\ [Next]_vars => Inv'
<1> SUFFICES ASSUME Inv, [Next]_vars
             PROVE  Inv'
  OBVIOUS
<1> USE VcpAssumption DEF Inv, hardware, rings, signals, task
<1>1. CASE Shift
  <2>1. TypeOK'
    <3>1. UNCHANGED <<early, tx, rx, txSignal, rxSignal, blocked, pc, left, halt>>
      BY <1>1 DEF Shift
    <3>2. /\ tdr' \in BOOLEAN /\ shifting' \in BOOLEAN /\ tc' \in BOOLEAN
          /\ rxne' \in BOOLEAN /\ ore' \in BOOLEAN
      BY <1>1 DEF Shift, TypeOK
    <3> QED
      BY <3>1, <3>2 DEF TypeOK
  <2>2. Waits'
    BY <1>1 DEF Shift, TypeOK, Waits, Busy
  <2>3. Sending'
    BY <1>1 DEF Shift, TypeOK, Waits, Sending, Busy, Idle
  <2> QED
    BY <2>1, <2>2, <2>3
<1>2. CASE Shifted
  <2>1. TypeOK'
    <3>1. UNCHANGED <<early, tx, rx, txSignal, rxSignal, blocked, pc, left, halt>>
      BY <1>2 DEF Shifted
    <3>2. /\ tdr' \in BOOLEAN /\ shifting' \in BOOLEAN /\ tc' \in BOOLEAN
          /\ rxne' \in BOOLEAN /\ ore' \in BOOLEAN
      BY <1>2 DEF Shifted, TypeOK
    <3> QED
      BY <3>1, <3>2 DEF TypeOK
  <2>2. Waits'
    BY <1>2 DEF Shifted, TypeOK, Waits, Busy
  <2>3. Sending'
    BY <1>2 DEF Shifted, TypeOK, Waits, Sending, Busy, Idle
  <2> QED
    BY <2>1, <2>2, <2>3
<1>3. CASE Receive
  <2>1. TypeOK'
    <3>1. UNCHANGED <<early, tx, rx, txSignal, rxSignal, blocked, pc, left, halt>>
      BY <1>3 DEF Receive
    <3>2. /\ tdr' \in BOOLEAN /\ shifting' \in BOOLEAN /\ tc' \in BOOLEAN
          /\ rxne' \in BOOLEAN /\ ore' \in BOOLEAN
      BY <1>3 DEF Receive, TypeOK
    <3> QED
      BY <3>1, <3>2 DEF TypeOK
  <2>2. Waits'
    BY <1>3 DEF Receive, TypeOK, Waits, Busy
  <2>3. Sending'
    BY <1>3 DEF Receive, TypeOK, Waits, Sending, Busy, Idle
  <2> QED
    BY <2>1, <2>2, <2>3
<1>4. CASE IRQHandler
  <2>1. TypeOK'
    <3>1. CASE rxne /\ RxFull
      <4>1. UNCHANGED <<tdr, shifting, tc, rxne, ore, early>>
        BY <1>4, <3>1 DEF IRQHandler
      <4>2. /\ UNCHANGED <<tx, rx, txSignal, rxSignal, blocked, left, pc>>
            /\ halt' = "rx"
        BY <1>4, <3>1 DEF IRQHandler
      <4>3. /\ tdr' \in BOOLEAN /\ shifting' \in BOOLEAN /\ tc' \in BOOLEAN
            /\ rxne' \in BOOLEAN /\ ore' \in BOOLEAN /\ early' \in BOOLEAN
        BY <4>1 DEF TypeOK
      <4> QED
        BY <4>2, <4>3 DEF TypeOK
    <3>2. CASE ~(rxne /\ RxFull)
      <4>1. /\ rx' = IF rxne THEN rx + 1 ELSE rx
            /\ tx' = IF tc /\ ~TxComplete THEN tx - 1 ELSE tx
        BY <1>4, <3>2 DEF IRQHandler
      <4>2. rx' \in 0 .. RxSize - 1
        <5>1. rx \in 0 .. RxSize - 1
          BY DEF TypeOK
        <5>2. CASE rxne
          BY <3>2, <4>1, <5>1, <5>2 DEF RxFull
        <5>3. CASE ~rxne
          BY <4>1, <5>1, <5>3
        <5> QED
          BY <5>2, <5>3
      <4>3. tx' \in 0 .. TxSize - 1
        <5>1. tx \in 0 .. TxSize - 1
          BY DEF TypeOK
        <5>2. CASE tc /\ ~TxComplete
          BY <4>1, <5>1, <5>2 DEF TxComplete
        <5>3. CASE ~(tc /\ ~TxComplete)
          BY <4>1, <5>1, <5>3
        <5> QED
          BY <5>2, <5>3
      <4>4. tdr' \in BOOLEAN
        BY <1>4, <3>2 DEF IRQHandler
      <4>5. /\ UNCHANGED <<shifting, ore, early>>
            /\ rxne' = FALSE /\ tc' = FALSE
        BY <1>4, <3>2 DEF IRQHandler
      <4>6. /\ UNCHANGED <<left, pc, halt>>
            /\ txSignal' \in {0, 1} /\ rxSignal' \in {0, 1}
            /\ blocked' \in {"none", "tx", "rx"}
        BY <1>4, <3>2 DEF IRQHandler, TypeOK
      <4> QED
        BY <4>2, <4>3, <4>4, <4>5, <4>6 DEF TypeOK
    <3> QED
      BY <3>1, <3>2
  <2>2. Waits'
    BY <1>4 DEF IRQHandler, Interrupt, RxFull, TxComplete, RxNotify, TypeOK, Waits, Busy
  <2>3. Sending'
    BY <1>4 DEF IRQHandler, Interrupt, RxFull, TxComplete, RxNotify, TypeOK, Waits, Sending, Busy, Idle
  <2> QED
    BY <2>1, <2>2, <2>3
<1>5. CASE Put
  <2>1. TypeOK'
    BY <1>5 DEF Put, At, Interrupt, TypeOK
  <2>2. Waits'
    BY <1>5 DEF Put, At, Interrupt, TypeOK, Waits, Busy
  <2>3. Sending'
    BY <1>5 DEF Put, At, Interrupt, TypeOK, Waits, Sending, Busy, Idle
  <2> QED
    BY <2>1, <2>2, <2>3
<1>6. CASE InsertByte
  <2>1. TypeOK'
    BY <1>6 DEF InsertByte, At, Interrupt, TypeOK
  <2>2. Waits'
    BY <1>6 DEF InsertByte, At, Interrupt, TypeOK, Waits, Busy
  <2>3. Sending'
    BY <1>6 DEF InsertByte, At, Interrupt, TypeOK, Waits, Sending, Busy, Idle
  <2> QED
    BY <2>1, <2>2, <2>3
<1>7. CASE SendFirst
  <2>1. TypeOK'
    BY <1>7 DEF SendFirst, At, Interrupt, TypeOK
  <2>2. Waits'
    BY <1>7 DEF SendFirst, At, Interrupt, TypeOK, Waits, Busy
  <2>3. Sending'
    <3>1. pc = "insert" /\ pc' = "tx wait" /\ ~tc'
      BY <1>7 DEF SendFirst, At, Interrupt, hardware
    <3>2. early' = early /\ txSignal' = txSignal
      BY <1>7 DEF SendFirst
    <3>3. ~early => txSignal = 0
      BY <3>1 DEF Sending
    <3>4. ~early' => txSignal' # 1
      BY <3>2, <3>3
    <3>5. pc' # "insert" /\ pc' # "tx clear" /\ pc' # "sent"
      BY <3>1
    <3> QED
      BY <3>1, <3>4, <3>5, Zenon DEF Sending
  <2> QED
    BY <2>1, <2>2, <2>3
<1>8. CASE TxWait
  <2>1. TypeOK'
    BY <1>8 DEF TxWait, TxSignalled, At, Interrupt, TypeOK
  <2>2. Waits'
    BY <1>8 DEF TxWait, TxSignalled, At, Interrupt, TypeOK, Waits, Busy
  <2>3. Sending'
    BY <1>8 DEF TxWait, TxSignalled, At, Interrupt, TypeOK, Waits, Sending, Busy, Idle
  <2> QED
    BY <2>1, <2>2, <2>3
<1>9. CASE TxClear
  <2>1. TypeOK'
    BY <1>9 DEF TxClear, At, Interrupt, TypeOK
  <2>2. Waits'
    BY <1>9 DEF TxClear, At, Interrupt, TypeOK, Waits, Busy
  <2>3. Sending'
    BY <1>9 DEF TxClear, At, Interrupt, TypeOK, Waits, Sending, Busy, Idle
  <2> QED
    BY <2>1, <2>2, <2>3
<1>10. CASE PutReturns
  <2>1. TypeOK'
    BY <1>10 DEF PutReturns, At, Interrupt, TypeOK
  <2>2. Waits'
    BY <1>10 DEF PutReturns, At, Interrupt, TypeOK, Waits, Busy
  <2>3. Sending'
    BY <1>10 DEF PutReturns, At, Interrupt, TypeOK, Waits, Sending, Busy, Idle
  <2> QED
    BY <2>1, <2>2, <2>3
<1>11. CASE Get
  <2>1. TypeOK'
    BY <1>11 DEF Get, At, Interrupt, TypeOK
  <2>2. Waits'
    BY <1>11 DEF Get, At, Interrupt, TypeOK, Waits, Busy
  <2>3. Sending'
    BY <1>11 DEF Get, At, Interrupt, TypeOK, Waits, Sending, Busy, Idle
  <2> QED
    BY <2>1, <2>2, <2>3
<1>12. CASE RxWait
  <2>1. TypeOK'
    BY <1>12 DEF RxWait, At, Interrupt, TypeOK
  <2>2. Waits'
    BY <1>12 DEF RxWait, At, Interrupt, TypeOK, Waits, Busy
  <2>3. Sending'
    BY <1>12 DEF RxWait, At, Interrupt, TypeOK, Waits, Sending, Busy, Idle
  <2> QED
    BY <2>1, <2>2, <2>3
<1>13. CASE RxClear
  <2>1. TypeOK'
    BY <1>13 DEF RxClear, At, Interrupt, TypeOK
  <2>2. Waits'
    BY <1>13 DEF RxClear, At, Interrupt, TypeOK, Waits, Busy
  <2>3. Sending'
    BY <1>13 DEF RxClear, At, Interrupt, TypeOK, Waits, Sending, Busy, Idle
  <2> QED
    BY <2>1, <2>2, <2>3
<1>14. CASE RxRemove
  <2>1. TypeOK'
    <3>1. rx' \in 0 .. RxSize - 1
      <4>1. rx + RxSize - 1 \in Nat
        <5>1. rx \in 0 .. RxSize - 1
          BY DEF TypeOK
        <5> QED
          BY <5>1
      <4>2. rx' = (rx + RxSize - 1) % RxSize
        BY <1>14 DEF RxRemove
      <4> QED
        BY <4>1, <4>2, ModRange
    <3>2. UNCHANGED <<tdr, shifting, tc, rxne, ore, early>>
      BY <1>14 DEF RxRemove
    <3>3. /\ UNCHANGED <<tx, txSignal, rxSignal, blocked, left, halt>>
          /\ pc' = "idle"
      BY <1>14 DEF RxRemove
    <3> QED
      BY <3>1, <3>2, <3>3 DEF TypeOK
  <2>2. Waits'
    BY <1>14 DEF RxRemove, At, Interrupt, TypeOK, Waits, Busy
  <2>3. Sending'
    BY <1>14 DEF RxRemove, At, Interrupt, TypeOK, Waits, Sending, Busy, Idle
  <2> QED
    BY <2>1, <2>2, <2>3
<1>15. CASE UNCHANGED vars
  <2>1. TypeOK'
    <3>1. UNCHANGED <<tdr, shifting, tc, rxne, ore, early>>
      BY <1>15 DEF vars
    <3>2. UNCHANGED <<tx, rx, txSignal, rxSignal, blocked, pc, left, halt>>
      BY <1>15 DEF vars
    <3>3. /\ tdr' \in BOOLEAN /\ shifting' \in BOOLEAN /\ tc' \in BOOLEAN
          /\ rxne' \in BOOLEAN /\ ore' \in BOOLEAN /\ early' \in BOOLEAN
      BY <3>1, Zenon DEF TypeOK
    <3> QED
      BY <3>2, <3>3 DEF TypeOK
  <2>2. Waits'
    BY <1>15 DEF vars, TypeOK, Waits, Busy
  <2>3. Sending'
    BY <1>15 DEF vars, TypeOK, Waits, Sending, Busy, Idle
  <2> QED
    BY <2>1, <2>2, <2>3
<1> QED
  BY <1>1, <1>2, <1>3, <1>4, <1>5, <1>6, <1>7, <1>8, <1>9, <1>10, <1>11, <1>12, <1>13, <1>14, <1>15
     DEF Next, Continues

(* The task never sleeps on bytes that have been received.                 *)
THEOREM BytesWake == Spec => []NeverSleepsOnBytes
<1>1. Inv => NeverSleepsOnBytes
  BY DEF Inv, Waits, NeverSleepsOnBytes
<1> QED
  BY InitInv, StepInv, <1>1, PTL DEF Spec

(* It waits for a transmission only while one goes on.                     *)
THEOREM CompletionComes == Spec => []TransmissionGoesOn
<1>1. Inv => TransmissionGoesOn
  BY DEF Inv, Waits, Busy, TransmissionGoesOn
<1> QED
  BY InitInv, StepInv, <1>1, PTL DEF Spec

(* A put that nothing earlier disturbs returns when all has been sent.     *)
THEOREM PutSends == Spec => []SentWhenReturned
<1>1. Inv => SentWhenReturned
  BY DEF Inv, Sending, SentWhenReturned
<1> QED
  BY InitInv, StepInv, <1>1, PTL DEF Spec

=============================================================================
