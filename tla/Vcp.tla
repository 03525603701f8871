-------------------------------- MODULE Vcp ---------------------------------
(***************************************************************************)
(* The serial port, device/vcp.c: the one task that uses it (the shell),   *)
(* its interrupt handler, and the port's transmitter and receiver.         *)
(*                                                                         *)
(* The two ring buffers are the numbers of bytes they hold, counted as     *)
(* ring_buffer.c counts them, modulo the size: see RingBuffer for what     *)
(* they hold.  The handler is one step and runs before the task's next     *)
(* one.  The task's steps are its services and its accesses to what it     *)
(* shares with the handler.  The mutex around the data register has one    *)
(* user and never blocks (MutexProofs).                                    *)
(***************************************************************************)
EXTENDS Integers

CONSTANTS
  TxSize,      \* size of serial_tx_buffer
  RxSize,      \* size of serial_rx_buffer
  MaxLength,   \* bound: the length of a string put
  Receiving    \* bytes are received

ASSUME VcpAssumption ==
  /\ TxSize \in Nat \ {0}
  /\ RxSize \in Nat \ {0}
  /\ MaxLength \in Nat
  /\ Receiving \in BOOLEAN

VARIABLES
  tdr,        \* the transmit data register holds a byte
  shifting,   \* the transmitter is sending one
  tc,         \* USART_ISR_TC, the transmission is complete
  rxne,       \* USART_ISR_RXNE, the receive data register holds a byte
  ore,        \* USART_ISR_ORE, a byte was received before the last was read
  tx,         \* bytes in serial_tx_buffer
  rx,         \* bytes in serial_rx_buffer
  txSignal,   \* vcp_tx_complete.signal
  rxSignal,   \* vcp_rx_complete.signal
  blocked,    \* the event the task is waiting for
  pc,         \* where the task is
  left,       \* bytes it has still to insert into serial_tx_buffer
  early,      \* the call began while an earlier string was being sent, or
              \* with its completion signalled
  halt        \* the ring buffer whose assertion failed, or "none"

hardware == <<tdr, shifting, tc, rxne, ore>>
rings    == <<tx, rx>>
signals  == <<txSignal, rxSignal>>
task     == <<blocked, pc, left, early>>
vars     == <<hardware, rings, signals, task, halt>>

(***************************************************************************)
(* serialInit enables the interrupts.  Transmission is complete when a     *)
(* port is reset, and may be so still.                                     *)
(***************************************************************************)
Init ==
  /\ tdr = FALSE /\ shifting = FALSE /\ tc \in BOOLEAN
  /\ rxne = FALSE /\ ore = FALSE
  /\ tx = 0 /\ rx = 0
  /\ txSignal = 0 /\ rxSignal = 0
  /\ blocked = "none" /\ pc = "idle" /\ left = 0 /\ early = FALSE
  /\ halt = "none"

-----------------------------------------------------------------------------
(* The port.                                                               *)

Shift ==
  /\ tdr /\ ~shifting
  /\ tdr' = FALSE /\ shifting' = TRUE
  /\ UNCHANGED <<tc, rxne, ore, rings, signals, task, halt>>

Shifted ==
  /\ shifting
  /\ shifting' = FALSE
  /\ tc' = (tc \/ ~tdr)
  /\ UNCHANGED <<tdr, rxne, ore, rings, signals, task, halt>>

Receive ==
  /\ Receiving
  /\ rxne' = TRUE
  /\ ore' = (ore \/ rxne)
  /\ UNCHANGED <<tdr, shifting, tc, rings, signals, task, halt>>

-----------------------------------------------------------------------------
(***************************************************************************)
(* VCP_IRQHandler.  The overrun flag raises the same interrupt, and the    *)
(* handler does not clear it.                                              *)
(***************************************************************************)
Interrupt == rxne \/ tc \/ ore

TxCompleteAlways == TRUE                                         \* mutant
RxNotifyNever    == FALSE                                        \* mutant

RxFull     == rx = RxSize - 1    \* Ringbuffer.full(&serial_rx_buffer.rb)
TxComplete == tx = 0             \* notify, rather than send the next byte
RxNotify   == TRUE               \* event_notify_irq(&vcp_rx_complete)

IRQHandler ==
  /\ halt = "none"
  /\ Interrupt
  /\ IF rxne /\ RxFull
       THEN halt' = "rx" /\ UNCHANGED <<hardware, rings, signals, blocked>>
       ELSE LET rxDone == rxne /\ RxNotify
                txDone == tc /\ TxComplete
            IN  /\ rx' = IF rxne THEN rx + 1 ELSE rx
                /\ rxne' = FALSE /\ tc' = FALSE
                /\ tx' = IF tc /\ ~TxComplete THEN tx - 1 ELSE tx
                /\ tdr' = (tdr \/ (tc /\ ~TxComplete))
                /\ rxSignal' = IF rxDone THEN 1 ELSE rxSignal
                /\ txSignal' = IF txDone THEN 1 ELSE txSignal
                /\ blocked' = IF \/ rxDone /\ blocked = "rx"
                                 \/ txDone /\ blocked = "tx"
                                THEN "none" ELSE blocked
                /\ UNCHANGED <<shifting, ore, halt>>
  /\ UNCHANGED <<pc, left, early>>

-----------------------------------------------------------------------------
At(place) == halt = "none" /\ ~Interrupt /\ blocked = "none" /\ pc = place

Idle == ~tdr /\ ~shifting /\ tx = 0

(***************************************************************************)
(* vcp_tx_string, and vcp_tx_byte as a string of one: all but the first    *)
(* byte into the ring buffer, the first into the data register.            *)
(***************************************************************************)
Put ==
  /\ At("idle")
  /\ \E length \in 0 .. MaxLength :
       left' = IF length = 0 THEN 0 ELSE length - 1
  /\ early' = (~Idle \/ txSignal = 1)
  /\ pc' = "insert"
  /\ UNCHANGED <<hardware, rings, signals, blocked, halt>>

InsertByte ==
  /\ At("insert")
  /\ left > 0
  /\ IF tx = TxSize - 1
       THEN halt' = "tx" /\ UNCHANGED <<tx, left>>
       ELSE tx' = tx + 1 /\ left' = left - 1 /\ UNCHANGED halt
  /\ UNCHANGED <<hardware, rx, signals, blocked, pc, early>>

SendFirst ==
  /\ At("insert")
  /\ left = 0
  /\ tdr' = TRUE
  /\ pc' = "tx wait"
  /\ UNCHANGED <<shifting, tc, rxne, ore, rings, signals, blocked, left, early,
                 halt>>

TxSignalIgnored == FALSE                                         \* mutant
TxSignalled     == txSignal = 1

(* event_wait(&vcp_tx_complete): the service, then the signal is cleared.  *)
TxWait ==
  /\ At("tx wait")
  /\ blocked' = IF TxSignalled THEN "none" ELSE "tx"
  /\ pc' = "tx clear"
  /\ UNCHANGED <<hardware, rings, signals, left, early, halt>>

TxClear ==
  /\ At("tx clear")
  /\ txSignal' = 0
  /\ pc' = "sent"
  /\ UNCHANGED <<hardware, rings, rxSignal, blocked, left, early, halt>>

PutReturns ==
  /\ At("sent")
  /\ pc' = "idle"
  /\ early' = FALSE
  /\ UNCHANGED <<hardware, rings, signals, blocked, left, halt>>

(* vcp_rx_byte: wait if the ring buffer is empty, then remove from it.     *)
Get ==
  /\ At("idle")
  /\ pc' = IF rx = 0 THEN "rx wait" ELSE "rx remove"
  /\ UNCHANGED <<hardware, rings, signals, blocked, left, early, halt>>

RxWait ==
  /\ At("rx wait")
  /\ blocked' = IF rxSignal = 1 THEN "none" ELSE "rx"
  /\ pc' = "rx clear"
  /\ UNCHANGED <<hardware, rings, signals, left, early, halt>>

RxClear ==
  /\ At("rx clear")
  /\ rxSignal' = 0
  /\ pc' = "rx remove"
  /\ UNCHANGED <<hardware, rings, txSignal, blocked, left, early, halt>>

RxRemove ==
  /\ At("rx remove")
  /\ rx' = (rx + RxSize - 1) % RxSize
  /\ pc' = "idle"
  /\ UNCHANGED <<hardware, tx, signals, blocked, left, early, halt>>

Continues ==
  \/ InsertByte \/ SendFirst \/ TxWait \/ TxClear \/ PutReturns
  \/ RxWait \/ RxClear \/ RxRemove

Next ==
  \/ Shift \/ Shifted \/ Receive
  \/ IRQHandler
  \/ Put \/ Get \/ Continues

Spec == Init /\ [][Next]_vars

(***************************************************************************)
(* Fairness: the transmitter sends, its interrupt is taken, and the task   *)
(* goes on with its call between interrupts.  Nothing is ever received     *)
(* unless somebody types.                                                  *)
(***************************************************************************)
FairSpec ==
  /\ Spec
  /\ WF_vars(Shift) /\ WF_vars(Shifted) /\ WF_vars(IRQHandler)
  /\ SF_vars(Continues)

-----------------------------------------------------------------------------
(* Properties.                                                             *)

TypeOK ==
  /\ tdr \in BOOLEAN /\ shifting \in BOOLEAN /\ tc \in BOOLEAN
  /\ rxne \in BOOLEAN /\ ore \in BOOLEAN
  /\ early \in BOOLEAN
  /\ tx \in 0 .. TxSize - 1
  /\ rx \in 0 .. RxSize - 1
  /\ txSignal \in {0, 1} /\ rxSignal \in {0, 1}
  /\ blocked \in {"none", "tx", "rx"}
  /\ pc \in {"idle", "insert", "tx wait", "tx clear", "sent",
             "rx wait", "rx clear", "rx remove"}
  /\ left \in 0 .. MaxLength
  /\ halt \in {"none", "tx", "rx"}

(***************************************************************************)
(* The task never sleeps on received bytes, although one may arrive        *)
(* between its test of the ring buffer and its wait (vcp.c:115-116).       *)
(***************************************************************************)
NeverSleepsOnBytes == blocked = "rx" => rx = 0

(***************************************************************************)
(* The task waits for the end of a transmission only while one goes on, so *)
(* that an interrupt will come that wakes it or sends the next byte.       *)
(***************************************************************************)
TransmissionGoesOn == blocked = "tx" => tdr \/ shifting \/ tc

(***************************************************************************)
(* A call that finds the port idle and no completion signalled returns     *)
(* when all of its string has been sent (vcp.c:144).                       *)
(***************************************************************************)
SentWhenReturned == pc = "sent" /\ ~early => Idle

(***************************************************************************)
(* A put returns, unless its string is too long for the ring buffer or an  *)
(* overrun, which nothing clears, takes the processor for good.            *)
(***************************************************************************)
PutsReturn == (pc = "insert") ~> (pc = "sent" \/ halt # "none" \/ ore)

-----------------------------------------------------------------------------
(* What the code's comments and assertions say, and the code does not do.  *)

(* "the entire string will be sent from the ringbuffer before the event    *)
(* returns" (vcp.c:144-145).                                               *)
StringSent == pc = "sent" => Idle

(* A removal is to "Check First" that there is a byte (ring_buffer.c:112). *)
CheckedFirst == pc = "rx remove" => rx > 0

(* The "Ring Buffer is Full" assertion (ring_buffer.c:87) of the handler.  *)
ReceiverKeepsUp == halt # "rx"

(* The same assertion for a string of os_puts_vcp.                         *)
StringFits == halt # "tx"

=============================================================================
