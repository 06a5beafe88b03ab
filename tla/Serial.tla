------------------------------- MODULE Serial -------------------------------
(***************************************************************************)
(* The serial driver (Src/serial/serial.c) over its two circle buffers:    *)
(* tasks read, write and flush, the UART interrupt moves bytes between the *)
(* buffers and the wire.  serial_read and serial_write take two critical   *)
(* sections, one inside the circle buffer and one that switches an         *)
(* interrupt on again; between the two any other task or the interrupt may *)
(* run.  The interrupt cannot be preempted by a task, so its routines are  *)
(* one action each.  Both functions claim to be reentrant: any task may    *)
(* call any of them at any time.                                           *)
(*                                                                         *)
(* Only the number of bytes in a buffer matters here; CircleBuffer models  *)
(* their order.  The port is open: serial_open has run.                    *)
(***************************************************************************)
EXTENDS Cursors, FiniteSets

CONSTANTS
  Tasks,           \* tasks that use the handle
  RxSize, TxSize,  \* capacities of the two circle buffers
  Limit            \* bound: bytes a buffer takes in total

ASSUME SerialAssumption ==
  /\ RxSize \in 1 .. Modulus - 1 /\ TxSize \in 1 .. Modulus - 1
  /\ Limit \in Nat

VARIABLES
  recv, send,      \* cursors of s->recv and s->send
  rxne_it_enable,  \* the receive interrupt is enabled, flag and hardware
  txe_it_enable,   \* the same of the transmit interrupt
  pc,              \* what a task is in the middle of
  received, queued \* history: bytes the two buffers took, up to Limit

vars == <<recv, send, rxne_it_enable, txe_it_enable, pc, received, queued>>

Idle == "idle"
AfterBufferRead == "serial_read"
AfterBufferWrite == "serial_write"

Init ==
  /\ recv = EmptyCursors /\ send = EmptyCursors
  /\ rxne_it_enable = TRUE /\ txe_it_enable = FALSE
  /\ pc = [t \in Tasks |-> Idle]
  /\ received = 0 /\ queued = 0

(***************************************************************************)
(* serial_read: take the bytes, then, if there were any, make sure the     *)
(* receive interrupt is on.                                                *)
(***************************************************************************)
ReadBuffer(t) ==
  /\ pc[t] = Idle
  /\ \E n \in 1 .. RxSize :
       /\ recv' = AfterRead(recv, n)
       /\ pc' = IF ReadCount(recv, n) > 0 THEN [pc EXCEPT ![t] = AfterBufferRead] ELSE pc
  /\ UNCHANGED <<send, rxne_it_enable, txe_it_enable, received, queued>>

EnableReceive(t) ==
  /\ pc[t] = AfterBufferRead
  /\ pc' = [pc EXCEPT ![t] = Idle]
  /\ rxne_it_enable' = TRUE
  /\ UNCHANGED <<recv, send, txe_it_enable, received, queued>>

(***************************************************************************)
(* serial_write: put the bytes, then, if they fitted, make sure the        *)
(* transmit interrupt is on.                                               *)
(***************************************************************************)
WriteBuffer(t) ==
  /\ pc[t] = Idle
  /\ \E n \in 1 .. TxSize :
       /\ queued + n <= Limit
       /\ send' = AfterWrite(send, n, TxSize)
       /\ queued' = queued + WriteCount(send, n, TxSize)
       /\ pc' = IF WriteCount(send, n, TxSize) > 0
                  THEN [pc EXCEPT ![t] = AfterBufferWrite] ELSE pc
  /\ UNCHANGED <<recv, rxne_it_enable, txe_it_enable, received>>

EnableTransmitIfReading(t) ==  \* mutant: the flag of the other interrupt is tested
  /\ pc[t] = AfterBufferWrite
  /\ pc' = [pc EXCEPT ![t] = Idle]
  /\ txe_it_enable' = (txe_it_enable \/ ~rxne_it_enable)
  /\ UNCHANGED <<recv, send, rxne_it_enable, received, queued>>
EnableTransmit(t) ==
  /\ pc[t] = AfterBufferWrite
  /\ pc' = [pc EXCEPT ![t] = Idle]
  /\ txe_it_enable' = TRUE
  /\ UNCHANGED <<recv, send, rxne_it_enable, received, queued>>

\* serial_flush empties both buffers in one critical section.
FlushReceiveOff(t) ==  \* mutant: the receive interrupt stays as it is
  /\ pc[t] = Idle
  /\ txe_it_enable' = FALSE /\ rxne_it_enable' = rxne_it_enable
  /\ send' = AfterFlush(send) /\ recv' = AfterFlush(recv)
  /\ UNCHANGED <<pc, received, queued>>
Flush(t) ==
  /\ pc[t] = Idle
  /\ txe_it_enable' = FALSE /\ rxne_it_enable' = TRUE
  /\ send' = AfterFlush(send) /\ recv' = AfterFlush(recv)
  /\ UNCHANGED <<pc, received, queued>>

(***************************************************************************)
(* The interrupt.  A received byte that finds no room is dropped and the   *)
(* receive interrupt is switched off; the transmit interrupt is switched   *)
(* off when it finds nothing to send.                                      *)
(***************************************************************************)
IsrReceive ==
  /\ rxne_it_enable
  /\ received < Limit
  /\ recv' = AfterWrite(recv, 1, RxSize)
  /\ received' = received + WriteCount(recv, 1, RxSize)
  /\ rxne_it_enable' = (WriteCount(recv, 1, RxSize) > 0)
  /\ UNCHANGED <<send, txe_it_enable, pc, queued>>

IsrTransmitOneByte ==  \* mutant: switched off after every byte
  /\ txe_it_enable
  /\ send' = AfterRead(send, 1)
  /\ txe_it_enable' = FALSE
  /\ UNCHANGED <<recv, rxne_it_enable, pc, received, queued>>
IsrTransmit ==
  /\ txe_it_enable
  /\ send' = AfterRead(send, 1)
  /\ txe_it_enable' = (ReadCount(send, 1) > 0)
  /\ UNCHANGED <<recv, rxne_it_enable, pc, received, queued>>

Enable(t) == EnableReceive(t) \/ EnableTransmit(t)
Task(t) == ReadBuffer(t) \/ WriteBuffer(t) \/ Flush(t) \/ Enable(t)
Next == (\E t \in Tasks : Task(t)) \/ IsrReceive \/ IsrTransmit

Spec == Init /\ [][Next]_vars

(***************************************************************************)
(* A task that took a critical section goes on to the next one, and an     *)
(* enabled transmit interrupt fires when the wire is free.  Nothing makes  *)
(* a task call, or a byte arrive.                                          *)
(***************************************************************************)
FairSpec == Spec /\ WF_vars(IsrTransmit) /\ \A t \in Tasks : WF_vars(Enable(t))

-----------------------------------------------------------------------------
TypeOK ==
  /\ recv \in Cursors /\ send \in Cursors
  /\ rxne_it_enable \in BOOLEAN /\ txe_it_enable \in BOOLEAN
  /\ pc \in [Tasks -> {Idle, AfterBufferRead, AfterBufferWrite}]
  /\ received \in 0 .. Limit /\ queued \in 0 .. Limit

\* Neither buffer ever holds more than its capacity.
NoOverrun == Used(recv) <= RxSize /\ Used(send) <= TxSize

\* While the receive interrupt is off there is something to read, or a task is
\* about to switch it on: a reader that waits for bytes can never wait for an
\* interrupt nobody will enable.
ReceiverAwake ==
  rxne_it_enable \/ Used(recv) > 0 \/ \E t \in Tasks : pc[t] = AfterBufferRead

\* While the transmit interrupt is off there is nothing to send, or a task is
\* about to switch it on.
TransmitterAwake ==
  txe_it_enable \/ Used(send) = 0 \/ \E t \in Tasks : pc[t] = AfterBufferWrite

\* Whatever was written to the handle leaves the send buffer (serial_complete
\* waits for that).
SendDrains == []<>(Used(send) = 0)
=============================================================================
