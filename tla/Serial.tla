------------------------------- MODULE Serial -------------------------------
(***************************************************************************)
(* The serial port (devices/serial.c) and the input buffer                 *)
(* (devices/input.c), with the interrupt queues they keep their bytes in,  *)
(* the handlers that fill and drain them and the 16550A behind them.       *)
(*                                                                         *)
(* One thread at a time writes (the console lock sees to that) and one     *)
(* reads (read_line in init.c).  Each runs in stretches with interrupts    *)
(* off; where a stretch busy-waits for the port or loops in a handler,     *)
(* BUSY names it and only the port moves meanwhile.  The lock of a queue   *)
(* is free when its one waiter takes it, and lock_release yields.          *)
(***************************************************************************)
EXTENDS Intq

CONSTANTS
  NONE,         \* no byte
  MaxBytes,     \* bytes written, at most
  MaxKeys       \* bytes received and keys pressed, at most

VARIABLES
  mode,         \* UNINIT, POLL or QUEUE
  txq,          \* bytes to be transmitted
  buffer,       \* keys from the keyboard and the serial port
  not_full,     \* does the writer wait in txq?
  not_empty,    \* does the reader wait in buffer?
  ier,          \* interrupt enable register
  thr, rbr,     \* transmitter holding and receiver buffer registers
  busy,         \* the stretch with interrupts off that is under way
  poll,         \* the byte that putc_poll waits to send
  after_poll,   \* the byte that serial_putc queues when it has been sent
  writer,       \* where the writing thread is
  pending,      \* the byte it writes
  reader,       \* where the reading thread is
  written, sent,      \* history: bytes accepted by serial_putc, bytes on the line
  arrived, read       \* history: bytes put in buffer, bytes input_getc returned

ioVars == <<mode, txq, buffer, ier>>
portVars == <<thr, rbr, sent>>
writerVars == <<writer, pending, not_full, written>>
readerVars == <<reader, not_empty, arrived, read>>
busyVars == <<busy, poll, after_poll>>
serialVars == <<ioVars, portVars, writerVars, readerVars, busyVars>>

Idle == busy = "none"

-----------------------------------------------------------------------------
(* Queues and registers.                                                   *)

Ier_NoXmit(t, i) == IF intq_full(i) THEN {} ELSE {"RECV"}

(* The value write_ier computes from the two queues.                        *)
Ier(t, i) ==
  (IF intq_empty(t) THEN {} ELSE {"XMIT"}) \cup
  (IF intq_full(i) THEN {} ELSE {"RECV"})

(* write_ier as serial_notify calls it.                                     *)
serial_notify(i) == ier' = IF mode = "QUEUE" THEN Ier(txq, i) ELSE ier

SignalWriter_Never == UNCHANGED <<writer, not_full>>

(* signal on not_full, after a byte has left txq.                           *)
SignalWriter ==
  /\ not_full' = FALSE
  /\ writer' = IF not_full THEN "ready" ELSE writer

(* signal on not_empty, after a byte has come into buffer.                  *)
SignalReader ==
  /\ not_empty' = FALSE
  /\ reader' = IF not_empty THEN "ready" ELSE reader

-----------------------------------------------------------------------------
(* Writing.                                                                *)

(* serial_putc before serial_init_queue: poll the byte out.                 *)
PutcPolled(b) ==
  /\ Idle /\ mode # "QUEUE" /\ writer = "idle"
  /\ Len(written) < MaxBytes
  /\ mode' = "POLL"
  /\ busy' = "poll"
  /\ poll' = b
  /\ written' = Append(written, b)
  /\ UNCHANGED <<txq, buffer, ier, portVars, writer, pending, not_full, readerVars,
                 after_poll>>

(* intq_putc by a thread with the byte B, up to its return or its wait, and *)
(* the write_ier of serial_putc.                                            *)
intq_putc(b) ==
  /\ IF intq_full(txq)
     THEN /\ not_full' = TRUE
          /\ writer' = "blocked"
          /\ pending' = b
          /\ UNCHANGED <<txq, ier, written>>
     ELSE /\ txq' = Put(txq, b)
          /\ ier' = Ier(txq', buffer)
          /\ writer' = "idle"
          /\ pending' = NONE
          /\ written' = Append(written, b)
          /\ UNCHANGED not_full
  /\ UNCHANGED <<mode, buffer, portVars, readerVars, busyVars>>

Putc(b) ==
  /\ Idle /\ mode = "QUEUE" /\ writer = "idle"
  /\ Len(written) < MaxBytes
  /\ intq_putc(b)

(* Woken: the lock_release that follows wait yields, then the loop's test.  *)
WriterReleases ==
  /\ Idle /\ writer = "ready"
  /\ writer' = "retest"
  /\ UNCHANGED <<ioVars, portVars, pending, not_full, written, readerVars, busyVars>>

PutcAgain == Idle /\ writer = "retest" /\ intq_putc(pending)

PolledByte_New(b) == b

(* The byte that serial_putc, called with B, polls out to make room.        *)
PolledByte(b) == Oldest(txq)

(* serial_putc with interrupts off: it makes room by polling when it must.  *)
PutcIntrOff(b) ==
  /\ Idle /\ mode = "QUEUE"
  /\ Len(written) < MaxBytes
  /\ written' = Append(written, b)
  /\ IF intq_full(txq)
     THEN /\ poll' = PolledByte(b)
          /\ after_poll' = b
          /\ txq' = Got(txq)
          /\ SignalWriter
          /\ busy' = "poll"
          /\ UNCHANGED ier
     ELSE /\ txq' = Put(txq, b)
          /\ ier' = Ier(txq', buffer)
          /\ UNCHANGED <<busyVars, writer, not_full>>
  /\ UNCHANGED <<mode, buffer, portVars, pending, readerVars>>

(* putc_poll when the port has become ready, and the rest of serial_putc.   *)
PollSend ==
  /\ busy = "poll" /\ thr = NONE
  /\ thr' = poll
  /\ poll' = NONE /\ after_poll' = NONE
  /\ busy' = "none"
  /\ IF after_poll = NONE
     THEN UNCHANGED <<txq, ier>>
     ELSE txq' = Put(txq, after_poll) /\ ier' = Ier(txq', buffer)
  /\ UNCHANGED <<mode, buffer, rbr, sent, writerVars, readerVars>>

(* serial_flush by shutdown_power_off or debug_panic, with interrupts off   *)
(* from here on.                                                            *)
serial_flush ==
  /\ Idle
  /\ busy' = "flush"
  /\ UNCHANGED <<ioVars, portVars, writerVars, readerVars, poll, after_poll>>

(* One round of its loop, and its end.                                      *)
FlushByte ==
  /\ busy = "flush" /\ ~ intq_empty(txq) /\ thr = NONE
  /\ thr' = Oldest(txq)
  /\ txq' = Got(txq)
  /\ SignalWriter
  /\ UNCHANGED <<mode, buffer, ier, rbr, sent, pending, written, readerVars, busyVars>>

FlushDone ==
  /\ busy = "flush" /\ intq_empty(txq)
  /\ busy' = "off"
  /\ UNCHANGED <<ioVars, portVars, writerVars, readerVars, poll, after_poll>>

(* The port is set up for polling at the latest here; then it is queued.    *)
serial_init_queue ==
  /\ Idle /\ mode # "QUEUE"
  /\ mode' = "QUEUE"
  /\ ier' = Ier(txq, buffer)
  /\ UNCHANGED <<txq, buffer, portVars, writerVars, readerVars, busyVars>>

-----------------------------------------------------------------------------
(* Reading.                                                                *)

(* intq_getc by a thread, up to its return or its wait, and the             *)
(* serial_notify of input_getc.                                             *)
intq_getc ==
  /\ IF intq_empty(buffer)
     THEN /\ not_empty' = TRUE
          /\ reader' = "blocked"
          /\ UNCHANGED <<buffer, ier, read>>
     ELSE /\ buffer' = Got(buffer)
          /\ serial_notify(buffer')
          /\ reader' = "idle"
          /\ read' = Append(read, Oldest(buffer))
          /\ UNCHANGED not_empty
  /\ UNCHANGED <<mode, txq, portVars, writerVars, arrived, busyVars>>

input_getc == Idle /\ reader = "idle" /\ intq_getc

ReaderReleases ==
  /\ Idle /\ reader = "ready"
  /\ reader' = "retest"
  /\ UNCHANGED <<ioVars, portVars, writerVars, not_empty, arrived, read, busyVars>>

GetcAgain == Idle /\ reader = "retest" /\ intq_getc

(* input_putc, by a handler that has seen that buffer is not full.          *)
input_putc(k) ==
  /\ buffer' = Put(buffer, k)
  /\ serial_notify(buffer')
  /\ SignalReader
  /\ arrived' = Append(arrived, k)
  /\ UNCHANGED read

-----------------------------------------------------------------------------
(* Interrupts.                                                             *)

(* keyboard_interrupt for a key that stands for a character.                *)
keyboard_interrupt(k) ==
  /\ Idle
  /\ Len(arrived) < MaxKeys
  /\ ~ intq_full(buffer)
  /\ input_putc(k)
  /\ UNCHANGED <<mode, txq, portVars, writerVars, busyVars>>

(* The port asks for an interrupt and interrupts are on.                    *)
serial_interrupt ==
  /\ Idle
  /\ \/ "XMIT" \in ier /\ thr = NONE
     \/ "RECV" \in ier /\ rbr # NONE
  /\ busy' = "receive"
  /\ UNCHANGED <<ioVars, portVars, writerVars, readerVars, poll, after_poll>>

(* A round of the handler's first loop, and its end.                        *)
ReceiveByte ==
  /\ busy = "receive" /\ ~ intq_full(buffer) /\ rbr # NONE
  /\ input_putc(rbr)
  /\ rbr' = NONE
  /\ UNCHANGED <<mode, txq, thr, sent, writerVars, busyVars>>

ReceiveDone ==
  /\ busy = "receive" /\ (intq_full(buffer) \/ rbr = NONE)
  /\ busy' = "transmit"
  /\ UNCHANGED <<ioVars, portVars, writerVars, readerVars, poll, after_poll>>

(* A round of its second loop, and its end with the write_ier.              *)
TransmitByte ==
  /\ busy = "transmit" /\ ~ intq_empty(txq) /\ thr = NONE
  /\ thr' = Oldest(txq)
  /\ txq' = Got(txq)
  /\ SignalWriter
  /\ UNCHANGED <<mode, buffer, ier, rbr, sent, pending, written, readerVars, busyVars>>

TransmitDone ==
  /\ busy = "transmit" /\ (intq_empty(txq) \/ thr # NONE)
  /\ ier' = Ier(txq, buffer)
  /\ busy' = "none"
  /\ UNCHANGED <<mode, txq, buffer, portVars, writerVars, readerVars, poll, after_poll>>

-----------------------------------------------------------------------------
(* The 16550A: it sends the byte it holds, and receives one when it has room. *)

PortSends ==
  /\ thr # NONE
  /\ sent' = Append(sent, thr)
  /\ thr' = NONE
  /\ UNCHANGED <<ioVars, rbr, writerVars, readerVars, busyVars>>

PortReceives(b) ==
  /\ rbr = NONE /\ busy # "off"
  /\ Len(arrived) < MaxKeys
  /\ rbr' = b
  /\ UNCHANGED <<ioVars, thr, sent, writerVars, readerVars, busyVars>>

-----------------------------------------------------------------------------
EmptyQueues ==
  LET q == [buf |-> [p \in Pos |-> CHOOSE b \in Byte : TRUE], head |-> 0, tail |-> 0]
  IN  txq = q /\ buffer = q

SerialInit ==
  /\ mode = "UNINIT"
  /\ EmptyQueues
  /\ not_full = FALSE /\ not_empty = FALSE
  /\ ier = {}
  /\ thr = NONE /\ rbr = NONE
  /\ busy = "none"
  /\ poll = NONE /\ after_poll = NONE
  /\ writer = "idle" /\ pending = NONE
  /\ reader = "idle"
  /\ written = <<>> /\ sent = <<>> /\ arrived = <<>> /\ read = <<>>

(* The bytes and the keys are numbered as they come: no driver looks at     *)
(* them, so that distinct ones stand for all.                               *)
Number(accepted, held) == Len(accepted) + (IF held = NONE THEN 1 ELSE 2)
NewByte == Number(written, pending)
NewKey == Number(arrived, rbr)

Writing ==
  \/ PutcPolled(NewByte) \/ Putc(NewByte) \/ PutcIntrOff(NewByte)
  \/ WriterReleases \/ PutcAgain \/ PollSend
  \/ serial_init_queue

Flushing == serial_flush \/ FlushByte \/ FlushDone

Reading == input_getc \/ ReaderReleases \/ GetcAgain

Handling ==
  \/ keyboard_interrupt(NewKey)
  \/ serial_interrupt
  \/ ReceiveByte \/ ReceiveDone \/ TransmitByte \/ TransmitDone

Port == PortSends \/ PortReceives(NewKey)

SerialNext == Writing \/ Flushing \/ Reading \/ Handling \/ Port

(* The port works, interrupts are taken, loops end and threads run.         *)
SerialSpec ==
  /\ SerialInit /\ [][SerialNext]_serialVars
  /\ WF_serialVars(PortSends)
  /\ WF_serialVars(serial_interrupt)
  /\ WF_serialVars(ReceiveByte \/ ReceiveDone \/ TransmitByte \/ TransmitDone)
  /\ WF_serialVars(PollSend)
  /\ WF_serialVars(FlushByte \/ FlushDone)
  /\ WF_serialVars(WriterReleases \/ PutcAgain)
  /\ WF_serialVars(ReaderReleases \/ GetcAgain)

-----------------------------------------------------------------------------
(* Properties.                                                             *)

One(b) == IF b = NONE THEN <<>> ELSE <<b>>

(* Bytes leave in the order in which serial_putc accepted them, and none is *)
(* lost or sent twice, though some go through the queue and the handler,    *)
(* some are polled out ahead of it, and the mode changes in between.  And   *)
(* input_getc returns the keys in the order in which the two handlers put   *)
(* them into the buffer, each once.  When the machine is about to stop,     *)
(* serial_flush has left nothing in the queue.                              *)
BytesInOrder ==
  /\ written = sent \o One(thr) \o One(poll) \o Contents(txq) \o One(after_poll)
  /\ arrived = read \o Contents(buffer)
  /\ busy = "off" => written = sent \o One(thr)

(* The transmit queue and the input buffer are bounded queues, first in,    *)
(* first out, whatever threads and handlers do to them.                     *)
TxFifo == INSTANCE Fifo WITH queue <- Contents(txq), Capacity <- INTQ_BUFSIZE - 1
InputFifo == INSTANCE Fifo WITH queue <- Contents(buffer), Capacity <- INTQ_BUFSIZE - 1

QueuesAreFifos == TxFifo!Spec /\ InputFifo!Spec

(* Every byte that serial_putc accepted reaches the line (MaxBytes are      *)
(* written at most): the transmit interrupt stays enabled while there is    *)
(* one in the queue.                                                        *)
OutputDrains == written # sent ~> written = sent

(* serial_putc returns, and so does input_getc when there is a key: neither *)
(* waits for ever for a signal that went by or for an interrupt that is     *)
(* off, unless the machine stops.                                           *)
CallersReturn ==
  /\ (writer # "idle") ~> (writer = "idle" \/ busy = "off")
  /\ (reader # "idle" /\ ~ intq_empty(buffer)) ~> (reader = "idle" \/ busy = "off")

==============================================================================
