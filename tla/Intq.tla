-------------------------------- MODULE Intq --------------------------------
(***************************************************************************)
(* The circular buffer of devices/intq.c.  The data part of a struct intq  *)
(* is a record; the threads that wait in it belong to the module that      *)
(* declares the queue.                                                     *)
(***************************************************************************)
EXTENDS Integers, Sequences

CONSTANTS INTQ_BUFSIZE, Byte

ASSUME IntqAssumption == INTQ_BUFSIZE \in Nat \ {0, 1}

Pos == 0..INTQ_BUFSIZE - 1

(* The position after POS.                                                  *)
next(pos) == (pos + 1) % INTQ_BUFSIZE

intq_empty(q) == q.head = q.tail

intq_full_Late(q) == FALSE

(* One slot stays free, so that a full queue differs from an empty one.     *)
intq_full(q) == next(q.head) = q.tail

(* The ends of intq_putc and intq_getc, when the queue has room or a byte.  *)
Put(q, b) == [q EXCEPT !.buf[q.head] = b, !.head = next(q.head)]

Oldest(q) == q.buf[q.tail]

Got(q) == [q EXCEPT !.tail = next(q.tail)]

(* The bytes of a queue, the oldest first.                                  *)
Contents(q) ==
  [i \in 1..((q.head - q.tail) % INTQ_BUFSIZE) |->
     q.buf[(q.tail + i - 1) % INTQ_BUFSIZE]]
==============================================================================
