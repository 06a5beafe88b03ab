------------------------------ MODULE ByteFifo ------------------------------
(***************************************************************************)
(* What a circle buffer promises its callers: a bounded queue of bytes.  A *)
(* write puts all of its bytes in or, when they do not fit, none; a read   *)
(* takes the oldest bytes, as many as were asked for or are there; a flush *)
(* throws everything away.  ret holds the size the last call asked for and *)
(* what it returned.                                                       *)
(*                                                                         *)
(* One exception is part of what the code does: the bytes taken in are     *)
(* counted modulo Modulus, and when this count starts again from 0 reads   *)
(* find nothing until a flush has thrown away the bytes from before.       *)
(***************************************************************************)
EXTENDS Integers, Sequences

CONSTANTS
  Bytes,     \* the values of a byte
  Size,      \* capacity in bytes
  MaxChunk,  \* bound: the largest number of bytes in one call
  Modulus    \* the count of bytes starts again here

VARIABLES fifo, written, ret

AtMost(n, m) == IF n < m THEN n ELSE m
Chunks == UNION {[1 .. n -> Bytes] : n \in 1 .. MaxChunk}

FifoInit == fifo = <<>> /\ written = 0 /\ ret = [op |-> "none"]

FifoWrite(src) ==
  LET fits == Len(fifo) + Len(src) <= Size
  IN  /\ fifo' = IF fits THEN fifo \o src ELSE fifo
      /\ written' = IF fits THEN (written + Len(src)) % Modulus ELSE written
      /\ ret' = [op |-> "write", size |-> Len(src), n |-> IF fits THEN Len(src) ELSE 0]

\* All bytes held were written since the count last started from 0.
Readable == Len(fifo) <= written

FifoRead(n) ==
  LET cnt == IF Readable THEN AtMost(n, Len(fifo)) ELSE 0
  IN  /\ fifo' = SubSeq(fifo, cnt + 1, Len(fifo))
      /\ UNCHANGED written
      /\ ret' = [op |-> "read", size |-> n, data |-> SubSeq(fifo, 1, cnt)]

FifoFlush == fifo' = <<>> /\ UNCHANGED written /\ ret' = [op |-> "flush", n |-> Len(fifo)]

FifoNext ==
  \/ \E src \in Chunks : FifoWrite(src)
  \/ \E n \in 1 .. MaxChunk : FifoRead(n)
  \/ FifoFlush

FifoSpec == FifoInit /\ [][FifoNext]_<<fifo, written, ret>>
=============================================================================
