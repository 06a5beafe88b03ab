---------------------------- MODULE CircleBuffer ----------------------------
(***************************************************************************)
(* One circle buffer with its contents.  Every operation holds its         *)
(* critical section from the first to the last access of the cursors, so   *)
(* each is one action.  Under the refinement mapping below it implements   *)
(* ByteFifo, also when the counters wrap.                                  *)
(***************************************************************************)
EXTENDS Cursors, Sequences

CONSTANTS
  Bytes, Size, MaxChunk  \* as in ByteFifo; Size is a power of two

ASSUME SizeAssumption ==
  /\ Size \in Nat \ {0} /\ MaxChunk \in Nat
  /\ Size < Modulus /\ Modulus % Size = 0

VARIABLES
  cb,      \* the cursors
  buffer,  \* the Size bytes of storage
  ret      \* the last call: its size and what it returned

vars == <<cb, buffer, ret>>

Slot(i) == i % Size  \* i & mask
Chunks == UNION {[1 .. n -> Bytes] : n \in 1 .. MaxChunk}

Init ==
  /\ cb = EmptyCursors /\ ret = [op |-> "none"]
  /\ buffer \in [0 .. Size - 1 -> Bytes]  \* malloc'ed, never cleared

Read(n) ==
  LET cnt == ReadCount(cb, n)
  IN  /\ ret' = [op |-> "read", size |-> n,
                data |-> [k \in 1 .. cnt |-> buffer[Slot(cb.read + k - 1)]]]
      /\ cb' = AfterRead(cb, n)
      /\ UNCHANGED buffer

Write(src) ==
  LET cnt == WriteCount(cb, Len(src), Size)
  IN  /\ buffer' = [i \in DOMAIN buffer |->
           IF \E k \in 1 .. cnt : Slot(cb.write + k - 1) = i
             THEN src[CHOOSE k \in 1 .. cnt : Slot(cb.write + k - 1) = i]
             ELSE buffer[i]]
      /\ cb' = AfterWrite(cb, Len(src), Size)
      /\ ret' = [op |-> "write", size |-> Len(src), n |-> cnt]

Flush ==
  /\ ret' = [op |-> "flush", n |-> Used(cb)]
  /\ cb' = AfterFlush(cb)
  /\ UNCHANGED buffer

Next ==
  \/ \E n \in 1 .. MaxChunk : Read(n)
  \/ \E src \in Chunks : Write(src)
  \/ Flush

Spec == Init /\ [][Next]_vars

-----------------------------------------------------------------------------
Contents == [k \in 1 .. Used(cb) |-> buffer[Slot(cb.read + k - 1)]]

Fifo == INSTANCE ByteFifo WITH fifo <- Contents, written <- cb.write

\* The circle buffer implements the bounded byte queue: no byte is lost,
\* repeated, reordered or overwritten before it was read, and reads find nothing
\* only between a wrap of the write counter and a flush.
ImplementsFifo == Fifo!FifoSpec

\* The buffer never holds more than its capacity: an overrun would overwrite
\* bytes that were not read yet.
NoOverrun == Used(cb) <= Size

TypeOK ==
  /\ cb \in Cursors
  /\ buffer \in [0 .. Size - 1 -> Bytes]

\* Bytes the buffer counts as used can be read.  It does not hold: section 3 of the
\* README has the reason.
UsedIsReadable == ReadCount(cb, Size) = Used(cb)
=============================================================================
