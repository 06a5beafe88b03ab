---------------------------- MODULE SerialProofs ----------------------------
(***************************************************************************)
(* Theorems about Serial, for every number of tasks and every buffer size, *)
(* as long as the write counters have not wrapped, and about the           *)
(* CircleBuffer it uses twice, without that restriction.                   *)
(***************************************************************************)
EXTENDS Serial, SequenceTheorems, TLAPS

\* Fewer bytes than the counters can count pass through a buffer.
NoWrapAssumption == Limit < Modulus

-----------------------------------------------------------------------------
(***************************************************************************)
(* Cursors that have not wrapped: written is the number of bytes the       *)
(* buffer took in total.                                                   *)
(***************************************************************************)
BufferOK(cb, size, written) ==
  /\ cb \in Cursors
  /\ cb.write = written
  /\ cb.read <= cb.write /\ cb.write - cb.read <= size

\* Below the modulus, sizes are plain differences.
LEMMA SmallModulo ==
  ASSUME NEW n \in Nat, n < Modulus
  PROVE  n % Modulus = n
  BY ModulusAssumption

LEMMA UsedIsDifference ==
  ASSUME NEW cb, NEW size, NEW written, BufferOK(cb, size, written)
  PROVE  /\ Used(cb) = cb.write - cb.read
         /\ cb.write \in 0 .. Modulus - 1 /\ cb.read \in 0 .. Modulus - 1
         /\ cb = [read |-> cb.read, write |-> cb.write]
  <1>1. /\ cb.write \in 0 .. Modulus - 1 /\ cb.read \in 0 .. Modulus - 1
        /\ cb = [read |-> cb.read, write |-> cb.write]
    BY DEF BufferOK, Cursors, Cursor
  <1>2. cb.write - cb.read \in Nat /\ cb.write - cb.read < Modulus
    BY <1>1, ModulusAssumption DEF BufferOK
  <1>3. (cb.write - cb.read) % Modulus = cb.write - cb.read
    BY <1>2, SmallModulo
  <1> QED  BY <1>1, <1>3 DEF Used

\* A read takes no more than there is, and something if there is something.
LEMMA ReadOK ==
  ASSUME NEW cb, NEW size \in Nat, NEW written, BufferOK(cb, size, written), NEW n \in Nat \ {0}
  PROVE  /\ BufferOK(AfterRead(cb, n), size, written)
         /\ ReadCount(cb, n) = 0 <=> Used(cb) = 0
         /\ Used(cb) = 0 => Used(AfterRead(cb, n)) = 0
  <1>1. /\ Used(cb) = cb.write - cb.read
        /\ cb.write \in 0 .. Modulus - 1 /\ cb.read \in 0 .. Modulus - 1
        /\ cb = [read |-> cb.read, write |-> cb.write]
    BY UsedIsDifference
  <1>2. ReadCount(cb, n) \in 0 .. cb.write - cb.read /\ (ReadCount(cb, n) = 0 <=> cb.read = cb.write)
    BY <1>1 DEF ReadCount, BufferOK
  <1>3. AfterRead(cb, n) = [read |-> cb.read + ReadCount(cb, n), write |-> cb.write]
    BY <1>1 DEF AfterRead
  <1>4. BufferOK(AfterRead(cb, n), size, written)
    BY <1>1, <1>2, <1>3, ModulusAssumption DEF BufferOK, Cursors, Cursor
  <1>5. Used(AfterRead(cb, n)) = cb.write - (cb.read + ReadCount(cb, n))
    BY <1>3, <1>4, UsedIsDifference
  <1> QED  BY <1>1, <1>2, <1>4, <1>5 DEF BufferOK

\* A write fits, and the buffer holds something afterwards unless it took nothing.
LEMMA WriteOK ==
  ASSUME NoWrapAssumption, NEW cb, NEW size \in Nat, NEW written \in Nat,
         BufferOK(cb, size, written), NEW n \in Nat \ {0}, written + n <= Limit
  PROVE  /\ BufferOK(AfterWrite(cb, n, size), size, written + WriteCount(cb, n, size))
         /\ WriteCount(cb, n, size) \in {0, n}
         /\ WriteCount(cb, n, size) = 0 => AfterWrite(cb, n, size) = cb /\ Used(cb) + n > size
  <1>1. /\ Used(cb) = cb.write - cb.read
        /\ cb.write \in 0 .. Modulus - 1 /\ cb.read \in 0 .. Modulus - 1
        /\ cb = [read |-> cb.read, write |-> cb.write]
    BY UsedIsDifference
  <1>2. /\ WriteCount(cb, n, size) \in {0, n}
        /\ WriteCount(cb, n, size) = n => Used(cb) + n <= size
        /\ WriteCount(cb, n, size) = 0 => Used(cb) + n > size
    BY <1>1 DEF WriteCount, Free
  <1>3. cb.write + WriteCount(cb, n, size) \in Nat
        /\ cb.write + WriteCount(cb, n, size) < Modulus
    BY <1>1, <1>2, ModulusAssumption, SerialAssumption DEF BufferOK, NoWrapAssumption
  <1>4. (cb.write + WriteCount(cb, n, size)) % Modulus = cb.write + WriteCount(cb, n, size)
    BY <1>3, SmallModulo
  <1>5. AfterWrite(cb, n, size) = [read |-> cb.read, write |-> cb.write + WriteCount(cb, n, size)]
    BY <1>1, <1>4 DEF AfterWrite
  <1>6. BufferOK(AfterWrite(cb, n, size), size, written + WriteCount(cb, n, size))
    BY <1>1, <1>2, <1>3, <1>5, ModulusAssumption DEF BufferOK, Cursors, Cursor
  <1> QED  BY <1>1, <1>2, <1>5, <1>6

LEMMA FlushOK ==
  ASSUME NEW cb, NEW size \in Nat, NEW written, BufferOK(cb, size, written)
  PROVE  BufferOK(AfterFlush(cb), size, written) /\ Used(AfterFlush(cb)) = 0
  <1>1. /\ cb.write \in 0 .. Modulus - 1
        /\ AfterFlush(cb) = [read |-> cb.write, write |-> cb.write]
    BY UsedIsDifference DEF AfterFlush
  <1>2. BufferOK(AfterFlush(cb), size, written)
    BY <1>1 DEF BufferOK, Cursors, Cursor
  <1>3. Used(AfterFlush(cb)) = 0
    BY <1>1, <1>2, UsedIsDifference
  <1> QED  BY <1>2, <1>3

-----------------------------------------------------------------------------
(***************************************************************************)
(* The driver.                                                             *)
(***************************************************************************)
SerialInv ==
  /\ TypeOK
  /\ BufferOK(recv, RxSize, received) /\ BufferOK(send, TxSize, queued)
  /\ ReceiverAwake /\ TransmitterAwake

LEMMA SizesOK == RxSize \in Nat \ {0} /\ TxSize \in Nat \ {0} /\ Limit \in Nat
  BY SerialAssumption, ModulusAssumption

LEMMA SerialInit == Init => SerialInv
  <1> SUFFICES ASSUME Init PROVE SerialInv
    OBVIOUS
  <1>1. EmptyCursors \in Cursors /\ EmptyCursors.read = 0 /\ EmptyCursors.write = 0
    BY ModulusAssumption DEF EmptyCursors, Cursors, Cursor
  <1>2. BufferOK(recv, RxSize, received) /\ BufferOK(send, TxSize, queued)
    BY <1>1, SizesOK DEF Init, BufferOK
  <1>3. Used(send) = 0
    BY <1>1, <1>2, UsedIsDifference DEF Init
  <1>4. TypeOK
    <2>1. rxne_it_enable \in BOOLEAN /\ txe_it_enable \in BOOLEAN
      BY DEF Init
    <2> QED  BY <1>1, <2>1, SizesOK DEF Init, TypeOK
  <1> QED  BY <1>2, <1>3, <1>4 DEF SerialInv, ReceiverAwake, TransmitterAwake, Init

LEMMA SerialNext ==
  ASSUME NoWrapAssumption
  PROVE  SerialInv /\ [Next]_vars => SerialInv'
  <1> SUFFICES ASSUME SerialInv, [Next]_vars PROVE SerialInv'
    OBVIOUS
  <1> USE SizesOK DEF SerialInv
  <1>b. received \in Nat /\ queued \in Nat
    BY DEF TypeOK
  <1>1. ASSUME NEW t \in Tasks, ReadBuffer(t) PROVE SerialInv'
    <2>1. PICK n \in 1 .. RxSize :
            /\ recv' = AfterRead(recv, n)
            /\ pc' = IF ReadCount(recv, n) > 0 THEN [pc EXCEPT ![t] = AfterBufferRead] ELSE pc
      BY <1>1 DEF ReadBuffer
    <2>2. UNCHANGED <<send, rxne_it_enable, txe_it_enable, received, queued>> /\ pc[t] = Idle
      BY <1>1 DEF ReadBuffer
    <2>3. /\ BufferOK(recv', RxSize, received') /\ BufferOK(send', TxSize, queued')
          /\ ReadCount(recv, n) = 0 <=> Used(recv) = 0
      BY <2>1, <2>2, ReadOK
    <2>4. TypeOK'
      BY <2>1, <2>2, <2>3 DEF TypeOK, BufferOK
    <2>5. \A u \in Tasks : pc[u] # Idle => pc'[u] = pc[u]
      BY <2>1, <2>2 DEF TypeOK
    <2>6. TransmitterAwake'
      BY <2>2, <2>5 DEF TransmitterAwake, AfterBufferWrite, Idle
    <2>7. ReceiverAwake'
      <3>1. CASE ReadCount(recv, n) > 0
        BY <2>1, <3>1 DEF ReceiverAwake, TypeOK
      <3>2. CASE ~(ReadCount(recv, n) > 0)
        <4>1. ReadCount(recv, n) = 0
          BY <3>2, UsedIsDifference DEF ReadCount, BufferOK
        <4>2. ~(Used(recv) > 0)
          BY <2>3, <4>1
        <4> QED  BY <2>2, <2>5, <4>2 DEF ReceiverAwake, AfterBufferRead, Idle
      <3> QED  BY <3>1, <3>2
    <2> QED  BY <2>3, <2>4, <2>6, <2>7
  <1>2. ASSUME NEW t \in Tasks, EnableReceive(t) PROVE SerialInv'
    BY <1>2 DEF EnableReceive, TypeOK, ReceiverAwake, TransmitterAwake, Idle, AfterBufferRead,
                AfterBufferWrite
  <1>3. ASSUME NEW t \in Tasks, WriteBuffer(t) PROVE SerialInv'
    <2>1. PICK n \in 1 .. TxSize :
            /\ queued + n <= Limit
            /\ send' = AfterWrite(send, n, TxSize)
            /\ queued' = queued + WriteCount(send, n, TxSize)
            /\ pc' = IF WriteCount(send, n, TxSize) > 0
                       THEN [pc EXCEPT ![t] = AfterBufferWrite] ELSE pc
      BY <1>3 DEF WriteBuffer
    <2>2. UNCHANGED <<recv, rxne_it_enable, txe_it_enable, received>> /\ pc[t] = Idle
      BY <1>3 DEF WriteBuffer
    <2>3. /\ BufferOK(recv', RxSize, received') /\ BufferOK(send', TxSize, queued')
          /\ WriteCount(send, n, TxSize) \in {0, n}
          /\ WriteCount(send, n, TxSize) = 0 => send' = send
      BY <1>b, <2>1, <2>2, WriteOK
    <2>4. TypeOK'
      BY <2>1, <2>2, <2>3 DEF TypeOK, BufferOK
    <2>5. \A u \in Tasks : pc[u] # Idle => pc'[u] = pc[u]
      BY <2>1, <2>2 DEF TypeOK
    <2>6. ReceiverAwake'
      BY <2>2, <2>5 DEF ReceiverAwake, AfterBufferRead, Idle
    <2>7. TransmitterAwake'
      <3>1. CASE WriteCount(send, n, TxSize) > 0
        BY <2>1, <3>1 DEF TransmitterAwake, TypeOK
      <3>2. CASE WriteCount(send, n, TxSize) = 0
        BY <2>2, <2>3, <2>5, <3>2 DEF TransmitterAwake, AfterBufferWrite, Idle
      <3> QED  BY <2>3, <3>1, <3>2
    <2> QED  BY <2>3, <2>4, <2>6, <2>7
  <1>4. ASSUME NEW t \in Tasks, EnableTransmit(t) PROVE SerialInv'
    BY <1>4 DEF EnableTransmit, TypeOK, ReceiverAwake, TransmitterAwake, Idle, AfterBufferRead,
                AfterBufferWrite
  <1>5. ASSUME NEW t \in Tasks, Flush(t) PROVE SerialInv'
    <2>1. /\ BufferOK(recv', RxSize, received') /\ BufferOK(send', TxSize, queued')
          /\ Used(send') = 0
      BY <1>5, FlushOK DEF Flush
    <2>2. Used(send)' = 0
      BY <2>1 DEF Used
    <2> QED  BY <1>5, <2>1, <2>2 DEF Flush, TypeOK, BufferOK, ReceiverAwake, TransmitterAwake
  <1>6. CASE IsrReceive
    <2>1. /\ recv' = AfterWrite(recv, 1, RxSize)
          /\ received' = received + WriteCount(recv, 1, RxSize)
          /\ rxne_it_enable' = (WriteCount(recv, 1, RxSize) > 0)
          /\ received + 1 <= Limit
          /\ UNCHANGED <<send, txe_it_enable, pc, queued>>
      BY <1>6, <1>b DEF IsrReceive
    <2>2. /\ BufferOK(recv', RxSize, received') /\ BufferOK(send', TxSize, queued')
          /\ WriteCount(recv, 1, RxSize) \in {0, 1}
          /\ WriteCount(recv, 1, RxSize) = 0 => recv' = recv /\ Used(recv) + 1 > RxSize
      <3>1. 1 \in Nat \ {0}
        OBVIOUS
      <3>2. /\ BufferOK(AfterWrite(recv, 1, RxSize), RxSize, received + WriteCount(recv, 1, RxSize))
            /\ WriteCount(recv, 1, RxSize) \in {0, 1}
            /\ WriteCount(recv, 1, RxSize) = 0
                 => AfterWrite(recv, 1, RxSize) = recv /\ Used(recv) + 1 > RxSize
        BY <1>b, <2>1, <3>1, WriteOK
      <3> QED  BY <2>1, <3>2
    <2>3. Used(recv) \in Int
      BY UsedIsDifference
    <2>4. TypeOK'
      BY <1>b, <2>1, <2>2 DEF TypeOK, BufferOK
    <2>5. ReceiverAwake'
      <3>1. CASE WriteCount(recv, 1, RxSize) = 1
        <4>1. WriteCount(recv, 1, RxSize) > 0
          BY <3>1
        <4> QED  BY <2>1, <4>1 DEF ReceiverAwake
      <3>2. CASE WriteCount(recv, 1, RxSize) = 0
        <4>0. Used(recv)' = Used(recv)
          BY <2>2, <3>2 DEF Used
        <4>1. Used(recv)' > 0
          BY <2>2, <2>3, <3>2, <4>0
        <4> QED  BY <4>1 DEF ReceiverAwake
      <3> QED  BY <2>2, <3>1, <3>2
    <2> QED  BY <2>1, <2>2, <2>4, <2>5 DEF TransmitterAwake
  <1>7. CASE IsrTransmit
    <2>1. /\ send' = AfterRead(send, 1)
          /\ txe_it_enable' = (ReadCount(send, 1) > 0)
          /\ UNCHANGED <<recv, rxne_it_enable, pc, received, queued>>
      BY <1>7 DEF IsrTransmit
    <2>2. /\ BufferOK(recv', RxSize, received') /\ BufferOK(send', TxSize, queued')
          /\ ReadCount(send, 1) = 0 <=> Used(send) = 0
          /\ Used(send) = 0 => Used(send') = 0
      BY <2>1, ReadOK
    <2>3. ReadCount(send, 1) \in Nat
      BY UsedIsDifference DEF ReadCount, BufferOK
    <2>4. TypeOK'
      BY <2>1, <2>2 DEF TypeOK, BufferOK
    <2>5. TransmitterAwake'
      <3>1. CASE ReadCount(send, 1) > 0
        BY <2>1, <3>1 DEF TransmitterAwake
      <3>2. CASE ReadCount(send, 1) = 0
        <4>1. Used(send)' = 0
          BY <2>2, <3>2 DEF Used
        <4> QED  BY <4>1 DEF TransmitterAwake
      <3> QED  BY <2>3, <3>1, <3>2
    <2> QED  BY <2>1, <2>2, <2>4, <2>5 DEF ReceiverAwake
  <1>8. CASE UNCHANGED vars
    BY <1>8 DEF vars, TypeOK, ReceiverAwake, TransmitterAwake
  <1> QED
    BY <1>1, <1>2, <1>3, <1>4, <1>5, <1>6, <1>7, <1>8 DEF Next, Task, Enable

\* Below the wrap of the counters no buffer overruns, and an interrupt is off only
\* while there is nothing for it to do or a task is about to switch it on, for any
\* number of tasks that read, write and flush the handle at any time.
THEOREM SerialSafe ==
  ASSUME NoWrapAssumption
  PROVE  Spec => [](TypeOK /\ NoOverrun /\ ReceiverAwake /\ TransmitterAwake)
  <1>1. SerialInv => TypeOK /\ NoOverrun /\ ReceiverAwake /\ TransmitterAwake
    BY UsedIsDifference DEF SerialInv, NoOverrun, BufferOK
  <1> QED  BY <1>1, SerialInit, SerialNext, PTL DEF Spec

\* The receive interrupt is off only while the receive buffer holds bytes whose reader
\* switches it on again, or a reader is about to: no byte that arrives finds the driver
\* asleep for ever, however the tasks and the interrupt interleave.
THEOREM ReceiverStaysAwake ==
  ASSUME NoWrapAssumption
  PROVE  Spec => []ReceiverAwake
  BY SerialSafe, PTL

-----------------------------------------------------------------------------
(***************************************************************************)
(* One circle buffer with its contents.                                    *)
(***************************************************************************)
CONSTANTS Bytes, Size, MaxChunk
VARIABLES ring, buffer, ret

Buffer == INSTANCE CircleBuffer WITH cb <- ring

\* The instance has its own copies of the operators on cursors.
LEMMA SameCursors ==
  ASSUME NEW c, NEW n
  PROVE  /\ Buffer!Used(c) = Used(c) /\ Buffer!ReadCount(c, n) = ReadCount(c, n)
         /\ Buffer!AfterRead(c, n) = AfterRead(c, n)
         /\ Buffer!WriteCount(c, n, Size) = WriteCount(c, n, Size)
         /\ Buffer!AfterWrite(c, n, Size) = AfterWrite(c, n, Size)
         /\ Buffer!AfterFlush(c) = AfterFlush(c) /\ Buffer!EmptyCursors = EmptyCursors
  BY DEF Buffer!Used, Used, Buffer!ReadCount, ReadCount, Buffer!AfterRead, AfterRead,
         Buffer!Free, Free, Buffer!WriteCount, WriteCount, Buffer!AfterWrite, AfterWrite,
         Buffer!AfterFlush, AfterFlush, Buffer!EmptyCursors, EmptyCursors

LEMMA DivisionRange ==
  ASSUME NEW m \in Nat \ {0}, NEW n \in Nat
  PROVE  /\ n = m * (n \div m) + (n % m)
         /\ n \div m \in Int /\ n % m \in 0 .. m - 1
  OBVIOUS

LEMMA Multiples ==
  ASSUME NEW m \in Nat \ {0}, NEW d \in Int
  PROVE  (d >= 1 => m * d >= m) /\ (d <= 0 => m * d <= 0)
  <1>1. ASSUME d >= 1 PROVE m * d >= m
    BY <1>1
  <1>2. ASSUME d <= 0 PROVE m * d <= 0
    BY <1>2
  <1> QED  BY <1>1, <1>2

LEMMA Distributes ==
  ASSUME NEW m \in Int, NEW a \in Int, NEW b \in Int
  PROVE  m * b - m * a = m * (b - a)
  OBVIOUS

\* Two bytes less than the size apart lie in different slots.
LEMMA SlotsDiffer ==
  ASSUME NEW m \in Nat \ {0}, NEW i \in Nat, NEW w \in Nat, i < w, w - i < m
  PROVE  i % m # w % m
  <1> DEFINE a == i \div m
             b == w \div m
  <1>1. /\ i = m * a + (i % m) /\ w = m * b + (w % m)
        /\ a \in Int /\ b \in Int /\ i % m \in Int /\ w % m \in Int
    BY DivisionRange
  <1> HIDE DEF a, b
  <1>2. SUFFICES ASSUME i % m = w % m PROVE FALSE
    OBVIOUS
  <1>3. m * a \in Int /\ m * b \in Int
    BY <1>1
  <1>4. m * b - m * a = w - i
    BY <1>1, <1>2, <1>3
  <1>5. m * (b - a) = w - i /\ b - a \in Int
    BY <1>1, <1>4, Distributes
  <1>6. (b - a >= 1 => m * (b - a) >= m) /\ (b - a <= 0 => m * (b - a) <= 0)
    BY <1>5, Multiples
  <1> QED  BY <1>5, <1>6

LEMMA SlotsAreOne ==
  ASSUME NEW m \in Nat \ {0}, NEW i \in Nat, NEW w \in Nat, i % m = w % m,
         w - i < m, i - w < m
  PROVE  i = w
  <1>1. CASE i < w
    BY <1>1, SlotsDiffer
  <1>2. CASE w < i
    BY <1>2, SlotsDiffer
  <1> QED  BY <1>1, <1>2

\* What a buffer with cursors c holds in its storage b, oldest byte first.
Held(c, b) == [k \in 1 .. Used(c) |-> b[(c.read + k - 1) % Size]]

StorageOK(b) == Size \in Nat \ {0} /\ b \in [0 .. Size - 1 -> Bytes]

RingOK(c) == c \in Cursors /\ Used(c) <= Size /\ Size < Modulus

\* The counters of a ring; the write counter may have wrapped.
LEMMA UsedIs ==
  ASSUME NEW c \in Cursors
  PROVE  /\ c.read \in Nat /\ c.read < Modulus /\ c.write \in Nat /\ c.write < Modulus
         /\ c = [read |-> c.read, write |-> c.write]
         /\ Used(c) = IF c.read <= c.write THEN c.write - c.read
                      ELSE c.write - c.read + Modulus
         /\ Used(c) \in Nat /\ Used(c) < Modulus
  <1>1. /\ c.read \in 0 .. Modulus - 1 /\ c.write \in 0 .. Modulus - 1
        /\ c = [read |-> c.read, write |-> c.write] /\ Modulus \in Nat \ {0}
    BY ModulusAssumption DEF Cursors, Cursor
  <1>2. ASSUME NEW m \in Nat \ {0}, NEW r \in 0 .. m - 1, NEW w \in 0 .. m - 1
        PROVE  (w - r) % m = IF r <= w THEN w - r ELSE w - r + m
    BY <1>2
  <1>3. Used(c) = IF c.read <= c.write THEN c.write - c.read ELSE c.write - c.read + Modulus
    BY <1>1, <1>2 DEF Used
  <1> QED  BY <1>1, <1>3

LEMMA Shifted ==
  ASSUME NEW m \in Nat \ {0}, NEW x \in Nat, NEW d \in Nat, d % m = 0
  PROVE  (x + d) % m = x % m
  <1> DEFINE p == d \div m
             q == x \div m
             t == (x + d) \div m
             mp == m * p
             mq == m * q
             mt == m * t
             rx == x % m
             rt == (x + d) % m
  <1>1. d = mp /\ p \in Int /\ mp \in Int
    BY DivisionRange
  <1>2. x = mq + rx /\ q \in Int /\ rx \in 0 .. m - 1 /\ mq \in Int
    BY DivisionRange
  <1>3. x + d = mt + rt /\ t \in Int /\ rt \in 0 .. m - 1 /\ mt \in Int
    <2>1. x + d \in Nat
      OBVIOUS
    <2> QED  BY <2>1, DivisionRange
  <1> HIDE DEF p, q, t, rx, rt
  <1>4. mt - mq - mp = m * ((t - q) - p) /\ mp - (mt - mq) = m * (p - (t - q))
    BY <1>1, <1>2, <1>3, Distributes
  <1> HIDE DEF mp, mq, mt
  <1>5. mt - mq - mp = rx - rt /\ mp - (mt - mq) = rt - rx
    BY <1>1, <1>2, <1>3
  <1>6. /\ (t - q) - p \in Int /\ p - (t - q) \in Int
        /\ (t - q) - p >= 1 \/ p - (t - q) >= 1 \/ (t - q) - p = 0
    BY <1>1, <1>2, <1>3
  <1>7. CASE (t - q) - p >= 1
    <2>1. m * ((t - q) - p) >= m
      BY <1>6, <1>7, Multiples
    <2> QED  BY <1>2, <1>3, <1>4, <1>5, <2>1
  <1>8. CASE p - (t - q) >= 1
    <2>1. m * (p - (t - q)) >= m
      BY <1>6, <1>8, Multiples
    <2> QED  BY <1>2, <1>3, <1>4, <1>5, <2>1
  <1>9. CASE (t - q) - p = 0
    <2>1. m * ((t - q) - p) = 0
      BY <1>9
    <2>2. rx = rt
      BY <1>2, <1>3, <1>4, <1>5, <2>1
    <2> QED  BY <2>2 DEF rx, rt
  <1> QED  BY <1>6, <1>7, <1>8, <1>9

\* The write counter finds its slots also after it has wrapped.
PlacesOK(c) ==
  \A k \in Nat \ {0} : (c.write + k - 1) % Size = (c.read + Used(c) + k - 1) % Size

LEMMA PlaceOfWrite ==
  ASSUME Buffer!SizeAssumption, NEW c \in Cursors
  PROVE  PlacesOK(c)
  <1> SUFFICES ASSUME NEW k \in Nat \ {0}
               PROVE  (c.write + k - 1) % Size = (c.read + Used(c) + k - 1) % Size
    BY DEF PlacesOK
  <1>1. Size \in Nat \ {0} /\ Modulus \in Nat /\ Modulus % Size = 0
    BY ModulusAssumption DEF Buffer!SizeAssumption
  <1>2. /\ c.read \in Nat /\ c.write \in Nat /\ c.write + k - 1 \in Nat
        /\ \/ c.read + Used(c) + k - 1 = c.write + k - 1
           \/ c.read + Used(c) + k - 1 = (c.write + k - 1) + Modulus
    BY <1>1, UsedIs
  <1> DEFINE place == c.write + k - 1
             other == c.read + Used(c) + k - 1
  <1>3. place \in Nat /\ (other = place \/ other = place + Modulus)
    BY <1>2
  <1> HIDE DEF place, other
  <1>4. (place + Modulus) % Size = place % Size
    BY <1>1, <1>3, Shifted
  <1>5. place % Size = other % Size
    BY <1>3, <1>4
  <1> QED  BY <1>5 DEF place, other

\* A write that fits adds to what is used, whether it wraps or not.
LEMMA UsedAfter ==
  ASSUME NEW m \in Nat \ {0}, NEW r \in 0 .. m - 1, NEW w \in 0 .. m - 1, NEW n \in Nat,
         NEW u \in Nat, u = (IF r <= w THEN w - r ELSE w - r + m), u + n < m,
         NEW v, v = (w + n) % m
  PROVE  v \in 0 .. m - 1 /\ (IF r <= v THEN v - r ELSE v - r + m) = u + n
  <1>1. CASE w + n < m
    <2>1. v = w + n
      BY <1>1
    <2> QED  BY <1>1, <2>1
  <1>2. CASE ~(w + n < m)
    <2>1. v = w + n - m
      <3>1. PICK x \in Nat : x = w + n - m
        BY <1>2
      <3>2. x < m /\ x + m = w + n
        BY <3>1
      <3>3. m % m = 0 /\ m \in Nat
        OBVIOUS
      <3>4. (x + m) % m = x % m
        BY <3>3, Shifted
      <3>5. x % m = x
        BY <3>2
      <3> QED  BY <3>1, <3>2, <3>4, <3>5
    <2> QED  BY <1>2, <2>1
  <1> QED  BY <1>1, <1>2

\* What is held is a sequence of bytes, as long as the counters say.
LEMMA HeldIs ==
  ASSUME NEW c, NEW b, RingOK(c), StorageOK(b)
  PROVE  /\ Held(c, b) \in Seq(Bytes) /\ Len(Held(c, b)) = Used(c) /\ Used(c) \in Nat
         /\ \A k \in 1 .. Used(c) : Held(c, b)[k] = b[(c.read + k - 1) % Size]
  <1>1. Used(c) \in Nat /\ c.read \in Nat
    BY UsedIs DEF RingOK
  <1>2. \A k \in 1 .. Used(c) : (c.read + k - 1) % Size \in 0 .. Size - 1
    <2>1. \A k \in 1 .. Used(c) : c.read + k - 1 \in Nat
      BY <1>1
    <2> QED  BY <2>1, DivisionRange DEF StorageOK
  <1>3. Held(c, b) \in [1 .. Used(c) -> Bytes]
    BY <1>1, <1>2 DEF Held, StorageOK
  <1>4. Held(c, b) \in Seq(Bytes)
    BY <1>1, <1>3, SeqDef
  <1>5. Len(Held(c, b)) = Used(c)
    <2>1. DOMAIN Held(c, b) = 1 .. Len(Held(c, b)) /\ Len(Held(c, b)) \in Nat
      BY <1>4, LenProperties
    <2>2. DOMAIN Held(c, b) = 1 .. Used(c)
      BY <1>3
    <2> QED  BY <1>1, <2>1, <2>2
  <1>6. \A k \in 1 .. Used(c) : Held(c, b)[k] = b[(c.read + k - 1) % Size]
    BY DEF Held
  <1> QED  BY <1>1, <1>4, <1>5, <1>6

LEMMA HeldUnwrapped ==
  ASSUME NEW c, NEW b, NEW written, BufferOK(c, Size, written), RingOK(c), StorageOK(b)
  PROVE  /\ Held(c, b) \in Seq(Bytes) /\ Len(Held(c, b)) = c.write - c.read
         /\ c.write - c.read \in Nat
         /\ \A k \in 1 .. c.write - c.read : Held(c, b)[k] = b[(c.read + k - 1) % Size]
  <1>1. Used(c) = c.write - c.read
    BY UsedIsDifference
  <1> QED  BY <1>1, HeldIs

\* The places of l-th new and of k-th held byte, and of two new ones, lie less than a
\* size apart when the new ones fit.
LEMMA PlacesApart ==
  ASSUME NEW r \in Nat, NEW w \in Nat, r <= w, NEW n \in Nat, NEW size \in Nat,
         w - r + n <= size, NEW l \in 1 .. n
  PROVE  /\ w + l - 1 \in Nat
         /\ \A k \in 1 .. w - r :
              /\ r + k - 1 \in Nat /\ r + k - 1 < w + l - 1
              /\ (w + l - 1) - (r + k - 1) < size
         /\ \A j \in 1 .. n : (w + l - 1) - (w + j - 1) < size
  OBVIOUS

\* A place behind the held bytes is one of the new ones.
LEMMA PlaceOfNew ==
  ASSUME NEW r \in Nat, NEW w \in Nat, NEW h \in Nat, h = w - r, NEW n \in Nat,
         NEW k \in 1 .. h + n, ~(k <= h)
  PROVE  k - h \in 1 .. n /\ w + (k - h) - 1 = r + k - 1
  OBVIOUS

\* A read takes the oldest bytes and leaves the others in their order.
LEMMA ReadTakesOldest ==
  ASSUME NEW c, NEW b, NEW written, BufferOK(c, Size, written), RingOK(c), StorageOK(b),
         NEW n \in Nat \ {0}
  PROVE  LET cnt == IF n < Len(Held(c, b)) THEN n ELSE Len(Held(c, b))
         IN  /\ ReadCount(c, n) = cnt
             /\ Held(AfterRead(c, n), b) = SubSeq(Held(c, b), cnt + 1, Len(Held(c, b)))
             /\ [k \in 1 .. cnt |-> b[(c.read + k - 1) % Size]] = SubSeq(Held(c, b), 1, cnt)
  <1> DEFINE held == Held(c, b)
             cnt == IF n < Len(held) THEN n ELSE Len(held)
             after == AfterRead(c, n)
             taken == [k \in 1 .. cnt |-> b[(c.read + k - 1) % Size]]
  <1>0. Size \in Nat
    BY DEF StorageOK
  <1>1. /\ c.write \in Nat /\ c.read \in Nat /\ c.write - c.read \in Nat
        /\ c = [read |-> c.read, write |-> c.write]
    BY UsedIsDifference, ModulusAssumption DEF BufferOK
  <1>2. /\ held \in Seq(Bytes) /\ Len(held) = c.write - c.read
        /\ \A k \in 1 .. c.write - c.read : held[k] = b[(c.read + k - 1) % Size]
    BY HeldUnwrapped
  <1>3. ReadCount(c, n) = cnt /\ cnt \in 0 .. Len(held)
    BY <1>1, <1>2 DEF ReadCount
  <1>4. after.read = c.read + cnt /\ after.write = c.write /\ BufferOK(after, Size, written)
    BY <1>0, <1>1, <1>3, ReadOK DEF AfterRead
  <1>5. /\ Held(after, b) \in Seq(Bytes) /\ Len(Held(after, b)) = Len(held) - cnt
        /\ \A k \in 1 .. Len(held) - cnt : Held(after, b)[k] = b[(c.read + cnt + k - 1) % Size]
    <2>0. RingOK(after)
      BY <1>4, UsedIsDifference DEF RingOK, BufferOK
    <2>1. /\ Held(after, b) \in Seq(Bytes) /\ Len(Held(after, b)) = after.write - after.read
          /\ \A k \in 1 .. after.write - after.read :
               Held(after, b)[k] = b[(after.read + k - 1) % Size]
      BY <1>4, <2>0, HeldUnwrapped
    <2>2. after.write - after.read = Len(held) - cnt
      BY <1>1, <1>2, <1>3, <1>4
    <2> QED  BY <1>4, <2>1, <2>2
  <1> HIDE DEF held, cnt, after
  <1>6. \A k \in 1 .. Len(held) : held[k] \in Bytes
    BY <1>2, ElementOfSeq
  <1>7. Held(after, b) = SubSeq(held, cnt + 1, Len(held))
    <2>1. /\ SubSeq(held, cnt + 1, Len(held)) \in Seq(Bytes)
          /\ Len(SubSeq(held, cnt + 1, Len(held))) = Len(held) - cnt
          /\ \A k \in 1 .. Len(held) - cnt : SubSeq(held, cnt + 1, Len(held))[k] = held[cnt + k]
      <3>1. \A k \in cnt + 1 .. Len(held) : held[k] \in Bytes
        BY <1>1, <1>2, <1>3, <1>6
      <3>2. /\ SubSeq(held, cnt + 1, Len(held)) \in Seq(Bytes)
            /\ Len(SubSeq(held, cnt + 1, Len(held)))
                 = IF cnt + 1 <= Len(held) THEN Len(held) - (cnt + 1) + 1 ELSE 0
            /\ \A k \in 1 .. Len(held) - (cnt + 1) + 1 :
                 SubSeq(held, cnt + 1, Len(held))[k] = held[cnt + 1 + k - 1]
        <4>1. cnt + 1 \in Int /\ Len(held) \in Int
          BY <1>1, <1>2, <1>3
        <4> QED  BY <3>1, <4>1, SubSeqProperties
      <3>3. /\ cnt \in Int /\ Len(held) \in Int /\ cnt <= Len(held)
            /\ Len(held) - (cnt + 1) + 1 = Len(held) - cnt
        BY <1>1, <1>2, <1>3
      <3>4. \A k \in Int : cnt + 1 + k - 1 = cnt + k
        BY <3>3
      <3>5. Len(SubSeq(held, cnt + 1, Len(held))) = Len(held) - cnt
        <4>1. CASE cnt + 1 <= Len(held)
          <5>1. Len(SubSeq(held, cnt + 1, Len(held))) = Len(held) - (cnt + 1) + 1
            BY <3>2, <4>1, Zenon
          <5> QED  BY <3>3, <5>1, Zenon
        <4>2. CASE ~(cnt + 1 <= Len(held))
          <5>1. Len(SubSeq(held, cnt + 1, Len(held))) = 0
            BY <3>2, <4>2, Zenon
          <5>2. \A m, i \in Int : i <= m /\ ~(i + 1 <= m) => m - i = 0
            OBVIOUS
          <5>3. Len(held) - cnt = 0
            BY <3>3, <4>2, <5>2, Zenon
          <5> QED  BY <5>1, <5>3, Zenon
        <4> QED  BY <4>1, <4>2
      <3>6. \A k \in 1 .. Len(held) - cnt : SubSeq(held, cnt + 1, Len(held))[k] = held[cnt + k]
        <4>1. ASSUME NEW k \in 1 .. Len(held) - cnt
              PROVE  SubSeq(held, cnt + 1, Len(held))[k] = held[cnt + k]
          <5>1. cnt + 1 + k - 1 = cnt + k
            BY <3>4
          <5>2. SubSeq(held, cnt + 1, Len(held))[k] = held[cnt + 1 + k - 1]
            BY <3>2, <3>3
          <5> QED  BY <5>1, <5>2
        <4> QED  BY <4>1
      <3> QED  BY <3>2, <3>5, <3>6
    <2>2. \A k \in 1 .. Len(held) - cnt :
            Held(after, b)[k] = SubSeq(held, cnt + 1, Len(held))[k]
      <3> SUFFICES ASSUME NEW k \in 1 .. Len(held) - cnt
                   PROVE  Held(after, b)[k] = SubSeq(held, cnt + 1, Len(held))[k]
        OBVIOUS
      <3>1. cnt + k \in 1 .. c.write - c.read /\ c.read + cnt + k - 1 = c.read + (cnt + k) - 1
        BY <1>1, <1>2, <1>3
      <3>2. held[cnt + k] = b[(c.read + (cnt + k) - 1) % Size]
        BY <1>2, <3>1
      <3> QED  BY <1>5, <2>1, <3>1, <3>2
    <2> QED  BY <1>5, <2>1, <2>2, SeqEqual
  <1>8. taken = SubSeq(held, 1, cnt)
    <2>1. /\ SubSeq(held, 1, cnt) \in Seq(Bytes)
          /\ Len(SubSeq(held, 1, cnt)) = cnt
          /\ \A k \in 1 .. cnt : SubSeq(held, 1, cnt)[k] = held[k]
      <3>1. \A k \in 1 .. cnt : held[k] \in Bytes
        BY <1>1, <1>2, <1>3, <1>6
      <3>2. /\ SubSeq(held, 1, cnt) \in Seq(Bytes)
            /\ Len(SubSeq(held, 1, cnt)) = IF 1 <= cnt THEN cnt - 1 + 1 ELSE 0
            /\ \A k \in 1 .. cnt - 1 + 1 : SubSeq(held, 1, cnt)[k] = held[1 + k - 1]
        <4>1. cnt \in Int
          BY <1>1, <1>2, <1>3
        <4> QED  BY <3>1, <4>1, SubSeqProperties
      <3> QED  BY <1>1, <1>2, <1>3, <3>2
    <2>2. SubSeq(held, 1, cnt) = [k \in 1 .. cnt |-> SubSeq(held, 1, cnt)[k]]
      BY <2>1, LenProperties
    <2>3. ASSUME NEW k \in 1 .. cnt
          PROVE  b[(c.read + k - 1) % Size] = SubSeq(held, 1, cnt)[k]
      <3>1. k \in 1 .. c.write - c.read
        BY <1>1, <1>2, <1>3
      <3> QED  BY <1>2, <2>1, <3>1
    <2> QED  BY <2>2, <2>3
  <1> QED  BY <1>3, <1>7, <1>8 DEF held, cnt, after

\* The storage after the bytes of src were put behind those held.
Stored(c, b, src) ==
  LET cnt == WriteCount(c, Len(src), Size)
  IN  [i \in DOMAIN b |->
        IF \E k \in 1 .. cnt : (c.write + k - 1) % Size = i
          THEN src[CHOOSE k \in 1 .. cnt : (c.write + k - 1) % Size = i]
          ELSE b[i]]

\* A write that fits goes behind the bytes held and overwrites none of them.
LEMMA WriteAppends ==
  ASSUME NEW c, NEW b, RingOK(c), PlacesOK(c), StorageOK(b),
         NEW src \in Seq(Bytes), Len(src) # 0
  PROVE  LET fits == Len(Held(c, b)) + Len(src) <= Size
             after == AfterWrite(c, Len(src), Size)
         IN  /\ WriteCount(c, Len(src), Size) = IF fits THEN Len(src) ELSE 0
             /\ RingOK(after)
             /\ after.write = IF fits THEN (c.write + Len(src)) % Modulus ELSE c.write
             /\ StorageOK(Stored(c, b, src))
             /\ Held(after, Stored(c, b, src)) = IF fits THEN Held(c, b) \o src ELSE Held(c, b)
  <1> DEFINE held == Held(c, b)
             n == Len(src)
             cnt == WriteCount(c, n, Size)
             after == AfterWrite(c, n, Size)
             fits == Len(held) + n <= Size
             b2 == Stored(c, b, src)
             end == c.read + Used(c)
  <1>0. /\ Size \in Nat \ {0} /\ n \in Nat \ {0} /\ \A k \in 1 .. n : src[k] \in Bytes
        /\ Size < Modulus /\ Modulus \in Nat \ {0}
    BY LenProperties, ElementOfSeq, ModulusAssumption DEF StorageOK, RingOK
  <1>1. /\ end \in Nat /\ c.read \in Nat /\ end - c.read \in Nat /\ end - c.read = Used(c)
        /\ c \in Cursors /\ c.write \in Nat
    BY UsedIs DEF RingOK
  <1>2. /\ held \in Seq(Bytes) /\ Len(held) = end - c.read
        /\ \A k \in 1 .. end - c.read : held[k] = b[(c.read + k - 1) % Size]
    <2>1. /\ held \in Seq(Bytes) /\ Len(held) = Used(c)
          /\ \A k \in 1 .. Used(c) : held[k] = b[(c.read + k - 1) % Size]
      BY HeldIs
    <2> HIDE DEF held, end
    <2> QED  BY <1>1, <2>1
  <1>3. cnt = (IF fits THEN n ELSE 0) /\ cnt \in 0 .. n /\ (cnt # 0 => Len(held) + cnt <= Size)
    BY <1>0, <1>1, <1>2 DEF WriteCount, Free
  <1>p. \A k \in 1 .. n : (c.write + k - 1) % Size = (end + k - 1) % Size
    BY <1>0, <1>1 DEF PlacesOK
  <1>4. fits => /\ after \in Cursors /\ after.read = c.read /\ Used(after) = Used(c) + n
                /\ after.write = (c.write + n) % Modulus /\ RingOK(after)
    <2> SUFFICES ASSUME fits
                 PROVE  /\ after \in Cursors /\ after.read = c.read /\ Used(after) = Used(c) + n
                        /\ after.write = (c.write + n) % Modulus /\ RingOK(after)
      OBVIOUS
    <2>1. /\ c = [read |-> c.read, write |-> c.write]
          /\ c.read \in 0 .. Modulus - 1 /\ c.write \in 0 .. Modulus - 1
          /\ Used(c) = IF c.read <= c.write THEN c.write - c.read
                       ELSE c.write - c.read + Modulus
      BY <1>0, <1>1, UsedIs
    <2>2. Used(c) + n <= Size
      BY <1>1, <1>2
    <2>3. after = [read |-> c.read, write |-> (c.write + n) % Modulus]
      BY <1>3, <2>1 DEF AfterWrite
    <2> HIDE DEF n, after, end
    <2>4. /\ after.write \in 0 .. Modulus - 1
          /\ (IF c.read <= after.write THEN after.write - c.read
              ELSE after.write - c.read + Modulus) = Used(c) + n
      <3>1. PICK r \in 0 .. Modulus - 1 : r = c.read
        BY <2>1
      <3>2. PICK w \in 0 .. Modulus - 1 : w = c.write
        BY <2>1
      <3>3. PICK u \in Nat : u = Used(c)
        BY <1>1
      <3>4. Modulus \in Nat \ {0} /\ n \in Nat /\ u + n < Modulus
        BY <1>0, <2>2, <3>3
      <3>5. u = IF r <= w THEN w - r ELSE w - r + Modulus
        BY <2>1, <3>1, <3>2, <3>3
      <3> DEFINE v == after.write
      <3>6. v = (w + n) % Modulus
        BY <2>3, <3>2
      <3> HIDE DEF v
      <3>7. v \in 0 .. Modulus - 1 /\ (IF r <= v THEN v - r ELSE v - r + Modulus) = u + n
        BY <3>4, <3>5, <3>6, UsedAfter
      <3> QED  BY <3>1, <3>3, <3>7 DEF v
    <2>5. after \in Cursors /\ after.read = c.read
      BY <2>1, <2>3, <2>4 DEF Cursors, Cursor
    <2>6. Used(after) = Used(c) + n
      BY <2>4, <2>5, UsedIs
    <2> QED  BY <2>2, <2>3, <2>5, <2>6 DEF RingOK
  <1>5. ~fits => after = c
    <2>1. cnt = 0 => c.write \in 0 .. Modulus - 1 /\ c = [read |-> c.read, write |-> c.write]
      BY <1>0, <1>1, UsedIs
    <2>2. cnt = 0 => (c.write + cnt) % Modulus = c.write
      <3>1. c.write \in Nat /\ c.write < Modulus /\ c.write + 0 = c.write
        BY <1>1, UsedIs
      <3>2. c.write % Modulus = c.write
        BY <3>1, SmallModulo
      <3> HIDE DEF cnt
      <3> QED  BY <3>1, <3>2
    <2>3. cnt = 0 => after = [read |-> c.read, write |-> (c.write + cnt) % Modulus]
      BY <2>1 DEF AfterWrite
    <2>4. ~fits => cnt = 0
      BY <1>3
    <2> HIDE DEF cnt, after, fits
    <2> QED  BY <2>1, <2>2, <2>3, <2>4
  <1>6. b2 = [i \in 0 .. Size - 1 |->
               IF \E k \in 1 .. cnt : (c.write + k - 1) % Size = i
                 THEN src[CHOOSE k \in 1 .. cnt : (c.write + k - 1) % Size = i]
                 ELSE b[i]]
    BY DEF Stored, StorageOK
  <1>7. StorageOK(b2)
    <2>1. ASSUME NEW i \in 0 .. Size - 1, \E k \in 1 .. cnt : (c.write + k - 1) % Size = i
          PROVE  (CHOOSE k \in 1 .. cnt : (c.write + k - 1) % Size = i) \in 1 .. n
      <3>1. (CHOOSE k \in 1 .. cnt : (c.write + k - 1) % Size = i) \in 1 .. cnt
        BY <2>1
      <3> QED  BY <1>0, <1>3, <3>1
    <2>2. \A i \in 0 .. Size - 1 : b[i] \in Bytes
      BY DEF StorageOK
    <2> QED  BY <1>0, <1>6, <2>1, <2>2 DEF StorageOK
  <1> HIDE DEF held, n, cnt, after, b2, end
  <1>8. CASE ~fits
    <2>1. cnt = 0
      BY <1>3, <1>8
    <2>2. after = c
      BY <1>5, <1>8
    <2>3. b2 = b
      <3>1. b = [i \in 0 .. Size - 1 |-> b[i]]
        BY DEF StorageOK
      <3>2. \A i \in 0 .. Size - 1 : ~ \E k \in 1 .. cnt : (c.write + k - 1) % Size = i
        BY <2>1
      <3> QED  BY <1>6, <3>1, <3>2
    <2> QED  BY <1>3, <1>7, <1>8, <2>2, <2>3 DEF held, n, cnt, after, b2
  <1>9. CASE fits
    <2>1. cnt = n /\ end - c.read + n <= Size /\ RingOK(after) /\ after.read = c.read
          /\ Used(after) = end - c.read + n /\ after.write = (c.write + n) % Modulus
      BY <1>0, <1>1, <1>2, <1>3, <1>4, <1>9
    <2>0. c.read <= end /\ n \in Nat /\ Size \in Nat
      BY <1>0, <1>1
    <2>2. ASSUME NEW k \in 1 .. n
          PROVE  b2[(end + k - 1) % Size] = src[k]
      <3> DEFINE slot == (end + k - 1) % Size
                 j == CHOOSE l \in 1 .. cnt : (c.write + l - 1) % Size = slot
      <3>1. end + k - 1 \in Nat /\ slot \in 0 .. Size - 1
        <4>1. end + k - 1 \in Nat
          BY <1>0, <1>1
        <4> QED  BY <1>0, <4>1, DivisionRange
      <3>2. \E l \in 1 .. cnt : (c.write + l - 1) % Size = slot
        BY <1>p, <2>1, <2>2
      <3>3. j \in 1 .. n /\ (end + j - 1) % Size = slot
        <4>1. j \in 1 .. n /\ (c.write + j - 1) % Size = slot
          BY <2>1, <3>2
        <4> QED  BY <1>p, <4>1
      <3>4. b2[slot] = src[j]
        BY <1>6, <3>1, <3>2
      <3> HIDE DEF j
      <3>5. end + j - 1 = end + k - 1
        <4>1. /\ end + j - 1 \in Nat
              /\ (end + j - 1) - (end + k - 1) < Size
              /\ (end + k - 1) - (end + j - 1) < Size
          BY <1>0, <1>1, <2>0, <2>1, <3>3, PlacesApart
        <4> QED  BY <1>0, <3>1, <3>3, <4>1, SlotsAreOne
      <3>6. j = k
        BY <1>0, <1>1, <3>3, <3>5
      <3> QED  BY <3>4, <3>6
    <2>3. ASSUME NEW k \in 1 .. end - c.read
          PROVE  b2[(c.read + k - 1) % Size] = b[(c.read + k - 1) % Size]
      <3> DEFINE slot == (c.read + k - 1) % Size
      <3>1. c.read + k - 1 \in Nat /\ slot \in 0 .. Size - 1
        <4>1. c.read + k - 1 \in Nat
          BY <1>1
        <4> QED  BY <1>0, <4>1, DivisionRange
      <3>2. ASSUME NEW l \in 1 .. cnt PROVE (c.write + l - 1) % Size # slot
        <4>1. /\ end + l - 1 \in Nat /\ c.read + k - 1 < end + l - 1
              /\ (end + l - 1) - (c.read + k - 1) < Size
          <5>1. l \in 1 .. n
            BY <2>1, <3>2
          <5> QED  BY <1>0, <1>1, <2>0, <2>1, <5>1, PlacesApart
        <4>2. (end + l - 1) % Size # slot /\ l \in 1 .. n
          BY <1>0, <2>1, <3>1, <3>2, <4>1, SlotsDiffer
        <4> QED  BY <1>p, <4>2
      <3> QED  BY <1>6, <3>1, <3>2
    <2>4. /\ Held(after, b2) \in Seq(Bytes) /\ Len(Held(after, b2)) = Len(held) + n
          /\ \A k \in 1 .. Len(held) + n : Held(after, b2)[k] = b2[(c.read + k - 1) % Size]
      <3>1. /\ Held(after, b2) \in Seq(Bytes) /\ Len(Held(after, b2)) = Used(after)
            /\ \A k \in 1 .. Used(after) : Held(after, b2)[k] = b2[(after.read + k - 1) % Size]
        BY <1>7, <2>1, HeldIs
      <3>2. after.read = c.read /\ Used(after) = Len(held) + n
        BY <1>2, <2>1
      <3> QED  BY <3>1, <3>2
    <2>5. /\ held \o src \in Seq(Bytes) /\ Len(held \o src) = Len(held) + n
          /\ \A k \in 1 .. Len(held) + n :
               (held \o src)[k] = IF k <= Len(held) THEN held[k] ELSE src[k - Len(held)]
      BY <1>2, ConcatProperties DEF n
    <2>6. ASSUME NEW k \in 1 .. Len(held) + n
          PROVE  Held(after, b2)[k] = (held \o src)[k]
      <3>0. Len(held) \in Nat
        BY <1>1, <1>2
      <3>1. CASE k <= Len(held)
        <4>1. k \in 1 .. end - c.read
          BY <1>1, <1>2, <3>1
        <4> QED  BY <1>2, <2>3, <2>4, <2>5, <3>1, <4>1
      <3>2. CASE ~(k <= Len(held))
        <4>1. /\ k - Len(held) \in 1 .. n
              /\ end + (k - Len(held)) - 1 = c.read + k - 1
          <5>1. Len(held) = end - c.read /\ n \in Nat /\ end \in Nat /\ c.read \in Nat
            BY <1>0, <1>1, <1>2
          <5>2. PICK h \in Nat : h = Len(held)
            BY <3>0
          <5>3. PICK r \in Nat : r = c.read
            BY <5>1
          <5>4. PICK w \in Nat : w = end
            BY <5>1
          <5>5. PICK m \in Nat : m = n
            BY <5>1
          <5>6. k \in 1 .. h + m /\ ~(k <= h) /\ h = w - r
            BY <3>2, <5>1, <5>2, <5>3, <5>4, <5>5
          <5>7. k - h \in 1 .. m /\ w + (k - h) - 1 = r + k - 1
            BY <5>6, PlaceOfNew
          <5> QED BY <5>2, <5>3, <5>4, <5>5, <5>7
        <4>2. b2[(end + (k - Len(held)) - 1) % Size] = src[k - Len(held)]
          BY <2>2, <4>1
        <4> QED  BY <2>4, <2>5, <3>2, <4>1, <4>2
      <3> QED  BY <3>1, <3>2
    <2>7. Held(after, b2) = held \o src
      BY <2>4, <2>5, <2>6, SeqEqual
    <2> QED  BY <1>3, <1>4, <1>7, <1>9, <2>7 DEF held, n, cnt, after, b2
  <1> QED  BY <1>8, <1>9

RingInv == RingOK(ring) /\ StorageOK(buffer)

LEMMA ContentsAre ==
  /\ Buffer!Contents = Held(ring, buffer)
  /\ Buffer!Contents' = Held(ring, buffer)'
  BY SameCursors DEF Buffer!Contents, Buffer!Slot, Held, Buffer!Used, Used

LEMMA RingInit ==
  ASSUME Buffer!SizeAssumption
  PROVE  Buffer!Init => RingInv /\ Buffer!Fifo!FifoInit
  <1> SUFFICES ASSUME Buffer!Init PROVE RingInv /\ Buffer!Fifo!FifoInit
    OBVIOUS
  <1>1. EmptyCursors \in Cursors /\ EmptyCursors.read = 0 /\ EmptyCursors.write = 0
    BY ModulusAssumption DEF EmptyCursors, Cursors, Cursor
  <1>2. ring = EmptyCursors
    BY SameCursors DEF Buffer!Init
  <1>3. RingInv /\ Used(ring) = 0
    BY <1>1, <1>2, UsedIs DEF Buffer!Init, Buffer!SizeAssumption, RingInv, RingOK, StorageOK
  <1>4. Held(ring, buffer) \in Seq(Bytes) /\ Len(Held(ring, buffer)) = 0
    BY <1>3, HeldIs DEF RingInv
  <1>5. Held(ring, buffer) = <<>>
    BY <1>4, EmptySeq
  <1> QED  BY <1>1, <1>2, <1>3, <1>5, ContentsAre DEF Buffer!Fifo!FifoInit, Buffer!Init

\* Reads find nothing exactly while the write counter has wrapped and the read counter
\* has not.
LEMMA RingRead ==
  ASSUME Buffer!SizeAssumption, RingInv, NEW n \in 1 .. MaxChunk, Buffer!Read(n)
  PROVE  RingInv' /\ Buffer!Fifo!FifoRead(n)
  <1>1. n \in Nat \ {0} /\ Size \in Nat
    BY DEF Buffer!SizeAssumption
  <1>2. /\ ring' = AfterRead(ring, n) /\ buffer' = buffer
        /\ ret' = [op |-> "read", size |-> n,
                   data |-> [k \in 1 .. ReadCount(ring, n) |->
                              buffer[(ring.read + k - 1) % Size]]]
    BY SameCursors DEF Buffer!Read, Buffer!Slot
  <1> DEFINE held == Held(ring, buffer)
             readable == Len(held) <= ring.write
             least == IF n < Len(held) THEN n ELSE Len(held)
             cnt == IF readable THEN least ELSE 0
  <1>3. /\ ring.read \in Nat /\ ring.read < Modulus /\ ring.write \in Nat
        /\ ring = [read |-> ring.read, write |-> ring.write]
        /\ Used(ring) = IF ring.read <= ring.write THEN ring.write - ring.read
                        ELSE ring.write - ring.read + Modulus
        /\ Used(ring) <= Size /\ ring \in Cursors
    BY UsedIs DEF RingInv, RingOK
  <1>4. held \in Seq(Bytes) /\ Len(held) = Used(ring)
    BY HeldIs DEF RingInv
  <1> HIDE DEF held
  <1>5. readable <=> ring.read <= ring.write
    BY <1>3, <1>4, ModulusAssumption
  <1>6. /\ ReadCount(ring, n) = cnt /\ RingOK(ring')
        /\ ring'.write = ring.write
        /\ Held(ring', buffer) = SubSeq(held, cnt + 1, Len(held))
        /\ [k \in 1 .. cnt |-> buffer[(ring.read + k - 1) % Size]] = SubSeq(held, 1, cnt)
    <2>1. CASE readable
      <3>1. BufferOK(ring, Size, ring.write)
        BY <1>3, <1>5, <2>1 DEF BufferOK
      <3>2. BufferOK(ring', Size, ring.write)
        BY <1>1, <1>2, <3>1, ReadOK
      <3>3. RingOK(ring') /\ ring'.write = ring.write
        BY <3>2, UsedIsDifference DEF RingOK, BufferOK
      <3>4. /\ ReadCount(ring, n) = least
            /\ Held(ring', buffer) = SubSeq(held, least + 1, Len(held))
            /\ [k \in 1 .. least |-> buffer[(ring.read + k - 1) % Size]] = SubSeq(held, 1, least)
        <4>1. /\ ReadCount(ring, n) = least
              /\ Held(AfterRead(ring, n), buffer) = SubSeq(held, least + 1, Len(held))
              /\ [k \in 1 .. least |-> buffer[(ring.read + k - 1) % Size]]
                   = SubSeq(held, 1, least)
          BY <1>1, <3>1, ReadTakesOldest DEF RingInv, held
        <4> QED  BY <1>2, <4>1
      <3>5. cnt = least
        BY <2>1
      <3> HIDE DEF cnt, least
      <3> QED  BY <3>3, <3>4, <3>5
    <2>2. CASE ~readable
      <3>1. ReadCount(ring, n) = 0 /\ cnt = 0
        BY <1>3, <1>5, <2>2 DEF ReadCount
      <3>2. ring' = ring
        BY <1>2, <1>3, <3>1 DEF AfterRead
      <3>3. SubSeq(held, 0 + 1, Len(held)) = held
        BY <1>4
      <3>4. SubSeq(held, 1, 0) = <<>> /\ [k \in 1 .. 0 |-> buffer[(ring.read + k - 1) % Size]] = <<>>
        BY <1>4
      <3> QED  BY <3>1, <3>2, <3>3, <3>4 DEF RingInv, held
    <2> QED  BY <2>1, <2>2
  <1>7. Held(ring, buffer)' = Held(ring', buffer)
    BY <1>2 DEF Held, Used
  <1>8. RingInv'
    BY <1>2, <1>6 DEF RingInv, RingOK, Used, StorageOK
  <1>9. Buffer!Contents = held /\ Buffer!Contents' = SubSeq(held, cnt + 1, Len(held))
    BY <1>6, <1>7, ContentsAre DEF held
  <1> QED
    BY <1>2, <1>6, <1>8, <1>9
       DEF Buffer!Fifo!FifoRead, Buffer!Fifo!AtMost, Buffer!Fifo!Readable

LEMMA RingWrite ==
  ASSUME Buffer!SizeAssumption, RingInv, NEW src \in Buffer!Chunks, Buffer!Write(src)
  PROVE  RingInv' /\ Buffer!Fifo!FifoWrite(src)
  <1>1. src \in Seq(Bytes) /\ Len(src) \in Nat \ {0}
    <2>1. PICK n \in 1 .. MaxChunk : src \in [1 .. n -> Bytes]
      BY DEF Buffer!Chunks
    <2>2. n \in Nat \ {0}
      BY <2>1 DEF Buffer!SizeAssumption
    <2>3. src \in Seq(Bytes)
      BY <2>1, <2>2, SeqDef
    <2>4. DOMAIN src = 1 .. Len(src) /\ Len(src) \in Nat /\ DOMAIN src = 1 .. n
      BY <2>1, <2>3, LenProperties
    <2> QED  BY <2>2, <2>3, <2>4
  <1>2. /\ ring' = AfterWrite(ring, Len(src), Size)
        /\ buffer' = Stored(ring, buffer, src)
        /\ ret' = [op |-> "write", size |-> Len(src), n |-> WriteCount(ring, Len(src), Size)]
    BY SameCursors DEF Buffer!Write, Buffer!Slot, Stored
  <1> DEFINE held == Held(ring, buffer)
             fits == Len(held) + Len(src) <= Size
             after == AfterWrite(ring, Len(src), Size)
  <1>3. /\ WriteCount(ring, Len(src), Size) = IF fits THEN Len(src) ELSE 0
        /\ RingOK(after)
        /\ after.write = IF fits THEN (ring.write + Len(src)) % Modulus ELSE ring.write
        /\ StorageOK(Stored(ring, buffer, src))
        /\ Held(after, Stored(ring, buffer, src)) = IF fits THEN held \o src ELSE held
    <2>1. PlacesOK(ring)
      BY PlaceOfWrite DEF RingInv, RingOK
    <2> QED  BY <1>1, <2>1, WriteAppends DEF RingInv
  <1>4. Held(ring, buffer)' = Held(after, Stored(ring, buffer, src))
    BY <1>2 DEF Held, Used
  <1>5. RingInv'
    BY <1>2, <1>3 DEF RingInv, RingOK, Used, StorageOK
  <1> QED  BY <1>2, <1>3, <1>4, <1>5, ContentsAre DEF Buffer!Fifo!FifoWrite

LEMMA RingFlush ==
  ASSUME Buffer!SizeAssumption, RingInv, Buffer!Flush
  PROVE  RingInv' /\ Buffer!Fifo!FifoFlush
  <1>1. /\ ring' = AfterFlush(ring) /\ buffer' = buffer
        /\ ret' = [op |-> "flush", n |-> Used(ring)]
    BY SameCursors DEF Buffer!Flush
  <1>2. AfterFlush(ring) \in Cursors /\ AfterFlush(ring).write = ring.write
        /\ AfterFlush(ring).read = ring.write
    BY DEF AfterFlush, RingInv, RingOK, Cursors
  <1>3. Used(AfterFlush(ring)) = 0
    BY <1>2, UsedIs
  <1>4. RingOK(AfterFlush(ring))
    BY <1>2, <1>3 DEF RingOK, Buffer!SizeAssumption
  <1>5. RingInv'
    BY <1>1, <1>4 DEF RingInv, RingOK, Used, StorageOK
  <1>6. Held(ring, buffer)' = <<>>
    <2>1. Held(ring, buffer)' = Held(AfterFlush(ring), buffer)
      BY <1>1 DEF Held, Used
    <2>2. /\ Held(AfterFlush(ring), buffer) \in Seq(Bytes)
          /\ Len(Held(AfterFlush(ring), buffer)) = 0
      BY <1>3, <1>4, HeldIs DEF RingInv
    <2> QED  BY <2>1, <2>2, EmptySeq
  <1>7. Used(ring) = Len(Held(ring, buffer))
    BY HeldIs DEF RingInv
  <1> QED  BY <1>1, <1>2, <1>5, <1>6, <1>7, ContentsAre DEF Buffer!Fifo!FifoFlush

LEMMA RingNext ==
  ASSUME Buffer!SizeAssumption
  PROVE  RingInv /\ [Buffer!Next]_(Buffer!vars)
           => RingInv' /\ [Buffer!Fifo!FifoNext]_<<Buffer!Contents, ring.write, ret>>
  <1> SUFFICES ASSUME RingInv, [Buffer!Next]_(Buffer!vars)
               PROVE  RingInv' /\ [Buffer!Fifo!FifoNext]_<<Buffer!Contents, ring.write, ret>>
    OBVIOUS
  <1>1. ASSUME NEW n \in 1 .. MaxChunk, Buffer!Read(n)
        PROVE  RingInv' /\ Buffer!Fifo!FifoNext
    BY <1>1, RingRead DEF Buffer!Fifo!FifoNext
  <1>2. ASSUME NEW src \in Buffer!Chunks, Buffer!Write(src)
        PROVE  RingInv' /\ Buffer!Fifo!FifoNext
    <2>1. src \in Buffer!Fifo!Chunks
      BY <1>2 DEF Buffer!Chunks, Buffer!Fifo!Chunks
    <2>2. RingInv' /\ Buffer!Fifo!FifoWrite(src)
      BY <1>2, RingWrite
    <2> QED  BY <2>1, <2>2 DEF Buffer!Fifo!FifoNext
  <1>3. ASSUME Buffer!Flush PROVE RingInv' /\ Buffer!Fifo!FifoNext
    BY <1>3, RingFlush DEF Buffer!Fifo!FifoNext
  <1>4. CASE UNCHANGED Buffer!vars
    <2>1. UNCHANGED <<ring, buffer, ret>>
      BY <1>4 DEF Buffer!vars
    <2>2. RingInv'
      BY <2>1 DEF RingInv, RingOK, Used, StorageOK
    <2>3. Held(ring, buffer)' = Held(ring, buffer)
      BY <2>1 DEF Held, Used
    <2> QED  BY <2>1, <2>2, <2>3, ContentsAre
  <1> QED  BY <1>1, <1>2, <1>3, <1>4 DEF Buffer!Next

\* A circle buffer of any size is a bounded queue of bytes, for ever: a write puts all of
\* its bytes behind the others or none, a read takes the oldest ones, and no byte is lost,
\* repeated, reordered or overwritten before it was read.  Only between a wrap of the write
\* counter and the next flush does a read find nothing.
THEOREM RingIsFifo ==
  ASSUME Buffer!SizeAssumption
  PROVE  Buffer!Spec => Buffer!ImplementsFifo
  <1>1. Buffer!Init => RingInv /\ Buffer!Fifo!FifoInit
    BY RingInit
  <1>2. RingInv /\ [Buffer!Next]_(Buffer!vars)
          => RingInv' /\ [Buffer!Fifo!FifoNext]_<<Buffer!Contents, ring.write, ret>>
    BY RingNext
  <1> QED  BY <1>1, <1>2, PTL DEF Buffer!Spec, Buffer!ImplementsFifo, Buffer!Fifo!FifoSpec
=============================================================================
