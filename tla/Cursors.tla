------------------------------- MODULE Cursors -------------------------------
(***************************************************************************)
(* The cursors of a circle buffer (Src/circle_buffer/circle_buffer.c): a   *)
(* record of the free-running unsigned counters read and write, which wrap *)
(* at Modulus, 2^32 in the code.  Sizes are differences of the two modulo  *)
(* Modulus; the loop of circle_buffer_read compares them as they are.      *)
(***************************************************************************)
EXTENDS Integers

CONSTANT Modulus  \* the counters hold 0 .. Modulus - 1
ASSUME ModulusAssumption == Modulus \in Nat \ {0}

Cursor == 0 .. Modulus - 1
Cursors == [read : Cursor, write : Cursor]
EmptyCursors == [read |-> 0, write |-> 0]

Used(cb) == (cb.write - cb.read) % Modulus
Free(cb, size) == size - Used(cb)

\* How many bytes the loop of circle_buffer_read takes when asked for n.
ReadCount(cb, n) ==
  IF cb.read >= cb.write THEN 0
  ELSE IF cb.write - cb.read < n THEN cb.write - cb.read ELSE n
AfterRead(cb, n) == [cb EXCEPT !.read = @ + ReadCount(cb, n)]

\* circle_buffer_write puts all n bytes in, or none.
WriteCountPartial(cb, n, size) ==  \* mutant: fills up what is free
  IF Free(cb, size) >= n THEN n ELSE Free(cb, size)
WriteCount(cb, n, size) == IF Free(cb, size) >= n THEN n ELSE 0
AfterWrite(cb, n, size) == [cb EXCEPT !.write = (@ + WriteCount(cb, n, size)) % Modulus]

AfterFlush(cb) == [cb EXCEPT !.read = cb.write]
=============================================================================
