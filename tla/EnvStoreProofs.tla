---------------------------- MODULE EnvStoreProofs ----------------------------
(***************************************************************************)
(* Proofs about the environment store, for banks of any size, any          *)
(* environments and any number of power cuts and failures, as long as no   *)
(* flash operation fails while bank2 has the environment and power stays   *)
(* on: the two banks implement one durable value (DurableEnv), and a read  *)
(* returns it.                                                             *)
(*                                                                         *)
(* The invariant has two parts.  Without a record in bank2, bank1 is a     *)
(* log: the valid records come first and nothing valid is behind them, so  *)
(* that a record written where the search ends becomes the last one        *)
(* (LogInv).  And what is left of a call goes with what flash holds        *)
(* (InitStage, SaveStage).  The operators have the banks as a parameter,   *)
(* so that they speak of flash before and after a step.                    *)
(***************************************************************************)
EXTENDS EnvStore, TLAPS

BankOK(bk) == bk \in [{1, 2} -> [Offsets -> Contents]]

\* The first n records of the bank b are valid, and no others.
Log(b, n) == n \in 0 .. Slots /\ \A k \in Offsets : b[k] \in Envs <=> k < n

\* SearchEnd and Stored, of any banks.
End(b) ==
  CHOOSE n \in 0 .. Slots :
    /\ \A k \in 0 .. n - 1 : b[k] \in Envs
    /\ n = Slots \/ ~(b[n] \in Envs)
StoredIn(bk) ==
  IF bk[2][0] \in Envs THEN bk[2][0]
  ELSE IF End(bk[1]) = 0 THEN None ELSE bk[1][End(bk[1]) - 1]

LogInv(bk) ==
  bk[2][0] \notin Envs /\ bk[1][0] \in Envs => \E n \in 1 .. Slots : Log(bk[1], n)

\* Between two calls bank1 has no environment while bank2 has one.
Settled(bk) == bk[2][0] \in Envs => bk[1][0] \notin Envs

\* What is left to do of bootloader_init, and what flash holds then.
InitStage(td, bk) ==
  \/ td = <<>> /\ Settled(bk)
  \/ \E v \in Envs :
       /\ bk[2][0] = v
       /\ \/ td = <<Erase(1), Write(1, 0, v), Erase(1)>>
          \/ td = <<Write(1, 0, v), Erase(1)>> /\ bk[1] = Blank
          \/ td = <<Erase(1)>>
  \/ /\ bk[2][0] \notin Envs /\ bk[1][0] \notin Envs
     /\ \/ td = <<Erase(1), Write(1, 0, Default)>>
        \/ td = <<Write(1, 0, Default)>> /\ bk[1] = Blank

\* What is left to do of a save of e, and what flash holds then.
SaveStage(td, bk, e) ==
  \/ td = <<>> /\ bk[2][0] \notin Envs /\ \E n \in 1 .. Slots : Log(bk[1], n) /\ bk[1][n - 1] = e
  \/ /\ bk[2][0] \notin Envs
     /\ \E k \in 1 .. Slots - 1 : Log(bk[1], k) /\ td = <<Write(1, k, e)>>
  \/ /\ bk[2][0] \notin Envs /\ Log(bk[1], Slots)
     /\ td = <<Erase(2), Write(2, 0, e), Erase(1), Write(1, 0, e), Erase(2)>>
  \/ /\ bk[2] = Blank /\ Log(bk[1], Slots)
     /\ td = <<Write(2, 0, e), Erase(1), Write(1, 0, e), Erase(2)>>
  \/ bk[2][0] = e /\ td = <<Erase(1), Write(1, 0, e), Erase(2)>>
  \/ bk[2][0] = e /\ bk[1] = Blank /\ td = <<Write(1, 0, e), Erase(2)>>
  \/ bk[2][0] = e /\ bk[1][0] = e /\ Log(bk[1], 1) /\ td = <<Erase(2)>>

StageInv ==
  \/ mode = "off" /\ todo = <<>> /\ saving = None
  \/ mode = "ready" /\ todo = <<>> /\ saving = None /\ Settled(bank)
  \/ mode = "init" /\ saving = None /\ InitStage(todo, bank)
  \/ mode = "save" /\ saving \in Envs /\ SaveStage(todo, bank, saving)

Inv == BankOK(bank) /\ LogInv(bank) /\ StageInv

-----------------------------------------------------------------------------
(***************************************************************************)
(* Banks and searches.                                                     *)
(***************************************************************************)
LEMMA Constants ==
  /\ Slots \in Nat \ {0} /\ 0 \in Offsets /\ Default \in Envs
  /\ Erased \notin Envs /\ Torn \notin Envs /\ None \notin Envs /\ Erased # Torn
  /\ Offsets \subseteq Nat
  BY EnvAssumption DEF EnvAssumption, Offsets

LEMMA SearchesAre ==
  /\ SearchEnd = End(bank[1]) /\ Stored = StoredIn(bank)
  /\ SearchEnd' = End(bank'[1]) /\ Stored' = StoredIn(bank')
  <1>1. SearchEnd = End(bank[1]) /\ SearchEnd' = End(bank'[1])
    BY DEF SearchEnd, End, Valid
  <1> QED  BY <1>1 DEF Stored, StoredIn, Valid

LEMMA EndOfLog ==
  ASSUME NEW b, NEW n, Log(b, n)
  PROVE  End(b) = n
  <1> DEFINE P(m) == (\A k \in 0 .. m - 1 : b[k] \in Envs) /\ (m = Slots \/ ~(b[m] \in Envs))
  <1>1. n \in 0 .. Slots /\ Slots \in Nat
    BY Constants DEF Log
  <1>2. \A k \in Offsets : b[k] \in Envs <=> k < n
    BY DEF Log
  <1>3. P(n)
    <2>1. \A k \in 0 .. n - 1 : b[k] \in Envs
      BY <1>1, <1>2 DEF Offsets
    <2>2. n # Slots => ~(b[n] \in Envs)
      BY <1>1, <1>2 DEF Offsets
    <2> QED  BY <2>1, <2>2
  <1>4. ASSUME NEW m \in 0 .. Slots, P(m)
        PROVE  m = n
    <2>1. ~(m < n)
      BY <1>1, <1>2, <1>4 DEF Offsets
    <2>2. ~(n < m)
      <3>1. n < m => b[n] \in Envs /\ n \in Offsets
        BY <1>1, <1>4 DEF Offsets
      <3> QED  BY <1>1, <1>2, <3>1
    <2> QED  BY <1>1, <2>1, <2>2
  <1>5. End(b) = CHOOSE m \in 0 .. Slots : P(m)
    BY DEF End
  <1> HIDE DEF P
  <1> QED  BY <1>1, <1>3, <1>4, <1>5

LEMMA EndOfNothing ==
  ASSUME NEW b, b[0] \notin Envs
  PROVE  End(b) = 0
  <1> DEFINE P(m) == (\A k \in 0 .. m - 1 : b[k] \in Envs) /\ (m = Slots \/ ~(b[m] \in Envs))
  <1>1. P(0)
    OBVIOUS
  <1>2. ASSUME NEW m \in 0 .. Slots, P(m)
        PROVE  m = 0
    BY <1>2, Constants
  <1>3. 0 \in 0 .. Slots
    BY Constants
  <1>4. End(b) = CHOOSE m \in 0 .. Slots : P(m)
    BY DEF End
  <1> HIDE DEF P
  <1> QED  BY <1>1, <1>2, <1>3, <1>4

\* The value of banks that hold something in bank2, nothing, or a log.
LEMMA StoredFirst ==
  ASSUME NEW bk, bk[2][0] \in Envs
  PROVE  StoredIn(bk) = bk[2][0]
  BY DEF StoredIn
LEMMA StoredNothing ==
  ASSUME NEW bk, bk[2][0] \notin Envs, bk[1][0] \notin Envs
  PROVE  StoredIn(bk) = None
  BY EndOfNothing DEF StoredIn
LEMMA StoredLast ==
  ASSUME NEW bk, bk[2][0] \notin Envs, NEW n \in 1 .. Slots, Log(bk[1], n)
  PROVE  StoredIn(bk) = bk[1][n - 1] /\ LogInv(bk)
  <1>1. End(bk[1]) = n /\ n # 0
    BY EndOfLog
  <1> QED  BY <1>1 DEF StoredIn, LogInv

LEMMA LogAppended ==
  ASSUME NEW b \in [Offsets -> Contents], NEW n \in 0 .. Slots - 1, Log(b, n), NEW e \in Envs
  PROVE  LET a == [b EXCEPT ![n] = e] IN Log(a, n + 1) /\ a[n] = e
  BY Constants DEF Log, Offsets

\* A record that is cut short leaves the log as it is.
LEMMA LogTorn ==
  ASSUME NEW b \in [Offsets -> Contents], NEW n \in 0 .. Slots - 1, Log(b, n)
  PROVE  LET a == [b EXCEPT ![n] = Torn]
         IN  Log(a, n) /\ \A k \in Offsets : k < n => a[k] = b[k]
  BY Constants DEF Log, Offsets

LEMMA BlankIs ==
  Blank \in [Offsets -> Contents] /\ Log(Blank, 0) /\ Blank[0] \notin Envs
  BY Constants DEF Blank, Contents, Log, Offsets

LEMMA BlankWritten ==
  ASSUME NEW e \in Envs
  PROVE  Log([Blank EXCEPT ![0] = e], 1) /\ [Blank EXCEPT ![0] = e][0] = e
  BY Constants, BlankIs DEF Log, Offsets

\* Heads and tails of the lists of operations.
LEMMA Lists ==
  \A u, v, w, x, y :
    /\ <<u>> # <<>> /\ Head(<<u>>) = u /\ Tail(<<u>>) = <<>>
    /\ <<u, v>> # <<>> /\ Head(<<u, v>>) = u /\ Tail(<<u, v>>) = <<v>>
    /\ <<u, v, w>> # <<>> /\ Head(<<u, v, w>>) = u /\ Tail(<<u, v, w>>) = <<v, w>>
    /\ <<u, v, w, x>> # <<>> /\ Head(<<u, v, w, x>>) = u /\ Tail(<<u, v, w, x>>) = <<v, w, x>>
    /\ <<u, v, w, x, y>> # <<>> /\ Head(<<u, v, w, x, y>>) = u
    /\ Tail(<<u, v, w, x, y>>) = <<v, w, x, y>>
  OBVIOUS

-----------------------------------------------------------------------------
(***************************************************************************)
(* The flash operations.                                                   *)
(***************************************************************************)
\* Of the banks only b changed, to c.
Changed(bk, gk, b, c) == gk[b] = c /\ \A d \in {1, 2} \ {b} : gk[d] = bk[d]

LEMMA BankChanged ==
  ASSUME NEW bk, BankOK(bk), NEW b \in {1, 2}, NEW c \in [Offsets -> Contents],
         NEW gk, gk = [bk EXCEPT ![b] = c]
  PROVE  BankOK(gk) /\ Changed(bk, gk, b, c)
  BY DEF BankOK, Changed

LEMMA OperationIs ==
  /\ \A b \in {1, 2} : Erase(b).op = "erase" /\ Erase(b).bank = b
  /\ \A b \in {1, 2} : \A k \in Offsets : \A e \in Envs :
       /\ Write(b, k, e).op = "write" /\ Write(b, k, e).bank = b
       /\ Write(b, k, e).offset = k /\ Write(b, k, e).env = e
  BY DEF Erase, Write

LEMMA ErasePerformed ==
  ASSUME BankOK(bank), FlashStep, NEW b \in {1, 2}, Head(todo) = Erase(b)
  PROVE  BankOK(bank') /\ Changed(bank, bank', b, Blank)
  <1>1. bank' = [bank EXCEPT ![b] = Blank]
    <2>1. bank' = [bank EXCEPT ![Erase(b).bank] = Performed(Erase(b))]
      BY DEF FlashStep
    <2>2. Erase(b).bank = b /\ Performed(Erase(b)) = Blank
      BY OperationIs DEF Performed
    <2> QED  BY <2>1, <2>2
  <1> QED  BY <1>1, BlankIs, BankChanged

LEMMA WritePerformed ==
  ASSUME BankOK(bank), FlashStep, NEW b \in {1, 2}, NEW k \in Offsets, NEW e \in Envs,
         Head(todo) = Write(b, k, e)
  PROVE  BankOK(bank') /\ Changed(bank, bank', b, [bank[b] EXCEPT ![k] = e])
  <1>1. bank' = [bank EXCEPT ![b] = [bank[b] EXCEPT ![k] = e]]
    <2>1. bank' = [bank EXCEPT ![Write(b, k, e).bank] = Performed(Write(b, k, e))]
      BY DEF FlashStep
    <2>2. Write(b, k, e).bank = b /\ Performed(Write(b, k, e)) = [bank[b] EXCEPT ![k] = e]
      BY OperationIs DEF Performed
    <2> QED  BY <2>1, <2>2
  <1>2. [bank[b] EXCEPT ![k] = e] \in [Offsets -> Contents]
    BY DEF BankOK, Contents
  <1> QED  BY <1>1, <1>2, BankChanged

LEMMA EraseInterrupted ==
  ASSUME BankOK(bank), Interrupt, todo # <<>>, NEW b \in {1, 2}, Head(todo) = Erase(b)
  PROVE  \E c \in [Offsets -> Contents] :
           /\ BankOK(bank') /\ Changed(bank, bank', b, c)
           /\ \A k \in Offsets : c[k] = bank[b][k] \/ c[k] \notin Envs
  <1>1. PICK c \in Interrupted(Erase(b)) : bank' = [bank EXCEPT ![b] = c]
    BY OperationIs DEF Interrupt
  <1>2. /\ c \in [Offsets -> Contents]
        /\ \A k \in Offsets : c[k] \in Disturbed(bank[b][k])
    BY <1>1, OperationIs DEF Interrupted, Refused
  <1>3. \A k \in Offsets : c[k] = bank[b][k] \/ c[k] \notin Envs
    BY <1>2, Constants DEF Disturbed
  <1> QED  BY <1>1, <1>2, <1>3, BankChanged

LEMMA WriteInterrupted ==
  ASSUME BankOK(bank), Interrupt, todo # <<>>, NEW b \in {1, 2}, NEW k \in Offsets,
         NEW e \in Envs, Head(todo) = Write(b, k, e)
  PROVE  \/ bank' = bank
         \/ BankOK(bank') /\ Changed(bank, bank', b, [bank[b] EXCEPT ![k] = Torn])
  <1>1. PICK c \in Interrupted(Write(b, k, e)) : bank' = [bank EXCEPT ![b] = c]
    BY OperationIs DEF Interrupt
  <1>2. c \in {bank[b], [bank[b] EXCEPT ![k] = Torn]}
    BY <1>1, OperationIs DEF Interrupted
  <1>3. CASE c = bank[b]
    BY <1>1, <1>3 DEF BankOK
  <1>4. CASE c = [bank[b] EXCEPT ![k] = Torn]
    <2>1. c \in [Offsets -> Contents]
      BY <1>4 DEF BankOK, Contents
    <2> QED  BY <1>1, <1>4, <2>1, BankChanged
  <1> QED  BY <1>2, <1>3, <1>4

-----------------------------------------------------------------------------
(***************************************************************************)
(* The steps of the store, and what each of them is for DurableEnv.        *)
(***************************************************************************)
LEMMA InitInv == Init => Inv /\ Stored = None
  <1> SUFFICES ASSUME Init PROVE Inv /\ Stored = None
    OBVIOUS
  <1>1. bank \in [{1, 2} -> [Offsets -> Contents]] /\ bank[1] = Blank /\ bank[2] = Blank
    BY BlankIs DEF Init
  <1>2. LogInv(bank) /\ StoredIn(bank) = None
    BY <1>1, BlankIs, StoredNothing DEF LogInv
  <1> QED  BY <1>1, <1>2, SearchesAre DEF Init, Inv, BankOK, StageInv

\* In the middle of bootloader_init the value stays, but for the first boot.
LEMMA InitFlashStep ==
  ASSUME Inv, FlashStep, mode = "init"
  PROVE  /\ Inv' /\ UNCHANGED <<mode, saving, ret>>
         /\ \/ Stored' = Stored
            \/ Stored = None /\ Stored' = Default
  <1>1. /\ BankOK(bank) /\ InitStage(todo, bank) /\ saving = None /\ todo # <<>>
        /\ todo' = Tail(todo) /\ UNCHANGED <<mode, saving, ret>>
    BY DEF Inv, StageInv, FlashStep
  <1>2. SUFFICES /\ BankOK(bank') /\ LogInv(bank') /\ InitStage(todo', bank')
                 /\ \/ StoredIn(bank') = StoredIn(bank)
                    \/ StoredIn(bank) = None /\ StoredIn(bank') = Default
    BY <1>1, SearchesAre DEF Inv, StageInv
  <1>3. ASSUME NEW v \in Envs, bank[2][0] = v,
               \/ todo = <<Erase(1), Write(1, 0, v), Erase(1)>>
               \/ todo = <<Write(1, 0, v), Erase(1)>> /\ bank[1] = Blank
               \/ todo = <<Erase(1)>>
        PROVE  /\ BankOK(bank') /\ bank'[2][0] = v
               /\ InitStage(todo', bank')
    <2>1. CASE todo = <<Erase(1), Write(1, 0, v), Erase(1)>>
      <3>1. Head(todo) = Erase(1) /\ todo' = <<Write(1, 0, v), Erase(1)>>
        BY <1>1, <2>1, Lists
      <3>2. BankOK(bank') /\ bank'[1] = Blank /\ bank'[2] = bank[2]
        BY <1>1, <3>1, ErasePerformed DEF Changed
      <3> QED  BY <1>3, <3>1, <3>2 DEF InitStage
    <2>2. CASE todo = <<Write(1, 0, v), Erase(1)>>
      <3>1. Head(todo) = Write(1, 0, v) /\ todo' = <<Erase(1)>>
        BY <1>1, <2>2, Lists
      <3>2. BankOK(bank') /\ Changed(bank, bank', 1, [bank[1] EXCEPT ![0] = v])
        BY <1>1, <3>1, Constants, WritePerformed
      <3>3. bank'[2] = bank[2]
        BY <3>2 DEF Changed
      <3> QED  BY <1>3, <3>1, <3>2, <3>3 DEF InitStage
    <2>3. CASE todo = <<Erase(1)>>
      <3>1. Head(todo) = Erase(1) /\ todo' = <<>>
        BY <1>1, <2>3, Lists
      <3>2. BankOK(bank') /\ bank'[1] = Blank /\ bank'[2] = bank[2]
        BY <1>1, <3>1, ErasePerformed DEF Changed
      <3> QED  BY <1>3, <3>1, <3>2, BlankIs DEF InitStage, Settled
    <2> QED  BY <1>3, <2>1, <2>2, <2>3
  <1>4. CASE bank[2][0] \in Envs
    <2>1. PICK v \in Envs :
            /\ bank[2][0] = v
            /\ \/ todo = <<Erase(1), Write(1, 0, v), Erase(1)>>
               \/ todo = <<Write(1, 0, v), Erase(1)>> /\ bank[1] = Blank
               \/ todo = <<Erase(1)>>
      BY <1>1, <1>4 DEF InitStage
    <2>2. BankOK(bank') /\ bank'[2][0] = v /\ InitStage(todo', bank')
      BY <1>3, <2>1
    <2> QED  BY <2>1, <2>2, StoredFirst DEF LogInv
  <1>5. CASE bank[2][0] \notin Envs
    <2>1. /\ bank[1][0] \notin Envs
          /\ \/ todo = <<Erase(1), Write(1, 0, Default)>>
             \/ todo = <<Write(1, 0, Default)>> /\ bank[1] = Blank
      BY <1>1, <1>5 DEF InitStage
    <2>2. StoredIn(bank) = None
      BY <1>5, <2>1, StoredNothing
    <2>3. CASE todo = <<Erase(1), Write(1, 0, Default)>>
      <3>1. Head(todo) = Erase(1) /\ todo' = <<Write(1, 0, Default)>>
        BY <1>1, <2>3, Lists
      <3>2. BankOK(bank') /\ bank'[1] = Blank /\ bank'[2] = bank[2]
        BY <1>1, <3>1, ErasePerformed DEF Changed
      <3>3. InitStage(todo', bank') /\ LogInv(bank')
        BY <1>5, <3>1, <3>2, BlankIs DEF InitStage, LogInv
      <3>4. StoredIn(bank') = None
        BY <1>5, <3>2, BlankIs, StoredNothing
      <3> QED  BY <2>2, <3>2, <3>3, <3>4
    <2>4. CASE todo = <<Write(1, 0, Default)>> /\ bank[1] = Blank
      <3>1. Head(todo) = Write(1, 0, Default) /\ todo' = <<>>
        BY <1>1, <2>4, Lists
      <3>2. BankOK(bank') /\ Changed(bank, bank', 1, [bank[1] EXCEPT ![0] = Default])
        BY <1>1, <3>1, Constants, WritePerformed
      <3>3. /\ bank'[2] = bank[2] /\ Log(bank'[1], 1) /\ bank'[1][0] = Default
            /\ 1 \in 1 .. Slots /\ 1 - 1 = 0
        BY <2>4, <3>2, BlankWritten, Constants DEF Changed
      <3>4. StoredIn(bank') = Default /\ LogInv(bank')
        BY <1>5, <3>3, StoredLast
      <3>5. InitStage(todo', bank')
        BY <1>5, <3>1, <3>3, Constants DEF InitStage, Settled
      <3> QED  BY <2>2, <3>2, <3>4, <3>5
    <2> QED  BY <2>1, <2>3, <2>4
  <1> QED  BY <1>4, <1>5

\* In the middle of a save the value is the old one until the record is written, in
\* bank1 or, while bank1 is full, in bank2; then it is the new one.
LEMMA SaveFlashStep ==
  ASSUME Inv, FlashStep, mode = "save"
  PROVE  /\ Inv' /\ UNCHANGED <<mode, saving, ret>>
         /\ Stored' \in {Stored, saving}
  <1> DEFINE e == saving
  <1>1. /\ BankOK(bank) /\ SaveStage(todo, bank, e) /\ e \in Envs /\ todo # <<>>
        /\ todo' = Tail(todo) /\ UNCHANGED <<mode, saving, ret>>
    BY DEF Inv, StageInv, FlashStep
  <1>2. /\ bank[1] \in [Offsets -> Contents] /\ bank[2] \in [Offsets -> Contents]
        /\ Slots \in Nat \ {0} /\ Slots \in 1 .. Slots /\ 1 \in 1 .. Slots /\ 1 - 1 = 0
    BY <1>1, Constants DEF BankOK
  <1>3. SUFFICES /\ BankOK(bank') /\ LogInv(bank') /\ SaveStage(todo', bank', e)
                 /\ StoredIn(bank') \in {StoredIn(bank), e}
    BY <1>1, SearchesAre DEF Inv, StageInv
  <1> HIDE DEF e
  <1>4. CASE bank[2][0] \notin Envs /\ \E k \in 1 .. Slots - 1 : Log(bank[1], k) /\ todo = <<Write(1, k, e)>>
    <2>1. PICK k \in 1 .. Slots - 1 : Log(bank[1], k) /\ todo = <<Write(1, k, e)>>
      BY <1>4
    <2>2. k \in Offsets /\ k \in 0 .. Slots - 1 /\ k + 1 \in 1 .. Slots /\ (k + 1) - 1 = k
      BY <1>2 DEF Offsets
    <2>3. Head(todo) = Write(1, k, e) /\ todo' = <<>>
      BY <1>1, <2>1, Lists
    <2>4. BankOK(bank') /\ Changed(bank, bank', 1, [bank[1] EXCEPT ![k] = e])
      BY <1>1, <2>2, <2>3, WritePerformed
    <2>5. bank'[2] = bank[2] /\ bank'[1] = [bank[1] EXCEPT ![k] = e]
      BY <2>4 DEF Changed
    <2>6. Log(bank'[1], k + 1) /\ bank'[1][k] = e
      BY <1>1, <1>2, <2>1, <2>2, <2>5, LogAppended
    <2>7. StoredIn(bank') = e /\ LogInv(bank')
      <3>1. StoredIn(bank') = bank'[1][(k + 1) - 1] /\ LogInv(bank')
        BY <1>4, <2>2, <2>5, <2>6, StoredLast
      <3> QED  BY <2>2, <2>6, <3>1
    <2>8. SaveStage(todo', bank', e)
      BY <1>4, <2>2, <2>3, <2>5, <2>6 DEF SaveStage
    <2> QED  BY <2>4, <2>7, <2>8
  <1>5. CASE /\ bank[2][0] \notin Envs /\ Log(bank[1], Slots)
             /\ todo = <<Erase(2), Write(2, 0, e), Erase(1), Write(1, 0, e), Erase(2)>>
    <2>1. Head(todo) = Erase(2) /\ todo' = <<Write(2, 0, e), Erase(1), Write(1, 0, e), Erase(2)>>
      BY <1>1, <1>5, Lists
    <2>2. BankOK(bank') /\ bank'[2] = Blank /\ bank'[1] = bank[1]
      BY <1>1, <2>1, ErasePerformed DEF Changed
    <2>3. StoredIn(bank') = StoredIn(bank) /\ LogInv(bank')
      BY <1>2, <1>5, <2>2, BlankIs, StoredLast
    <2> QED  BY <1>5, <2>1, <2>2, <2>3 DEF SaveStage
  <1>6. CASE /\ bank[2] = Blank /\ Log(bank[1], Slots)
             /\ todo = <<Write(2, 0, e), Erase(1), Write(1, 0, e), Erase(2)>>
    <2>1. Head(todo) = Write(2, 0, e) /\ todo' = <<Erase(1), Write(1, 0, e), Erase(2)>>
      BY <1>1, <1>6, Lists
    <2>2. BankOK(bank') /\ Changed(bank, bank', 2, [bank[2] EXCEPT ![0] = e])
      BY <1>1, <2>1, Constants, WritePerformed
    <2>3. bank'[2][0] = e
      <3>1. bank'[2] = [Blank EXCEPT ![0] = e]
        BY <1>6, <2>2 DEF Changed
      <3> QED  BY <1>1, <3>1, BlankWritten
    <2>4. StoredIn(bank') = e /\ LogInv(bank')
      BY <1>1, <2>3, StoredFirst DEF LogInv
    <2> QED  BY <2>1, <2>2, <2>3, <2>4 DEF SaveStage
  <1>7. CASE bank[2][0] = e /\ todo = <<Erase(1), Write(1, 0, e), Erase(2)>>
    <2>1. Head(todo) = Erase(1) /\ todo' = <<Write(1, 0, e), Erase(2)>>
      BY <1>1, <1>7, Lists
    <2>2. BankOK(bank') /\ bank'[1] = Blank /\ bank'[2] = bank[2]
      BY <1>1, <2>1, ErasePerformed DEF Changed
    <2>3. StoredIn(bank') = e /\ LogInv(bank')
      BY <1>1, <1>7, <2>2, StoredFirst DEF LogInv
    <2> QED  BY <1>7, <2>1, <2>2, <2>3 DEF SaveStage
  <1>8. CASE bank[2][0] = e /\ bank[1] = Blank /\ todo = <<Write(1, 0, e), Erase(2)>>
    <2>1. Head(todo) = Write(1, 0, e) /\ todo' = <<Erase(2)>>
      BY <1>1, <1>8, Lists
    <2>2. BankOK(bank') /\ Changed(bank, bank', 1, [bank[1] EXCEPT ![0] = e])
      BY <1>1, <2>1, Constants, WritePerformed
    <2>3. bank'[2] = bank[2] /\ Log(bank'[1], 1) /\ bank'[1][0] = e
      BY <1>1, <1>8, <2>2, BlankWritten DEF Changed
    <2>4. StoredIn(bank') = e /\ LogInv(bank')
      BY <1>1, <1>8, <2>3, StoredFirst DEF LogInv
    <2> QED  BY <1>8, <2>1, <2>2, <2>3, <2>4 DEF SaveStage
  <1>9. CASE bank[2][0] = e /\ bank[1][0] = e /\ Log(bank[1], 1) /\ todo = <<Erase(2)>>
    <2>1. Head(todo) = Erase(2) /\ todo' = <<>>
      BY <1>1, <1>9, Lists
    <2>2. BankOK(bank') /\ bank'[2] = Blank /\ bank'[1] = bank[1]
      BY <1>1, <2>1, ErasePerformed DEF Changed
    <2>3. StoredIn(bank') = e /\ LogInv(bank')
      BY <1>2, <1>9, <2>2, BlankIs, StoredLast
    <2>4. SaveStage(todo', bank', e)
      BY <1>2, <1>9, <2>1, <2>2, BlankIs DEF SaveStage
    <2> QED  BY <2>2, <2>3, <2>4
  <1> QED  BY <1>1, <1>4, <1>5, <1>6, <1>7, <1>8, <1>9 DEF SaveStage

-----------------------------------------------------------------------------
(***************************************************************************)
(* Operations that are cut short or fail.                                  *)
(***************************************************************************)
\* What is left of the banks holds the same value.
LEMMA InterruptKeeps ==
  ASSUME Inv, Interrupt, mode # "off"
  PROVE  BankOK(bank') /\ LogInv(bank') /\ StoredIn(bank') = StoredIn(bank)
  <1>1. BankOK(bank) /\ LogInv(bank) /\ StageInv /\ Interrupt /\ mode # "off"
    BY DEF Inv
  <1>2. /\ bank[1] \in [Offsets -> Contents] /\ bank[2] \in [Offsets -> Contents]
        /\ Slots \in Nat \ {0} /\ Slots \in 1 .. Slots /\ 1 \in 1 .. Slots /\ 1 - 1 = 0
        /\ 0 \in Offsets
    BY <1>1, Constants DEF BankOK
  <1>4. CASE bank' = bank
    BY <1>1, <1>4
  \* What a cut leaves of bank1 does not matter while bank2 has the environment.
  <1>5. ASSUME bank[2][0] \in Envs, todo # <<>>,
               \/ Head(todo) = Erase(1)
               \/ \E e \in Envs : Head(todo) = Write(1, 0, e)
        PROVE  BankOK(bank') /\ LogInv(bank') /\ StoredIn(bank') = StoredIn(bank)
    <2>1. bank' = bank \/ (BankOK(bank') /\ bank'[2] = bank[2])
      <3>1. CASE Head(todo) = Erase(1)
        <4>1. PICK c : BankOK(bank') /\ Changed(bank, bank', 1, c)
          BY <1>1, <1>5, <3>1, EraseInterrupted
        <4> QED  BY <4>1 DEF Changed
      <3>2. ASSUME NEW e \in Envs, Head(todo) = Write(1, 0, e)
            PROVE  bank' = bank \/ (BankOK(bank') /\ bank'[2] = bank[2])
        <4>1. \/ bank' = bank
              \/ BankOK(bank') /\ Changed(bank, bank', 1, [bank[1] EXCEPT ![0] = Torn])
          BY <1>1, <1>2, <1>5, <3>2, WriteInterrupted
        <4> QED  BY <4>1 DEF Changed
      <3> QED  BY <1>5, <3>1, <3>2
    <2> QED  BY <1>1, <1>5, <2>1, StoredFirst DEF LogInv
  <1>6. CASE mode = "init" /\ todo # <<>>
    <2>1. CASE bank[2][0] \in Envs
      <3>1. PICK v \in Envs :
              \/ todo = <<Erase(1), Write(1, 0, v), Erase(1)>>
              \/ todo = <<Write(1, 0, v), Erase(1)>>
              \/ todo = <<Erase(1)>>
        BY <1>1, <1>6, <2>1 DEF StageInv, InitStage
      <3>2. Head(todo) = Erase(1) \/ Head(todo) = Write(1, 0, v)
        BY <3>1, Lists
      <3> QED  BY <1>5, <1>6, <2>1, <3>2
    <2>2. CASE bank[2][0] \notin Envs
      <3>1. /\ bank[1][0] \notin Envs
            /\ \/ todo = <<Erase(1), Write(1, 0, Default)>>
               \/ todo = <<Write(1, 0, Default)>>
        BY <1>1, <1>6, <2>2 DEF StageInv, InitStage
      <3>2. SUFFICES BankOK(bank') /\ bank'[2] = bank[2] /\ bank'[1][0] \notin Envs
        BY <2>2, <3>1, StoredNothing DEF LogInv
      <3>3. CASE todo = <<Erase(1), Write(1, 0, Default)>>
        <4>1. Head(todo) = Erase(1)
          BY <3>3, Lists
        <4>2. PICK c \in [Offsets -> Contents] :
                /\ BankOK(bank') /\ Changed(bank, bank', 1, c)
                /\ \A k \in Offsets : c[k] = bank[1][k] \/ c[k] \notin Envs
          BY <1>1, <1>6, <4>1, EraseInterrupted
        <4> QED  BY <1>2, <3>1, <4>2 DEF Changed
      <3>4. CASE todo = <<Write(1, 0, Default)>>
        <4>1. Head(todo) = Write(1, 0, Default)
          BY <3>4, Lists
        <4>2. \/ bank' = bank
              \/ BankOK(bank') /\ Changed(bank, bank', 1, [bank[1] EXCEPT ![0] = Torn])
          BY <1>1, <1>2, <1>6, <4>1, Constants, WriteInterrupted
        <4> QED  BY <1>1, <1>2, <3>1, <4>2, Constants DEF Changed
      <3> QED  BY <3>1, <3>3, <3>4
    <2> QED  BY <2>1, <2>2
  <1>7. CASE mode = "save" /\ todo # <<>>
    <2> DEFINE e == saving
    <2>1. e \in Envs /\ SaveStage(todo, bank, e)
      BY <1>1, <1>7 DEF StageInv
    <2> HIDE DEF e
    <2>2. CASE bank[2][0] \notin Envs /\ \E k \in 1 .. Slots - 1 : Log(bank[1], k) /\ todo = <<Write(1, k, e)>>
      <3>1. PICK k \in 1 .. Slots - 1 : Log(bank[1], k) /\ todo = <<Write(1, k, e)>>
        BY <2>2
      <3>2. /\ k \in Offsets /\ k \in 0 .. Slots - 1 /\ k \in 1 .. Slots
            /\ k - 1 \in Offsets /\ k - 1 < k
        BY <1>2 DEF Offsets
      <3>3. Head(todo) = Write(1, k, e)
        BY <3>1, Lists
      <3>4. \/ bank' = bank
            \/ BankOK(bank') /\ Changed(bank, bank', 1, [bank[1] EXCEPT ![k] = Torn])
        BY <1>1, <1>7, <2>1, <3>2, <3>3, WriteInterrupted
      <3>5. CASE BankOK(bank') /\ Changed(bank, bank', 1, [bank[1] EXCEPT ![k] = Torn])
        <4>1. bank'[2] = bank[2] /\ bank'[1] = [bank[1] EXCEPT ![k] = Torn]
          BY <3>5 DEF Changed
        <4>2. Log(bank'[1], k) /\ bank'[1][k - 1] = bank[1][k - 1]
          BY <1>2, <3>1, <3>2, <4>1, LogTorn
        <4>3. StoredIn(bank') = bank'[1][k - 1] /\ LogInv(bank') /\ StoredIn(bank) = bank[1][k - 1]
          BY <2>2, <3>1, <3>2, <4>1, <4>2, StoredLast
        <4> QED  BY <3>5, <4>2, <4>3
      <3> QED  BY <1>4, <3>4, <3>5
    <2>3. CASE /\ bank[2][0] \notin Envs /\ Log(bank[1], Slots)
               /\ todo = <<Erase(2), Write(2, 0, e), Erase(1), Write(1, 0, e), Erase(2)>>
      <3>1. Head(todo) = Erase(2)
        BY <2>3, Lists
      <3>2. PICK c \in [Offsets -> Contents] :
              /\ BankOK(bank') /\ Changed(bank, bank', 2, c)
              /\ \A k \in Offsets : c[k] = bank[2][k] \/ c[k] \notin Envs
        BY <1>1, <1>7, <3>1, EraseInterrupted
      <3>3. bank'[1] = bank[1] /\ bank'[2][0] \notin Envs
        BY <1>2, <2>3, <3>2 DEF Changed
      <3>4. /\ StoredIn(bank') = bank'[1][Slots - 1] /\ LogInv(bank')
            /\ StoredIn(bank) = bank[1][Slots - 1]
        BY <1>2, <2>3, <3>3, StoredLast
      <3> QED  BY <3>2, <3>3, <3>4
    <2>4. CASE /\ bank[2] = Blank /\ Log(bank[1], Slots)
               /\ todo = <<Write(2, 0, e), Erase(1), Write(1, 0, e), Erase(2)>>
      <3>1. Head(todo) = Write(2, 0, e)
        BY <2>4, Lists
      <3>2. \/ bank' = bank
            \/ BankOK(bank') /\ Changed(bank, bank', 2, [bank[2] EXCEPT ![0] = Torn])
        BY <1>1, <1>2, <1>7, <2>1, <3>1, WriteInterrupted
      <3>3. CASE BankOK(bank') /\ Changed(bank, bank', 2, [bank[2] EXCEPT ![0] = Torn])
        <4>1. bank'[1] = bank[1] /\ bank'[2][0] \notin Envs /\ bank[2][0] \notin Envs
          BY <1>2, <2>4, <3>3, Constants, BlankIs DEF Changed
        <4>2. /\ StoredIn(bank') = bank'[1][Slots - 1] /\ LogInv(bank')
              /\ StoredIn(bank) = bank[1][Slots - 1]
          BY <1>2, <2>4, <4>1, StoredLast
        <4> QED  BY <3>3, <4>1, <4>2
      <3> QED  BY <1>4, <3>2, <3>3
    <2>5. CASE bank[2][0] = e /\ todo = <<Erase(1), Write(1, 0, e), Erase(2)>>
      <3>1. Head(todo) = Erase(1)
        BY <2>5, Lists
      <3> QED  BY <1>5, <1>7, <2>1, <2>5, <3>1
    <2>6. CASE bank[2][0] = e /\ bank[1] = Blank /\ todo = <<Write(1, 0, e), Erase(2)>>
      <3>1. Head(todo) = Write(1, 0, e)
        BY <2>6, Lists
      <3> QED  BY <1>5, <1>7, <2>1, <2>6, <3>1
    <2>7. CASE bank[2][0] = e /\ bank[1][0] = e /\ Log(bank[1], 1) /\ todo = <<Erase(2)>>
      <3>1. Head(todo) = Erase(2)
        BY <2>7, Lists
      <3>2. PICK c \in [Offsets -> Contents] :
              /\ BankOK(bank') /\ Changed(bank, bank', 2, c)
              /\ \A k \in Offsets : c[k] = bank[2][k] \/ c[k] \notin Envs
        BY <1>1, <1>7, <3>1, EraseInterrupted
      <3>3. bank'[1] = bank[1] /\ (bank'[2][0] = e \/ bank'[2][0] \notin Envs)
        BY <1>2, <2>7, <3>2 DEF Changed
      <3>4. StoredIn(bank') = e /\ LogInv(bank')
        <4>1. CASE bank'[2][0] = e
          BY <2>1, <4>1, StoredFirst DEF LogInv
        <4>2. CASE bank'[2][0] \notin Envs
          <5>1. Log(bank'[1], 1) /\ bank'[1][0] = e
            BY <2>7, <3>3
          <5> QED  BY <1>2, <4>2, <5>1, StoredLast
        <4> QED  BY <3>3, <4>1, <4>2
      <3>5. StoredIn(bank) = e
        BY <2>1, <2>7, StoredFirst
      <3> QED  BY <3>2, <3>4, <3>5
    <2> QED  BY <1>7, <2>1, <2>2, <2>3, <2>4, <2>5, <2>6, <2>7 DEF SaveStage
  <1>8. CASE todo = <<>>
    BY <1>1, <1>4, <1>8 DEF Interrupt
  <1> QED  BY <1>1, <1>6, <1>7, <1>8 DEF StageInv

-----------------------------------------------------------------------------
(***************************************************************************)
(* The calls and their ends.                                               *)
(***************************************************************************)
LEMMA PowerOnStep ==
  ASSUME Inv, PowerOn
  PROVE  Inv'
  <1>1. /\ BankOK(bank) /\ LogInv(bank) /\ saving = None
        /\ mode' = "init" /\ todo' = InitOps /\ UNCHANGED <<bank, saving, ret>>
    BY DEF Inv, StageInv, PowerOn
  <1>2. InitStage(InitOps, bank)
    BY DEF InitOps, InitStage, Valid, Settled
  <1> QED  BY <1>1, <1>2 DEF Inv, StageInv

LEMMA InitReturnsStep ==
  ASSUME Inv, InitReturns
  PROVE  Inv'
  <1>1. /\ BankOK(bank) /\ LogInv(bank) /\ saving = None /\ InitStage(todo, bank)
        /\ todo = <<>> /\ mode' = "ready" /\ UNCHANGED <<bank, todo, saving, ret>>
    BY DEF Inv, StageInv, InitReturns
  <1>2. Settled(bank)
    BY <1>1, Lists DEF InitStage
  <1> QED  BY <1>1, <1>2 DEF Inv, StageInv

\* A save appends to bank1, or flushes a full bank1 through bank2.
LEMMA SaveStep ==
  ASSUME Inv, NEW e \in Envs, Save(e)
  PROVE  Inv' /\ saving = None
  <1>1. /\ BankOK(bank) /\ LogInv(bank) /\ saving = None /\ Settled(bank)
        /\ SearchEnd # 0 /\ UNCHANGED bank
        /\ mode' = "save" /\ todo' = SaveOps(e) /\ saving' = e
    BY DEF Inv, StageInv, Save
  <1>2. bank[1][0] \in Envs /\ bank[2][0] \notin Envs
    BY <1>1, SearchesAre, EndOfNothing DEF Settled
  <1>3. PICK n \in 1 .. Slots : Log(bank[1], n)
    BY <1>1, <1>2 DEF LogInv
  <1>4. SearchEnd = n
    BY <1>3, SearchesAre, EndOfLog
  <1>5. n = Slots \/ n \in 1 .. Slots - 1
    BY Constants
  <1>6. SaveStage(SaveOps(e), bank, e)
    BY <1>2, <1>3, <1>4, <1>5 DEF SaveOps, FlushEnv, SaveStage
  <1> QED  BY <1>1, <1>6 DEF Inv, StageInv

LEMMA SaveReturnsStep ==
  ASSUME Inv, SaveReturns
  PROVE  Inv' /\ saving \in Envs /\ Stored = saving /\ Stored' = Stored
  <1>1. /\ BankOK(bank) /\ LogInv(bank) /\ saving \in Envs /\ SaveStage(todo, bank, saving)
        /\ todo = <<>> /\ mode' = "ready" /\ saving' = None /\ UNCHANGED <<bank, todo>>
    BY DEF Inv, StageInv, SaveReturns
  <1>2. bank[2][0] \notin Envs /\ \E n \in 1 .. Slots : Log(bank[1], n) /\ bank[1][n - 1] = saving
    BY <1>1, Lists DEF SaveStage
  <1>3. PICK n \in 1 .. Slots : Log(bank[1], n) /\ bank[1][n - 1] = saving
    BY <1>2
  <1>4. StoredIn(bank) = saving
    BY <1>2, <1>3, StoredLast
  <1>5. Settled(bank)
    BY <1>2, <1>3, Constants DEF Settled, Log
  <1> QED  BY <1>1, <1>4, <1>5, SearchesAre DEF Inv, StageInv

\* While bank2 has an environment flash refuses nothing that a call does.
LEMMA NothingRefused ==
  ASSUME Inv, todo # <<>>, Refused(Head(todo))
  PROVE  bank[2][0] \notin Envs
  <1> SUFFICES ASSUME bank[2][0] \in Envs
               PROVE  FALSE
    OBVIOUS
  <1>1. \A b \in {1, 2} : Head(todo) # Erase(b)
    BY OperationIs DEF Refused
  <1>2. ASSUME NEW e \in Envs, bank[1] = Blank
        PROVE  Head(todo) # Write(1, 0, e)
    BY <1>2, OperationIs, Constants DEF Refused, Blank
  <1>3. \/ mode = "init" /\ InitStage(todo, bank)
        \/ mode = "save" /\ saving \in Envs /\ SaveStage(todo, bank, saving)
    BY DEF Inv, StageInv
  <1>4. ASSUME InitStage(todo, bank)
        PROVE  FALSE
    <2>1. PICK v \in Envs :
            \/ todo = <<Erase(1), Write(1, 0, v), Erase(1)>>
            \/ todo = <<Write(1, 0, v), Erase(1)>> /\ bank[1] = Blank
            \/ todo = <<Erase(1)>>
      BY <1>4 DEF InitStage
    <2> QED  BY <1>1, <1>2, <2>1, Lists
  <1>5. ASSUME NEW e \in Envs, SaveStage(todo, bank, e)
        PROVE  FALSE
    <2>1. \/ todo = <<Erase(1), Write(1, 0, e), Erase(2)>>
          \/ todo = <<Write(1, 0, e), Erase(2)>> /\ bank[1] = Blank
          \/ todo = <<Erase(2)>>
      BY <1>5, BlankIs DEF SaveStage
    <2> QED  BY <1>1, <1>2, <2>1, Lists
  <1> QED  BY <1>3, <1>4, <1>5

LEMMA PowerCutStep ==
  ASSUME Inv, PowerCut
  PROVE  Inv' /\ Stored' = Stored
  <1>1. Interrupt /\ mode # "off" /\ mode' = "off" /\ todo' = <<>> /\ saving' = None
    BY DEF PowerCut
  <1> QED  BY <1>1, InterruptKeeps, SearchesAre DEF Inv, StageInv

LEMMA CallFailsStep ==
  ASSUME Inv, CallFails, ~Failures
  PROVE  Inv' /\ Stored' = Stored
  <1>1. /\ todo # <<>>
        /\ Refused(Head(todo)) \/ ~Valid(2, 0)
        /\ Interrupt /\ mode' = "ready" /\ saving' = None /\ todo' = <<>>
    BY DEF CallFails
  <1>2. mode # "off" /\ BankOK(bank)
    BY <1>1 DEF Inv, StageInv
  <1>3. BankOK(bank') /\ LogInv(bank') /\ StoredIn(bank') = StoredIn(bank)
    BY <1>1, <1>2, InterruptKeeps
  <1>4. bank[2][0] \notin Envs
    BY <1>1, NothingRefused DEF Valid
  \* An operation that fails never leaves a record in bank2.
  <1>5. bank'[2][0] \notin Envs
    <2> DEFINE o == Head(todo)
    <2>1. PICK c \in Interrupted(o) : bank' = [bank EXCEPT ![o.bank] = c]
      BY <1>1 DEF Interrupt
    <2> HIDE DEF o
    <2>2. bank[2] \in [Offsets -> Contents] /\ 0 \in Offsets
      BY <1>2, Constants DEF BankOK
    <2>3. CASE o.bank = 2
      <3>1. bank'[2] = c
        BY <1>2, <2>1, <2>3 DEF BankOK
      <3>2. c[0] \in {bank[2][0], Torn, Erased}
        <4>1. CASE Refused(o)
          BY <2>1, <2>3, <4>1 DEF Interrupted
        <4>2. CASE ~Refused(o) /\ o.op = "write"
          <5>1. c = bank[2] \/ c = [bank[2] EXCEPT ![o.offset] = Torn]
            BY <2>1, <2>3, <4>2 DEF Interrupted
          <5> QED  BY <2>2, <5>1
        <4>3. CASE ~Refused(o) /\ o.op # "write"
          <5>1. c[0] \in Disturbed(bank[2][0])
            BY <2>1, <2>2, <2>3, <4>3 DEF Interrupted
          <5> QED  BY <5>1 DEF Disturbed
        <4> QED  BY <4>1, <4>2, <4>3
      <3> QED  BY <1>4, <3>1, <3>2, Constants
    <2>4. CASE o.bank # 2
      BY <1>2, <1>4, <2>1, <2>4 DEF BankOK
    <2> QED  BY <2>3, <2>4
  <1> QED  BY <1>1, <1>3, <1>5, SearchesAre DEF Inv, StageInv, Settled

-----------------------------------------------------------------------------
\* Every step keeps the invariant and is a step of DurableEnv or changes nothing of it.
LEMMA NextStep ==
  ASSUME ~Failures, Inv, [Next]_vars
  PROVE  Inv' /\ [Register!RegisterNext]_<<Stored, saving, ret>>
  <1>1. CASE PowerOn
    <2>1. Stored' = Stored /\ UNCHANGED <<saving, ret>>
      BY <1>1, SearchesAre DEF PowerOn
    <2> QED  BY <1>1, <2>1, PowerOnStep
  <1>2. CASE InitReturns
    <2>1. Stored' = Stored /\ UNCHANGED <<saving, ret>>
      BY <1>2, SearchesAre DEF InitReturns
    <2> QED  BY <1>2, <2>1, InitReturnsStep
  <1>3. ASSUME NEW e \in Envs, Save(e)
        PROVE  Inv' /\ Register!Begin(e)
    <2>1. Inv' /\ saving = None
      BY <1>3, SaveStep
    <2>2. Stored' = Stored /\ saving' = e /\ ret' = "none"
      BY <1>3, SearchesAre DEF Save
    <2> QED  BY <2>1, <2>2 DEF Register!Begin
  <1>4. CASE FlashStep
    <2>1. mode \in {"init", "save"}
      BY <1>4 DEF Inv, StageInv, FlashStep
    <2>2. CASE mode = "init"
      <3>1. /\ Inv' /\ UNCHANGED <<saving, ret>>
            /\ Stored' = Stored \/ (Stored = None /\ Stored' = Default)
        BY <1>4, <2>2, InitFlashStep
      <3> QED  BY <3>1 DEF Register!RegisterNext, Register!FirstBoot
    <2>3. CASE mode = "save"
      <3>1. Inv' /\ UNCHANGED <<saving, ret>> /\ Stored' \in {Stored, saving}
        BY <1>4, <2>3, SaveFlashStep
      <3>2. saving # None
        BY <2>3, Constants DEF Inv, StageInv
      <3> QED  BY <3>1, <3>2 DEF Register!RegisterNext, Register!Commit
    <2> QED  BY <2>1, <2>2, <2>3
  <1>5. CASE SaveReturns
    <2>1. Inv' /\ saving \in Envs /\ Stored = saving /\ Stored' = Stored
      BY <1>5, SaveReturnsStep
    <2>2. Register!Succeed
      BY <1>5, <2>1, Constants DEF SaveReturns, Register!Succeed
    <2> QED  BY <2>1, <2>2 DEF Register!RegisterNext
  <1>6. CASE CallFails
    <2>1. Inv' /\ Stored' = Stored
      BY <1>6, CallFailsStep
    <2>2. Register!Fail
      BY <1>6, <2>1 DEF CallFails, Register!Fail
    <2> QED  BY <2>1, <2>2 DEF Register!RegisterNext
  <1>7. CASE PowerCut
    <2>1. Inv' /\ Stored' = Stored
      BY <1>7, PowerCutStep
    <2>2. Register!Cut
      BY <1>7, <2>1 DEF PowerCut, Register!Cut
    <2> QED  BY <2>1, <2>2 DEF Register!RegisterNext
  <1>8. CASE UNCHANGED vars
    <2>1. UNCHANGED <<bank, mode, todo, saving, ret>>
      BY <1>8 DEF vars
    <2>2. Inv'
      BY <2>1 DEF Inv, StageInv
    <2> QED  BY <2>1, <2>2, SearchesAre
  <1> QED  BY <1>1, <1>2, <1>3, <1>4, <1>5, <1>6, <1>7, <1>8
           DEF Next, Register!RegisterNext

\* The invariant holds in every behaviour in which no flash operation fails while
\* bank2 has the environment.
THEOREM StoreIsSafe ==
  ASSUME ~Failures
  PROVE  Spec => []Inv
  BY InitInv, NextStep, PTL DEF Spec

\* The two banks and the calls of bootloader_if.c implement one durable value,
\* whatever the size of the banks, wherever power is cut and whichever operation fails
\* while bank2 has no environment: an environment is saved as a whole or not at all, and
\* it is saved once bootloader_save_env has returned 0.
THEOREM BanksImplementRegister ==
  ASSUME ~Failures
  PROVE  Spec => ImplementsRegister
  <1>1. Init => Register!RegisterInit
    <2>1. Init => Stored = None
      BY InitInv
    <2> QED  BY <2>1 DEF Init, Register!RegisterInit
  <1>2. Inv /\ [Next]_vars => [Register!RegisterNext]_<<Stored, saving, ret>>
    BY NextStep
  <1> QED  BY <1>1, <1>2, StoreIsSafe, PTL DEF Spec, ImplementsRegister, Register!RegisterSpec

\* What bootloader_get_env returns is what a restart would find, or an error.
THEOREM ReadsAreCurrent ==
  ASSUME ~Failures
  PROVE  Spec => []ReadIsCurrent
  <1>1. Inv => ReadIsCurrent
    <2> SUFFICES ASSUME Inv, mode = "ready" PROVE GetEnv \in {Stored, Error}
      BY DEF ReadIsCurrent
    <2>1. Settled(bank) /\ LogInv(bank)
      BY DEF Inv, StageInv
    <2>2. CASE bank[2][0] \in Envs
      <3>1. SearchEnd = 0
        BY <2>1, <2>2, SearchesAre, EndOfNothing DEF Settled
      <3> QED  BY <3>1 DEF GetEnv
    <2>3. CASE bank[2][0] \notin Envs
      BY <2>3, SearchesAre DEF GetEnv, StoredIn
    <2> QED  BY <2>2, <2>3
  <1> QED  BY <1>1, StoreIsSafe, PTL
=============================================================================
