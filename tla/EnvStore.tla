------------------------------ MODULE EnvStore ------------------------------
(***************************************************************************)
(* The environment store of the bootloader                                 *)
(* (Src/bootloader_if/bootloader_if.c): two flash banks of environment     *)
(* records.  bank1 is a log whose last valid record counts; when it is     *)
(* full, the record goes through bank2 while bank1 is erased.              *)
(*                                                                         *)
(* A call is a sequence of flash operations.  Power may be cut between two *)
(* of them and within one: an interrupted write leaves a torn record,      *)
(* whose status word, the last, is not written; an interrupted erase       *)
(* leaves any mix.  A torn record reads as invalid, but it cannot be       *)
(* written again before its bank is erased: the hardware refuses to        *)
(* program words that are not blank.  An operation that fails while power  *)
(* stays on leaves the same, and ends its call.                            *)
(*                                                                         *)
(* That a torn record reads as invalid is an assumption about the hardware *)
(* for the erase: the code looks at one status word and has no checksum,   *)
(* so that a record an erase disturbed elsewhere first would pass.         *)
(*                                                                         *)
(* bootloader_init runs at every power-up, in the bootloader; the saves    *)
(* run in the bootloader and the application.  One call at a time.         *)
(***************************************************************************)
EXTENDS Naturals, Sequences

CONSTANTS
  Envs,      \* environments
  Default,   \* default_env
  Slots,     \* records a bank holds
  Erased, Torn, None,
  Failures   \* TRUE: flash operations may also fail while bank2 has an environment

ASSUME EnvAssumption ==
  /\ Default \in Envs /\ {Erased, Torn, None} \cap Envs = {}
  /\ Erased # Torn /\ Slots \in Nat \ {0} /\ Failures \in BOOLEAN

VARIABLES
  bank,    \* the contents of the two banks
  mode,    \* "off", "init" (bootloader_init), "ready" or "save"
  todo,    \* flash operations left of the call
  saving,  \* the environment being saved, or None
  ret      \* what the last save returned; "error" also after a failed initialisation

vars == <<bank, mode, todo, saving, ret>>

Offsets == 0 .. Slots - 1
Contents == Envs \cup {Erased, Torn}
Blank == [k \in Offsets |-> Erased]
Valid(b, k) == bank[b][k] \in Envs  \* status is BOOTLOADER_ENV_STATUS_VALID

(***************************************************************************)
(* Flash operations: what they do, when they are refused, and what an      *)
(* interrupted one may leave of its bank.                                  *)
(***************************************************************************)
Erase(b) == [op |-> "erase", bank |-> b]
Write(b, k, e) == [op |-> "write", bank |-> b, offset |-> k, env |-> e]

Refused(o) == o.op = "write" /\ bank[o.bank][o.offset] # Erased

Performed(o) ==
  IF o.op = "erase" THEN Blank ELSE [bank[o.bank] EXCEPT ![o.offset] = o.env]

Disturbed(c) == IF c = Erased THEN {Erased} ELSE {c, Torn, Erased}

Interrupted(o) ==
  IF Refused(o) THEN {bank[o.bank]}
  ELSE IF o.op = "write" THEN {bank[o.bank], [bank[o.bank] EXCEPT ![o.offset] = Torn]}
  ELSE {c \in [Offsets -> Contents] : \A k \in Offsets : c[k] \in Disturbed(bank[o.bank][k])}

Interrupt ==
  IF todo = <<>> THEN bank' = bank
  ELSE \E c \in Interrupted(Head(todo)) : bank' = [bank EXCEPT ![Head(todo).bank] = c]

(***************************************************************************)
(* The searches of bank1 stop at the first record that is not valid.       *)
(***************************************************************************)
SearchEnd ==
  CHOOSE n \in 0 .. Slots :
    /\ \A k \in 0 .. n - 1 : Valid(1, k)
    /\ n = Slots \/ ~Valid(1, n)

Error == "error"
GetEnv == IF SearchEnd = 0 THEN Error ELSE bank[1][SearchEnd - 1]

FlushEraseFirst(e) ==  \* mutant: bank1 is erased before the record is in bank2
  <<Erase(2), Erase(1), Write(2, 0, e), Write(1, 0, e), Erase(2)>>
FlushKeepBank2(e) ==  \* mutant: bank2 is not erased in the end
  <<Erase(2), Write(2, 0, e), Erase(1), Write(1, 0, e)>>
FlushEnv(e) == <<Erase(2), Write(2, 0, e), Erase(1), Write(1, 0, e), Erase(2)>>

SaveOps(e) == IF SearchEnd = Slots THEN FlushEnv(e) ELSE <<Write(1, SearchEnd, e)>>

InitOps ==
  IF Valid(2, 0) THEN <<Erase(1), Write(1, 0, bank[2][0]), Erase(1)>>
  ELSE IF Valid(1, 0) THEN <<>>
  ELSE <<Erase(1), Write(1, 0, Default)>>

(***************************************************************************)
(* Actions.                                                                *)
(***************************************************************************)
PowerOn ==
  /\ mode = "off"
  /\ mode' = "init" /\ todo' = InitOps
  /\ UNCHANGED <<bank, saving, ret>>

InitReturns ==
  /\ mode = "init" /\ todo = <<>>
  /\ mode' = "ready"
  /\ UNCHANGED <<bank, todo, saving, ret>>

\* bootloader_save_env returns an error at once when bank1 holds no record.
Save(e) ==
  /\ mode = "ready" /\ SearchEnd # 0
  /\ mode' = "save" /\ todo' = SaveOps(e) /\ saving' = e /\ ret' = "none"
  /\ UNCHANGED bank

FlashStep ==
  /\ todo # <<>> /\ ~Refused(Head(todo))
  /\ bank' = [bank EXCEPT ![Head(todo).bank] = Performed(Head(todo))]
  /\ todo' = Tail(todo)
  /\ UNCHANGED <<mode, saving, ret>>

SaveReturns ==
  /\ mode = "save" /\ todo = <<>>
  /\ mode' = "ready" /\ saving' = None /\ ret' = "ok"
  /\ UNCHANGED <<bank, todo>>

\* The first flash operation that fails ends the call, of bootloader_init as well.
CallFails ==
  /\ todo # <<>>
  /\ Refused(Head(todo)) \/ ~Valid(2, 0) \/ Failures
  /\ Interrupt
  /\ mode' = "ready" /\ todo' = <<>> /\ saving' = None /\ ret' = "error"

\* A power cut, or bootloader_reset between two calls.
PowerCut ==
  /\ mode # "off"
  /\ Interrupt
  /\ mode' = "off" /\ todo' = <<>> /\ saving' = None /\ ret' = "none"

Init ==
  /\ bank = [b \in {1, 2} |-> Blank]
  /\ mode = "off" /\ todo = <<>> /\ saving = None /\ ret = "none"

Next ==
  \/ PowerOn \/ InitReturns
  \/ (\E e \in Envs : Save(e))
  \/ FlashStep \/ SaveReturns \/ CallFails \/ PowerCut

Spec == Init /\ [][Next]_vars
-----------------------------------------------------------------------------
TypeOK ==
  /\ bank \in [{1, 2} -> [Offsets -> Contents]]
  /\ mode \in {"off", "init", "ready", "save"}
  /\ saving \in Envs \cup {None} /\ ret \in {"none", "ok", "error"}
  /\ \A i \in DOMAIN todo :
       \/ todo[i] \in {Erase(b) : b \in {1, 2}}
       \/ todo[i] \in {Write(b, k, e) : b \in {1, 2}, k \in Offsets, e \in Envs}

\* The environment the flash holds: bank2's, as long as there is one, else the
\* last of bank1.
Stored ==
  IF Valid(2, 0) THEN bank[2][0]
  ELSE IF SearchEnd = 0 THEN None ELSE bank[1][SearchEnd - 1]

\* The two banks implement one durable value: whenever power is cut, also
\* between the five steps of a flush and during recovery, flash holds the old
\* environment or the new one, and the new one once bootloader_save_env returned 0.
Register == INSTANCE DurableEnv WITH value <- Stored
ImplementsRegister == Register!RegisterSpec

\* bootloader_get_env, if it succeeds, never returns an older environment than
\* the one a restart would recover.
ReadIsCurrent == mode = "ready" => GetEnv \in {Stored, Error}

\* bootloader_init, when nothing fails, leaves bank1 with a record: what a cut left in
\* bank2 only is written back to bank1.
InitRestores == mode = "ready" /\ ret # "error" => GetEnv # Error

\* The offset bootloader_search_next_env_offset finds can be written.  It does not
\* hold: section 3 of the README has the reason.
NextOffsetIsWritable ==
  mode = "ready" /\ SearchEnd \in 1 .. Slots - 1 => bank[1][SearchEnd] = Erased

\* An environment bootloader_save_env reported as saved is the one a restart finds.
SavedIsStored == [][mode = "save" /\ ret' = "ok" => Stored = saving]_vars
=============================================================================
