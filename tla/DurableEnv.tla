----------------------------- MODULE DurableEnv -----------------------------
(***************************************************************************)
(* What the environment store of the bootloader promises: one durable      *)
(* value.  A save changes it from the old to the new value at once, at     *)
(* some moment of the call; power may be cut at any time and the value is  *)
(* then the old one or the new one; a save that returned 0 has changed it. *)
(***************************************************************************)
CONSTANTS Envs, Default, None

VARIABLES value, saving, ret

RegisterInit == value = None /\ saving = None /\ ret = "none"

\* The first boot stores the default environment.
FirstBoot == value = None /\ value' = Default /\ UNCHANGED <<saving, ret>>

Begin(e) == saving = None /\ saving' = e /\ ret' = "none" /\ UNCHANGED value
Commit == saving # None /\ value' = saving /\ UNCHANGED <<saving, ret>>
Succeed == saving # None /\ value = saving /\ saving' = None /\ ret' = "ok" /\ UNCHANGED value
Fail == saving' = None /\ ret' = "error" /\ UNCHANGED value
Cut == saving' = None /\ ret' = "none" /\ UNCHANGED value

RegisterNext == FirstBoot \/ (\E e \in Envs : Begin(e)) \/ Commit \/ Succeed \/ Fail \/ Cut

RegisterSpec == RegisterInit /\ [][RegisterNext]_<<value, saving, ret>>
=============================================================================
