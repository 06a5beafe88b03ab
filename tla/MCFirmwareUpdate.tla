-------------------------- MODULE MCFirmwareUpdate --------------------------
(***************************************************************************)
(* Three firmwares of different sizes: an update to a larger one, then to  *)
(* a smaller one, with a swap block of two pages that the sizes fill       *)
(* exactly or leave half empty.                                            *)
(***************************************************************************)
EXTENDS FirmwareUpdate, TLC

OneUpdate == (0 :> 2) @@ (1 :> 5)
Growing == (0 :> 2) @@ (1 :> 5) @@ (2 :> 3)
=============================================================================
