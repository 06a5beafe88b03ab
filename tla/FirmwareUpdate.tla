--------------------------- MODULE FirmwareUpdate ---------------------------
(***************************************************************************)
(* The firmware update: the report task of the application downloads a     *)
(* firmware into the update region and sets the boot flag                  *)
(* (Src/tasks/report_task.c); the bootloader exchanges the user region and *)
(* the update region block by block through the swap block, saving the     *)
(* environment after every step, or copies the old firmware back           *)
(* (Src/bootloader_if/bootloader_if.c).  Power may be cut anywhere, within *)
(* a copy too.                                                             *)
(*                                                                         *)
(* The environment is one durable record, as DurableEnv promises; a save   *)
(* is one step.  The loop of the bootloader that looks at the boot flag is *)
(* not in the repository: PowerOn follows its description in               *)
(* bootloader_if.h.                                                        *)
(*                                                                         *)
(* The unit of sizes and offsets is a flash page.  Firmware f has version  *)
(* f; a page holds page i of a firmware, or Garbage.                       *)
(***************************************************************************)
EXTENDS Naturals

CONSTANTS
  Firmwares,  \* versions; 0 is the factory's
  FwPages,    \* pages of each firmware
  Pages,      \* pages of the user and of the update region
  Block       \* pages of the swap block

ASSUME UpdateAssumption ==
  /\ Firmwares \subseteq Nat /\ 0 \in Firmwares
  /\ Pages \in Nat \ {0} /\ Block \in Nat \ {0}
  /\ FwPages \in [Firmwares -> 1 .. Pages]

VARIABLES
  flash,      \* the regions "user", "update" and "swap"
  env,        \* the saved environment
  ram,        \* the environment a call works on
  pc,         \* where the program is; "off" without power
  offer,      \* report_upgrade: the firmware being downloaded
  download_size,  \* report_upgrade.download_size
  confirmed   \* history: firmwares that set BOOT_UPDATE_OK

vars == <<flash, env, ram, pc, offer, download_size, confirmed>>

Garbage == [fw |-> 0, page |-> Pages]
Page(f, i) == IF i < FwPages[f] THEN [fw |-> f, page |-> i] ELSE Garbage
Image(f) == [i \in 0 .. Pages - 1 |-> Page(f, i)]
Holds(region, f) == \A i \in 0 .. FwPages[f] - 1 : flash[region][i] = Page(f, i)

DefaultEnv ==
  [flag |-> "NORMAL",
   origin |-> [fw |-> 0, size |-> Pages], update |-> [fw |-> 0, size |-> 0],
   step |-> "INIT", origin_offset |-> 0, update_offset |-> 0, size |-> 0]

Init ==
  /\ flash = [user |-> Image(0), update |-> [i \in 0 .. Pages - 1 |-> Garbage],
              swap |-> [i \in 0 .. Block - 1 |-> Garbage]]
  /\ env = DefaultEnv /\ ram = DefaultEnv
  /\ pc = "off" /\ offer = 0 /\ download_size = 0
  /\ confirmed = {0}

(***************************************************************************)
(* bootloader_write_fw: erase the pages of the destination, then program   *)
(* them.  done is the number of pages programmed.                          *)
(***************************************************************************)
Copied(c, done) ==
  [i \in DOMAIN flash[c.to] |->
     IF i \notin c.at .. c.at + c.n - 1 THEN flash[c.to][i]
     ELSE IF i < c.at + done THEN flash[c.from][c.start + i - c.at]
     ELSE Garbage]
WriteFw(c) == flash' = [flash EXCEPT ![c.to] = Copied(c, c.n)]

Part(size, offset) ==
  IF offset >= size THEN 0 ELSE IF size - offset > Block THEN Block ELSE size - offset

UserToSwap ==
  [to |-> "swap", at |-> 0, from |-> "user", start |-> ram.origin_offset,
   n |-> Part(ram.origin.size, ram.origin_offset)]
UpdateToUser ==
  [to |-> "user", at |-> ram.update_offset, from |-> "update", start |-> ram.update_offset,
   n |-> Part(ram.update.size, ram.update_offset)]
SwapToUpdate ==
  [to |-> "update", at |-> ram.origin_offset, from |-> "swap", start |-> 0, n |-> ram.size]
UpdateBackToUser ==
  [to |-> "user", at |-> 0, from |-> "update", start |-> 0, n |-> ram.update.size]

Unchanged == UNCHANGED <<env, offer, download_size, confirmed>>

(***************************************************************************)
(* bootloader_update_user_app.  Each of the three copies is skipped unless *)
(* the step saved last is the one before it.                               *)
(***************************************************************************)
Exchanged == ram.update_offset = ram.update.size /\ ram.origin_offset = ram.origin.size

UpdateLoop ==
  /\ pc = "while" /\ ~Exchanged
  /\ pc' = "toSwap"
  /\ Unchanged /\ UNCHANGED <<flash, ram>>

Skip(p, steps, q) ==
  /\ pc = p /\ ram.step \notin steps
  /\ pc' = q
  /\ Unchanged /\ UNCHANGED <<flash, ram>>

CopyUserToSwapAgain ==  \* mutant: the step saved last is not looked at
  /\ pc = "toSwap"
  /\ WriteFw(UserToSwap)
  /\ ram' = [ram EXCEPT !.step = "USER_TO_SWAP", !.size = UserToSwap.n]
  /\ pc' = "saveToSwap"
  /\ Unchanged
CopyUserToSwap ==
  /\ pc = "toSwap" /\ ram.step \in {"INIT", "SWAP_TO_UPDATE"}
  /\ WriteFw(UserToSwap)
  /\ ram' = IF UserToSwap.n = 0 THEN [ram EXCEPT !.step = "USER_TO_SWAP"]
            ELSE [ram EXCEPT !.step = "USER_TO_SWAP", !.size = UserToSwap.n,
                             !.origin_offset = @ + ram.size]
  /\ pc' = "saveToSwap"
  /\ Unchanged

CopyUpdateToUser ==
  /\ pc = "toUser" /\ ram.step = "USER_TO_SWAP"
  /\ WriteFw(UpdateToUser)
  /\ ram' = [ram EXCEPT !.update_offset = @ + UpdateToUser.n, !.step = "UPDATE_TO_USER"]
  /\ pc' = "saveToUser"
  /\ Unchanged

CopySwapToUpdateInPlace ==  \* mutant: the offset does not advance
  /\ pc = "toUpdate" /\ ram.step = "UPDATE_TO_USER"
  /\ WriteFw(SwapToUpdate)
  /\ ram' = [ram EXCEPT !.size = 0, !.step = "SWAP_TO_UPDATE"]
  /\ pc' = "saveToUpdate"
  /\ Unchanged
CopySwapToUpdate ==
  /\ pc = "toUpdate" /\ ram.step = "UPDATE_TO_USER"
  /\ WriteFw(SwapToUpdate)
  /\ ram' = [ram EXCEPT !.origin_offset = @ + ram.size, !.size = 0, !.step = "SWAP_TO_UPDATE"]
  /\ pc' = "saveToUpdate"
  /\ Unchanged

Complete ==
  /\ pc = "while" /\ Exchanged
  /\ ram' = [ram EXCEPT !.flag = "UPDATE_COMPLETE",
                        !.origin = ram.update, !.update = ram.origin,
                        !.step = "INIT", !.origin_offset = 0, !.update_offset = 0, !.size = 0]
  /\ pc' = "saveComplete"
  /\ Unchanged /\ UNCHANGED flash

\* bootloader_recovery_user_app
Recover ==
  /\ pc = "recover"
  /\ WriteFw(UpdateBackToUser)
  /\ ram' = [ram EXCEPT !.flag = "NORMAL", !.origin = ram.update,
                        !.step = "INIT", !.origin_offset = 0, !.update_offset = 0, !.size = 0]
  /\ pc' = "saveRecovered"
  /\ Unchanged

(***************************************************************************)
(* bootloader_save_env, and where the program goes on after it.            *)
(***************************************************************************)
After ==
  [saveToSwap |-> "toUser", saveToUser |-> "toUpdate", saveToUpdate |-> "while",
   saveComplete |-> "app", saveRecovered |-> "app", saveNormal |-> "app",
   saveOk |-> "running", saveUpdate |-> "off"]

SaveEnv ==
  /\ pc \in DOMAIN After
  /\ env' = ram
  /\ pc' = After[pc]
  /\ confirmed' = IF pc = "saveOk" THEN confirmed \cup {ram.origin.fw} ELSE confirmed
  /\ UNCHANGED <<flash, ram, offer, download_size>>

(***************************************************************************)
(* The bootloader looks at the boot flag.                                  *)
(***************************************************************************)
PowerOnTrusting ==  \* mutant: an update that was not confirmed is kept
  /\ pc = "off"
  /\ ram' = IF env.flag # "UPDATE" THEN [env EXCEPT !.flag = "NORMAL"] ELSE env
  /\ pc' = CASE env.flag = "UPDATE" -> "while"
             [] env.flag \in {"UPDATE_COMPLETE", "UPDATE_OK"} -> "saveNormal"
             [] env.flag = "NORMAL" -> "app"
  /\ Unchanged /\ UNCHANGED flash
PowerOn ==
  /\ pc = "off"
  /\ ram' = IF env.flag = "UPDATE_OK" THEN [env EXCEPT !.flag = "NORMAL"] ELSE env
  /\ pc' = CASE env.flag = "UPDATE" -> "while"
             [] env.flag = "UPDATE_COMPLETE" -> "recover"
             [] env.flag = "UPDATE_OK" -> "saveNormal"
             [] env.flag = "NORMAL" -> "app"
  /\ Unchanged /\ UNCHANGED flash

(***************************************************************************)
(* The application: the report task confirms an update when it starts, and *)
(* downloads a newer firmware page by page.                                *)
(***************************************************************************)
AppConfirms ==
  /\ pc = "app" /\ env.flag = "UPDATE_COMPLETE"
  /\ ram' = [env EXCEPT !.flag = "UPDATE_OK"]
  /\ pc' = "saveOk"
  /\ Unchanged /\ UNCHANGED flash

AppStarts ==
  /\ pc = "app" /\ env.flag # "UPDATE_COMPLETE"
  /\ pc' = "running"
  /\ Unchanged /\ UNCHANGED <<flash, ram>>

GetUpgrade(f) ==
  /\ pc = "running" /\ f > flash.user[0].fw
  /\ pc' = "download" /\ offer' = f /\ download_size' = 0
  /\ UNCHANGED <<flash, env, ram, confirmed>>

\* A page arrives whole or corrupted.
DownloadPage ==
  /\ pc = "download" /\ download_size < FwPages[offer]
  /\ \E p \in {Page(offer, download_size), Garbage} :
       flash' = [flash EXCEPT !.update[download_size] = p]
  /\ download_size' = download_size + 1
  /\ UNCHANGED <<env, ram, pc, offer, confirmed>>

StartUpdateUnchecked ==  \* mutant: the digest is not compared
  /\ pc = "download" /\ download_size = FwPages[offer]
  /\ ram' = [env EXCEPT !.flag = "UPDATE", !.update = [fw |-> offer, size |-> FwPages[offer]]]
  /\ pc' = "saveUpdate"
  /\ Unchanged /\ UNCHANGED flash
StartUpdate ==
  /\ pc = "download" /\ download_size = FwPages[offer] /\ Holds("update", offer)
  /\ ram' = [env EXCEPT !.flag = "UPDATE", !.update = [fw |-> offer, size |-> FwPages[offer]]]
  /\ pc' = "saveUpdate"
  /\ Unchanged /\ UNCHANGED flash

\* The digest of the region is not the one announced.
StopUpgrade ==
  /\ pc = "download" /\ download_size = FwPages[offer] /\ ~Holds("update", offer)
  /\ pc' = "stopped"
  /\ Unchanged /\ UNCHANGED <<flash, ram>>

(***************************************************************************)
(* A power cut, or a reset by the watchdog; within a copy, the pages not   *)
(* programmed yet are lost.                                                *)
(***************************************************************************)
Copying ==
  CASE pc = "toSwap" -> UserToSwap
    [] pc = "toUser" -> UpdateToUser
    [] pc = "toUpdate" -> SwapToUpdate
    [] pc = "recover" -> UpdateBackToUser

CutBeforeCopy == flash' = flash
CutInCopy ==
  /\ \/ pc = "toSwap" /\ ram.step \in {"INIT", "SWAP_TO_UPDATE"}
     \/ pc = "toUser" /\ ram.step = "USER_TO_SWAP"
     \/ pc = "toUpdate" /\ ram.step = "UPDATE_TO_USER"
     \/ pc = "recover"
  /\ \E done \in 0 .. Copying.n : flash' = [flash EXCEPT ![Copying.to] = Copied(Copying, done)]

PowerCut ==
  /\ pc # "off"
  /\ CutBeforeCopy \/ CutInCopy
  /\ pc' = "off" /\ ram' = env
  /\ offer' = 0 /\ download_size' = 0
  /\ UNCHANGED <<env, confirmed>>

Bootloader ==
  \/ PowerOn
  \/ UpdateLoop
  \/ Skip("toSwap", {"INIT", "SWAP_TO_UPDATE"}, "toUser")
  \/ Skip("toUser", {"USER_TO_SWAP"}, "toUpdate")
  \/ Skip("toUpdate", {"UPDATE_TO_USER"}, "while")
  \/ CopyUserToSwap \/ CopyUpdateToUser \/ CopySwapToUpdate
  \/ Complete \/ Recover
  \/ SaveEnv

Application ==
  \/ AppConfirms \/ AppStarts
  \/ (\E f \in Firmwares : GetUpgrade(f))
  \/ DownloadPage \/ StartUpdate \/ StopUpgrade

Next == Bootloader \/ Application \/ PowerCut

Spec == Init /\ [][Next]_vars
FairSpec == Spec /\ WF_vars(Bootloader)
-----------------------------------------------------------------------------
Steps == {"INIT", "USER_TO_SWAP", "UPDATE_TO_USER", "SWAP_TO_UPDATE"}
Flags == {"NORMAL", "UPDATE", "UPDATE_COMPLETE", "UPDATE_OK"}
EnvType ==
  [flag : Flags, origin : [fw : Firmwares, size : 0 .. Pages],
   update : [fw : Firmwares, size : 0 .. Pages], step : Steps,
   origin_offset : 0 .. Pages, update_offset : 0 .. Pages, size : 0 .. Block]

TypeOK ==
  /\ env \in EnvType /\ ram \in EnvType
  /\ pc \in DOMAIN After \cup {"off", "while", "toSwap", "toUser", "toUpdate", "recover",
                               "app", "running", "download", "stopped"}
  /\ DOMAIN flash = {"user", "update", "swap"}
  /\ offer \in Firmwares /\ download_size \in 0 .. Pages
  /\ confirmed \subseteq Firmwares

\* Whenever the bootloader starts the application, after any number of power cuts
\* in download, exchange or recovery, the user region holds the whole firmware the
\* environment names.
AppIsWhole ==
  pc \in {"app", "saveOk", "running", "download", "stopped"} => Holds("user", env.origin.fw)

\* Until an update is confirmed, the update region holds the firmware to go back to.
RollbackIsWhole == env.flag = "UPDATE_COMPLETE" => Holds("update", env.update.fw)

\* A firmware that never confirmed itself is not kept: it runs only under the flag
\* UPDATE_COMPLETE.
OnlyConfirmedStays ==
  env.flag \in {"NORMAL", "UPDATE_OK"} => env.origin.fw \in confirmed

\* Once power stays, an update that was started ends with the application running.
UpdateEnds == <>[][~PowerCut]_vars => (env.flag = "UPDATE" ~> pc = "app")
=============================================================================
