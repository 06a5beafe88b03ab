------------------------- MODULE FirmwareUpdateProofs -------------------------
(***************************************************************************)
(* Proofs about the firmware update, for firmwares, regions and swap       *)
(* blocks of any size and any number of power cuts: the application that   *)
(* is started is whole, the one to go back to is whole, and only confirmed *)
(* ones stay.                                                              *)
(*                                                                         *)
(* The invariant says of an environment e, the saved one or the one about  *)
(* to be saved, that flash holds what e promises (Durable).  In the middle *)
(* of an exchange that is one formula for all four steps: the two offsets  *)
(* are level (OffsetsOK), and each page of the old firmware is in one of   *)
(* the three regions, each page of the new one in one of two (OldPages,    *)
(* NewPages).  These operators have flash as a parameter, so that they     *)
(* speak of the flash before and after a step.                             *)
(***************************************************************************)
EXTENDS FirmwareUpdate, TLAPS

Regions == {"user", "update", "swap"}
FlashOK(fl) ==
  /\ DOMAIN fl = Regions
  /\ DOMAIN fl["user"] = 0 .. Pages - 1 /\ DOMAIN fl["update"] = 0 .. Pages - 1
  /\ DOMAIN fl["swap"] = 0 .. Block - 1

HoldsIn(fl, region, f) == \A i \in 0 .. FwPages[f] - 1 : fl[region][i] = Page(f, i)

Lesser(m, n) == IF m < n THEN m ELSE n

\* moved pages of the old firmware have left the user region: as many pages of the
\* new one are in it, unless one of the two is shorter.
Level(e, moved) ==
  /\ moved <= e.origin.size /\ e.update_offset <= e.update.size
  /\ moved < e.origin.size => e.update_offset = Lesser(moved, e.update.size)
  /\ e.update_offset < e.update.size => moved = Lesser(e.update_offset, e.origin.size)

OffsetsOK(e) ==
  /\ e.step \in {"INIT", "SWAP_TO_UPDATE"} => e.size = 0 /\ Level(e, e.origin_offset)
  /\ e.step = "USER_TO_SWAP" =>
       e.size = Part(e.origin.size, e.origin_offset) /\ Level(e, e.origin_offset)
  /\ e.step = "UPDATE_TO_USER" => Level(e, e.origin_offset + e.size)

\* Where the pages of the old firmware are, and those of the new one.
OldPages(fl, e) ==
  \A i \in 0 .. FwPages[e.origin.fw] - 1 :
    /\ i < e.origin_offset => fl["update"][i] = Page(e.origin.fw, i)
    /\ e.origin_offset <= i /\ i < e.origin_offset + e.size =>
         fl["swap"][i - e.origin_offset] = Page(e.origin.fw, i)
    /\ e.origin_offset + e.size <= i => fl["user"][i] = Page(e.origin.fw, i)
NewPages(fl, e) ==
  \A i \in 0 .. FwPages[e.update.fw] - 1 :
    /\ i < e.update_offset => fl["user"][i] = Page(e.update.fw, i)
    /\ e.update_offset <= i => fl["update"][i] = Page(e.update.fw, i)

Exchange(fl, e) ==
  /\ e.update.size = FwPages[e.update.fw]
  /\ OffsetsOK(e) /\ OldPages(fl, e) /\ NewPages(fl, e)

AtRest(e) == e.step = "INIT" /\ e.origin_offset = 0 /\ e.update_offset = 0 /\ e.size = 0

\* What the flash fl holds of the environment e.
Durable(fl, e) ==
  /\ FwPages[e.origin.fw] <= e.origin.size
  /\ e.flag = "UPDATE" => Exchange(fl, e)
  /\ e.flag # "UPDATE" => AtRest(e)
  /\ e.flag \in {"NORMAL", "UPDATE_OK"} => HoldsIn(fl, "user", e.origin.fw)
  /\ e.flag = "UPDATE_COMPLETE" =>
       HoldsIn(fl, "update", e.update.fw) /\ FwPages[e.update.fw] <= e.update.size

Saving == DOMAIN After

\* What the environments say at each place of the program.
PcInv ==
  /\ pc \in {"while", "toSwap", "toUser", "toUpdate"} => ram = env /\ env.flag = "UPDATE"
  /\ pc = "recover" => ram = env /\ env.flag = "UPDATE_COMPLETE"
  /\ pc \in {"saveToSwap", "saveToUser", "saveToUpdate", "saveUpdate"} => ram.flag = "UPDATE"
  /\ pc = "saveComplete" =>
       ram.flag = "UPDATE_COMPLETE" /\ HoldsIn(flash, "user", ram.origin.fw)
  /\ pc \in {"saveRecovered", "saveNormal"} => ram.flag = "NORMAL"
  /\ pc = "saveOk" => ram.flag = "UPDATE_OK" /\ ram.origin = env.origin
  /\ pc = "app" => env.flag # "UPDATE"
  /\ pc \in {"running", "download", "stopped"} => env.flag \in {"NORMAL", "UPDATE_OK"}
  /\ pc = "download" => download_size <= FwPages[offer]

DurableInv == Durable(flash, env) /\ (pc \in Saving => Durable(flash, ram))

\* The firmware that is kept, or that recovery goes back to, was confirmed.
Kept(e) == IF e.flag = "UPDATE_COMPLETE" THEN e.update.fw ELSE e.origin.fw
KeptInv ==
  /\ Kept(env) \in confirmed
  /\ pc \in Saving \ {"saveOk"} => Kept(ram) \in confirmed

WholeInv ==
  pc \in {"app", "saveOk", "running", "download", "stopped"} =>
    HoldsIn(flash, "user", env.origin.fw)

Inv == TypeOK /\ FlashOK(flash) /\ PcInv /\ DurableInv /\ WholeInv /\ KeptInv

-----------------------------------------------------------------------------
(***************************************************************************)
(* Copies and sizes.                                                       *)
(***************************************************************************)
\* The copy c was made up to its first done pages, or cut after them: it changed
\* its destination only, and there its range only.
Copies(fl, gl, c, done) ==
  /\ \A r \in Regions \ {c.to} : gl[r] = fl[r]
  /\ \A i \in DOMAIN fl[c.to] : i \notin c.at .. c.at + c.n - 1 => gl[c.to][i] = fl[c.to][i]
  /\ \A i \in DOMAIN fl[c.to] :
       i \in c.at .. c.at + c.n - 1 /\ i < c.at + done => gl[c.to][i] = fl[c.from][c.start + i - c.at]

\* The three copies of the loop, of an environment e.
ToSwapCopy(e) ==
  [to |-> "swap", at |-> 0, from |-> "user", start |-> e.origin_offset,
   n |-> Part(e.origin.size, e.origin_offset)]
ToUserCopy(e) ==
  [to |-> "user", at |-> e.update_offset, from |-> "update", start |-> e.update_offset,
   n |-> Part(e.update.size, e.update_offset)]
ToUpdateCopy(e) ==
  [to |-> "update", at |-> e.origin_offset, from |-> "swap", start |-> 0, n |-> e.size]

\* g is e but for the progress of the exchange.
Progressed(e, g, step, size, origin_offset, update_offset) ==
  /\ g.step = step /\ g.size = size
  /\ g.origin_offset = origin_offset /\ g.update_offset = update_offset
  /\ g.flag = e.flag /\ g.origin = e.origin /\ g.update = e.update

LEMMA CopyDoes ==
  ASSUME FlashOK(flash), NEW c, c.to \in Regions, NEW done,
         flash' = [flash EXCEPT ![c.to] = Copied(c, done)]
  PROVE  FlashOK(flash') /\ Copies(flash, flash', c, done)
  <1>1. /\ DOMAIN flash' = Regions
        /\ \A r \in Regions \ {c.to} : flash'[r] = flash[r]
        /\ flash'[c.to] = Copied(c, done)
    BY DEF FlashOK
  <1>2. /\ DOMAIN Copied(c, done) = DOMAIN flash[c.to]
        /\ \A i \in DOMAIN flash[c.to] :
             Copied(c, done)[i] =
               IF i \notin c.at .. c.at + c.n - 1 THEN flash[c.to][i]
               ELSE IF i < c.at + done THEN flash[c.from][c.start + i - c.at]
               ELSE Garbage
    BY DEF Copied
  <1>3. \A r \in Regions : DOMAIN flash'[r] = DOMAIN flash[r]
    BY <1>1, <1>2
  <1>4. FlashOK(flash')
    BY <1>1, <1>3 DEF FlashOK, Regions
  <1>5. Copies(flash, flash', c, done)
    BY <1>1, <1>2 DEF Copies
  <1> QED  BY <1>4, <1>5

LEMMA PartIs ==
  ASSUME NEW size \in Nat, NEW offset \in Nat
  PROVE  /\ Part(size, offset) \in 0 .. Block
         /\ offset <= size => offset + Part(size, offset) <= size
         /\ offset >= size => Part(size, offset) = 0
         /\ offset + Part(size, offset) < size => Part(size, offset) = Block
  BY UpdateAssumption DEF UpdateAssumption, Part

LEMMA FwPagesType ==
  ASSUME NEW f \in Firmwares
  PROVE  FwPages[f] \in 1 .. Pages
  BY UpdateAssumption DEF UpdateAssumption

\* The fields of an environment and their types.
LEMMA EnvFields ==
  ASSUME NEW e \in EnvType
  PROVE  /\ e.flag \in Flags /\ e.step \in Steps
         /\ e.origin.fw \in Firmwares /\ e.update.fw \in Firmwares
         /\ e.origin.size \in 0 .. Pages /\ e.update.size \in 0 .. Pages
         /\ e.origin_offset \in 0 .. Pages /\ e.update_offset \in 0 .. Pages
         /\ e.size \in 0 .. Block
         /\ e.origin_offset \in Nat /\ e.update_offset \in Nat /\ e.size \in Nat
         /\ e.origin.size \in Nat /\ e.update.size \in Nat
         /\ e.origin \in [fw : Firmwares, size : 0 .. Pages]
         /\ e.update \in [fw : Firmwares, size : 0 .. Pages]
  BY UpdateAssumption DEF EnvType, UpdateAssumption

LEMMA EnvParts ==
  ASSUME NEW e \in EnvType
  PROVE  /\ Part(e.origin.size, e.origin_offset) \in 0 .. Block
         /\ Part(e.update.size, e.update_offset) \in 0 .. Block
         /\ Part(e.origin.size, e.origin_offset) \in Nat
         /\ Part(e.update.size, e.update_offset) \in Nat
         /\ Pages \in Nat /\ Block \in Nat
  <1>1. /\ e.origin_offset \in Nat /\ e.update_offset \in Nat
        /\ e.origin.size \in Nat /\ e.update.size \in Nat
    BY EnvFields
  <1>2. /\ Part(e.origin.size, e.origin_offset) \in 0 .. Block
        /\ Part(e.update.size, e.update_offset) \in 0 .. Block
    BY <1>1, PartIs
  <1> QED  BY <1>2, UpdateAssumption DEF UpdateAssumption

-----------------------------------------------------------------------------
(***************************************************************************)
(* The first copy of the loop: user region to swap block.                  *)
(***************************************************************************)
\* Until it is saved, it changes nothing the saved environment counts on.
LEMMA ToSwapKeeps ==
  ASSUME NEW fl, NEW gl, NEW e \in EnvType, e.step \in {"INIT", "SWAP_TO_UPDATE"},
         gl["user"] = fl["user"], gl["update"] = fl["update"], Exchange(fl, e)
  PROVE  Exchange(gl, e)
  <1>1. e.size = 0
    BY DEF Exchange, OffsetsOK
  <1>2. OldPages(gl, e)
    <2> SUFFICES ASSUME NEW i \in 0 .. FwPages[e.origin.fw] - 1
                 PROVE  /\ i < e.origin_offset => gl["update"][i] = Page(e.origin.fw, i)
                        /\ e.origin_offset <= i /\ i < e.origin_offset + e.size =>
                             gl["swap"][i - e.origin_offset] = Page(e.origin.fw, i)
                        /\ e.origin_offset + e.size <= i => gl["user"][i] = Page(e.origin.fw, i)
      BY DEF OldPages
    <2> QED  BY <1>1, EnvFields, FwPagesType DEF Exchange, OldPages
  <1>3. NewPages(gl, e)
    BY DEF Exchange, NewPages
  <1> QED  BY <1>2, <1>3 DEF Exchange

LEMMA ToSwapMoves ==
  ASSUME NEW fl, NEW gl, NEW e \in EnvType, e.step \in {"INIT", "SWAP_TO_UPDATE"},
         FlashOK(fl), Exchange(fl, e),
         Copies(fl, gl, ToSwapCopy(e), Part(e.origin.size, e.origin_offset)),
         NEW g \in EnvType,
         Progressed(e, g, "USER_TO_SWAP", Part(e.origin.size, e.origin_offset),
                    e.origin_offset, e.update_offset)
  PROVE  Exchange(gl, g)
  <1> DEFINE n == Part(e.origin.size, e.origin_offset)
             c == ToSwapCopy(e)
  <1>0. /\ c.to = "swap" /\ c.at = 0 /\ c.from = "user" /\ c.start = e.origin_offset /\ c.n = n
        /\ g.step = "USER_TO_SWAP" /\ g.size = n /\ g.origin_offset = e.origin_offset
        /\ g.update_offset = e.update_offset /\ g.origin = e.origin /\ g.update = e.update
    BY DEF ToSwapCopy, Progressed
  <1>1. /\ e.size = 0 /\ Level(e, e.origin_offset)
        /\ e.update.size = FwPages[e.update.fw]
    BY DEF Exchange, OffsetsOK
  <1>2. OffsetsOK(g)
    BY <1>0, <1>1 DEF OffsetsOK, Level
  <1>3. /\ gl["user"] = fl["user"] /\ gl["update"] = fl["update"]
        /\ \A i \in 0 .. Block - 1 : i < n => gl["swap"][i] = fl["user"][e.origin_offset + i]
    <2>1. gl["user"] = fl["user"] /\ gl["update"] = fl["update"]
      BY <1>0 DEF Copies, Regions
    <2>2. ASSUME NEW i \in 0 .. Block - 1, i < n
          PROVE  gl["swap"][i] = fl["user"][e.origin_offset + i]
      <3>1. n \in Nat /\ e.origin_offset \in Nat /\ i \in Nat
        BY EnvFields, EnvParts
      <3>2. i \in 0 .. 0 + n - 1 /\ i < 0 + n
        BY <2>2, <3>1
      <3>3. gl["swap"][i] = fl["user"][e.origin_offset + i - 0]
        BY <1>0, <3>2 DEF Copies, FlashOK
      <3> QED  BY <3>1, <3>3
    <2> QED  BY <2>1, <2>2
  <1>4. OldPages(gl, g)
    <2> SUFFICES ASSUME NEW i \in 0 .. FwPages[e.origin.fw] - 1
                 PROVE  /\ i < e.origin_offset => gl["update"][i] = Page(e.origin.fw, i)
                        /\ e.origin_offset <= i /\ i < e.origin_offset + n =>
                             gl["swap"][i - e.origin_offset] = Page(e.origin.fw, i)
                        /\ e.origin_offset + n <= i => gl["user"][i] = Page(e.origin.fw, i)
      BY <1>0 DEF OldPages
    <2>1. /\ n \in 0 .. Block /\ e.origin_offset \in Nat /\ i \in Nat /\ Block \in Nat
      BY EnvFields, EnvParts, FwPagesType
    <2>2. /\ i < e.origin_offset => fl["update"][i] = Page(e.origin.fw, i)
          /\ e.origin_offset <= i => fl["user"][i] = Page(e.origin.fw, i)
      BY <1>0, <1>1, <2>1 DEF Exchange, OldPages
    <2>3. ASSUME e.origin_offset <= i, i < e.origin_offset + n
          PROVE  gl["swap"][i - e.origin_offset] = fl["user"][i]
      <3>1. i - e.origin_offset \in 0 .. Block - 1 /\ i - e.origin_offset < n
        BY <2>1, <2>3
      <3>2. gl["swap"][i - e.origin_offset] = fl["user"][e.origin_offset + (i - e.origin_offset)]
        BY <1>3, <3>1
      <3> QED  BY <2>1, <3>2
    <2> QED  BY <1>3, <2>1, <2>2, <2>3
  <1>5. NewPages(gl, g)
    BY <1>0, <1>3 DEF Exchange, NewPages
  <1> QED  BY <1>0, <1>1, <1>2, <1>4, <1>5 DEF Exchange

-----------------------------------------------------------------------------
(***************************************************************************)
(* The second copy: update region to user region.                          *)
(***************************************************************************)
\* It writes where the old firmware's pages are in the swap block, or ends.
LEMMA ToUserRange ==
  ASSUME NEW e \in EnvType, OffsetsOK(e), e.step = "USER_TO_SWAP",
         NEW i \in Nat, i < e.origin.size, e.origin_offset + e.size <= i
  PROVE  e.update_offset + Part(e.update.size, e.update_offset) <= i
  <1> DEFINE m == Part(e.update.size, e.update_offset)
  <1>1. /\ e.origin.size \in Nat /\ e.update.size \in Nat
        /\ e.origin_offset \in Nat /\ e.update_offset \in Nat /\ e.size \in Nat /\ Block \in Nat
    BY EnvFields, UpdateAssumption DEF UpdateAssumption
  <1>2. e.size = Part(e.origin.size, e.origin_offset) /\ Level(e, e.origin_offset)
    BY DEF OffsetsOK
  <1>3. e.size = Block /\ m \in 0 .. Block
    <2>1. e.origin_offset + e.size < e.origin.size
      BY <1>1
    <2>2. e.size = Block
      BY <1>1, <1>2, <2>1, PartIs
    <2> QED  BY <2>2, EnvParts
  <1>4. e.update_offset <= e.origin_offset
    BY <1>1, <1>2 DEF Level, Lesser
  <1> QED  BY <1>1, <1>3, <1>4

\* Level offsets stay level when each advances by the part it can: the definition
\* of Level, in numbers.
LEMMA LevelAdvances ==
  ASSUME NEW so \in Nat, NEW su \in Nat, NEW oo \in Nat, NEW uo \in Nat,
         oo <= so, uo <= su, oo < so => uo = Lesser(oo, su), uo < su => oo = Lesser(uo, so)
  PROVE  LET o == oo + Part(so, oo)
             u == uo + Part(su, uo)
         IN  /\ o <= so /\ u <= su
             /\ o < so => u = Lesser(o, su)
             /\ u < su => o = Lesser(u, so)
  <1> DEFINE n == Part(so, oo)
             m == Part(su, uo)
  <1>1. /\ n \in 0 .. Block /\ oo + n <= so /\ (oo + n < so => n = Block)
        /\ m \in 0 .. Block /\ uo + m <= su /\ (uo + m < su => m = Block)
    BY PartIs
  <1>2. Block \in Nat
    BY UpdateAssumption DEF UpdateAssumption
  <1> HIDE DEF n, m
  <1>3. oo + n < so => uo + m = Lesser(oo + n, su)
    BY <1>1, <1>2 DEF Lesser
  <1>4. uo + m < su => oo + n = Lesser(uo + m, so)
    BY <1>1, <1>2 DEF Lesser
  <1> QED  BY <1>1, <1>3, <1>4 DEF n, m

LEMMA ToUserLevel ==
  ASSUME NEW e \in EnvType, OffsetsOK(e), e.step = "USER_TO_SWAP", NEW g \in EnvType,
         g.step = "UPDATE_TO_USER", g.size = e.size, g.origin_offset = e.origin_offset,
         g.update_offset = e.update_offset + Part(e.update.size, e.update_offset),
         g.origin = e.origin, g.update = e.update
  PROVE  OffsetsOK(g)
  <1>1. /\ e.origin.size \in Nat /\ e.update.size \in Nat
        /\ e.origin_offset \in Nat /\ e.update_offset \in Nat /\ e.size \in Nat
        /\ Block \in Nat \ {0}
    BY EnvFields, UpdateAssumption DEF UpdateAssumption
  <1>2. e.size = Part(e.origin.size, e.origin_offset) /\ Level(e, e.origin_offset)
    BY DEF OffsetsOK
  <1>3. Level(g, e.origin_offset + e.size)
    BY <1>1, <1>2, LevelAdvances DEF Level
  <1> QED  BY <1>3 DEF OffsetsOK

\* The copy c of the step changed the user region in its range only.
LEMMA ToUserKeeps ==
  ASSUME NEW fl, NEW gl, FlashOK(fl), NEW e \in EnvType, e.step = "USER_TO_SWAP",
         FwPages[e.origin.fw] <= e.origin.size, Exchange(fl, e), NEW done,
         Copies(fl, gl, ToUserCopy(e), done)
  PROVE  Exchange(gl, e) /\ gl["update"] = fl["update"] /\ gl["swap"] = fl["swap"]
  <1> DEFINE m == Part(e.update.size, e.update_offset)
             c == ToUserCopy(e)
  <1>0. c.to = "user" /\ c.at = e.update_offset /\ c.n = m
    BY DEF ToUserCopy
  <1>1. /\ e.origin.size \in Nat /\ e.update.size \in Nat
        /\ e.origin_offset \in Nat /\ e.update_offset \in Nat /\ e.size \in Nat
        /\ m \in Nat /\ Pages \in Nat
        /\ FwPages[e.origin.fw] \in 1 .. Pages /\ FwPages[e.update.fw] \in 1 .. Pages
    BY EnvFields, EnvParts, FwPagesType
  <1>2. gl["update"] = fl["update"] /\ gl["swap"] = fl["swap"]
    BY <1>0 DEF Copies, Regions
  <1>3. \A i \in 0 .. Pages - 1 :
          i < e.update_offset \/ e.update_offset + m <= i => gl["user"][i] = fl["user"][i]
    <2> SUFFICES ASSUME NEW i \in 0 .. Pages - 1,
                        i < e.update_offset \/ e.update_offset + m <= i
                 PROVE  gl["user"][i] = fl["user"][i]
      OBVIOUS
    <2>1. i \notin e.update_offset .. e.update_offset + m - 1
      BY <1>1
    <2> QED  BY <1>0, <2>1 DEF Copies, FlashOK
  <1>4. OldPages(gl, e)
    <2> SUFFICES ASSUME NEW i \in 0 .. FwPages[e.origin.fw] - 1
                 PROVE  /\ i < e.origin_offset => gl["update"][i] = Page(e.origin.fw, i)
                        /\ e.origin_offset <= i /\ i < e.origin_offset + e.size =>
                             gl["swap"][i - e.origin_offset] = Page(e.origin.fw, i)
                        /\ e.origin_offset + e.size <= i => gl["user"][i] = Page(e.origin.fw, i)
      BY <1>0 DEF OldPages
    <2>1. /\ i \in Nat /\ i \in 0 .. Pages - 1 /\ i < e.origin.size
      BY <1>1
    <2>2. e.origin_offset + e.size <= i => e.update_offset + m <= i
      BY <1>0, <2>1, ToUserRange DEF Exchange
    <2>3. e.origin_offset + e.size <= i => gl["user"][i] = fl["user"][i]
      BY <1>3, <2>1, <2>2
    <2> QED  BY <1>0, <1>2, <2>3 DEF Exchange, OldPages
  <1>5. NewPages(gl, e)
    <2> SUFFICES ASSUME NEW i \in 0 .. FwPages[e.update.fw] - 1
                 PROVE  /\ i < e.update_offset => gl["user"][i] = Page(e.update.fw, i)
                        /\ e.update_offset <= i => gl["update"][i] = Page(e.update.fw, i)
      BY <1>0 DEF NewPages
    <2>1. i \in 0 .. Pages - 1
      BY <1>1
    <2> QED  BY <1>0, <1>2, <1>3, <2>1 DEF Exchange, NewPages
  <1> QED  BY <1>0, <1>2, <1>4, <1>5 DEF Exchange

LEMMA ToUserMoves ==
  ASSUME NEW fl, NEW gl, FlashOK(fl), NEW e \in EnvType, e.step = "USER_TO_SWAP",
         FwPages[e.origin.fw] <= e.origin.size, Exchange(fl, e),
         Copies(fl, gl, ToUserCopy(e), Part(e.update.size, e.update_offset)),
         NEW g \in EnvType,
         Progressed(e, g, "UPDATE_TO_USER", e.size, e.origin_offset,
                    e.update_offset + Part(e.update.size, e.update_offset))
  PROVE  Exchange(gl, g)
  <1> DEFINE m == Part(e.update.size, e.update_offset)
             c == ToUserCopy(e)
  <1>0. /\ c.to = "user" /\ c.at = e.update_offset /\ c.from = "update"
        /\ c.start = e.update_offset /\ c.n = m
        /\ g.step = "UPDATE_TO_USER" /\ g.size = e.size /\ g.origin_offset = e.origin_offset
        /\ g.update_offset = e.update_offset + m /\ g.origin = e.origin /\ g.update = e.update
    BY DEF ToUserCopy, Progressed
  <1>1. /\ e.update_offset \in Nat /\ m \in Nat /\ Pages \in Nat
        /\ FwPages[e.update.fw] \in 1 .. Pages
    BY EnvFields, EnvParts, FwPagesType
  <1>2. Exchange(gl, e) /\ gl["update"] = fl["update"]
    BY ToUserKeeps
  <1>3. OffsetsOK(g)
    BY <1>0, ToUserLevel DEF Exchange
  <1>4. OldPages(gl, g)
    BY <1>0, <1>2 DEF Exchange, OldPages
  <1>5. NewPages(gl, g)
    <2> SUFFICES ASSUME NEW i \in 0 .. FwPages[e.update.fw] - 1
                 PROVE  /\ i < e.update_offset + m => gl["user"][i] = Page(e.update.fw, i)
                        /\ e.update_offset + m <= i => gl["update"][i] = Page(e.update.fw, i)
      BY <1>0 DEF NewPages
    <2>1. i \in 0 .. Pages - 1 /\ i \in Nat
      BY <1>1
    <2>2. /\ i < e.update_offset => gl["user"][i] = Page(e.update.fw, i)
          /\ e.update_offset <= i => gl["update"][i] = Page(e.update.fw, i)
      BY <1>0, <1>2 DEF Exchange, NewPages
    <2>3. ASSUME e.update_offset <= i, i < e.update_offset + m
          PROVE  gl["user"][i] = fl["update"][i]
      <3>1. i \in e.update_offset .. e.update_offset + m - 1
        BY <1>1, <2>1, <2>3
      <3>2. gl["user"][i] = fl["update"][e.update_offset + i - e.update_offset]
        BY <1>0, <2>1, <2>3, <3>1 DEF Copies, FlashOK
      <3> QED  BY <1>1, <2>1, <3>2
    <2> QED  BY <1>1, <1>2, <2>1, <2>2, <2>3
  <1> QED  BY <1>0, <1>2, <1>3, <1>4, <1>5 DEF Exchange

-----------------------------------------------------------------------------
(***************************************************************************)
(* The third copy: swap block to update region.                            *)
(***************************************************************************)
LEMMA ToUpdateKeeps ==
  ASSUME NEW fl, NEW gl, FlashOK(fl), NEW e \in EnvType, e.step = "UPDATE_TO_USER",
         Exchange(fl, e), NEW done,
         Copies(fl, gl, ToUpdateCopy(e), done)
  PROVE  Exchange(gl, e) /\ gl["user"] = fl["user"] /\ gl["swap"] = fl["swap"]
  <1> DEFINE c == ToUpdateCopy(e)
  <1>0. c.to = "update" /\ c.at = e.origin_offset /\ c.n = e.size
    BY DEF ToUpdateCopy
  <1>1. /\ e.origin.size \in Nat /\ e.update.size \in Nat
        /\ e.origin_offset \in Nat /\ e.update_offset \in Nat /\ e.size \in Nat
        /\ Pages \in Nat
        /\ FwPages[e.origin.fw] \in 1 .. Pages /\ FwPages[e.update.fw] \in 1 .. Pages
    BY EnvFields, FwPagesType, UpdateAssumption DEF UpdateAssumption
  <1>2. gl["user"] = fl["user"] /\ gl["swap"] = fl["swap"]
    BY <1>0 DEF Copies, Regions
  <1>3. \A i \in 0 .. Pages - 1 :
          i < e.origin_offset \/ e.origin_offset + e.size <= i => gl["update"][i] = fl["update"][i]
    <2> SUFFICES ASSUME NEW i \in 0 .. Pages - 1,
                        i < e.origin_offset \/ e.origin_offset + e.size <= i
                 PROVE  gl["update"][i] = fl["update"][i]
      OBVIOUS
    <2>1. i \notin e.origin_offset .. e.origin_offset + e.size - 1
      BY <1>1
    <2> QED  BY <1>0, <2>1 DEF Copies, FlashOK
  <1>4. OldPages(gl, e)
    <2> SUFFICES ASSUME NEW i \in 0 .. FwPages[e.origin.fw] - 1
                 PROVE  /\ i < e.origin_offset => gl["update"][i] = Page(e.origin.fw, i)
                        /\ e.origin_offset <= i /\ i < e.origin_offset + e.size =>
                             gl["swap"][i - e.origin_offset] = Page(e.origin.fw, i)
                        /\ e.origin_offset + e.size <= i => gl["user"][i] = Page(e.origin.fw, i)
      BY <1>0 DEF OldPages
    <2>1. i \in 0 .. Pages - 1
      BY <1>1
    <2> QED  BY <1>0, <1>2, <1>3, <2>1 DEF Exchange, OldPages
  <1>5. NewPages(gl, e)
    <2> SUFFICES ASSUME NEW i \in 0 .. FwPages[e.update.fw] - 1
                 PROVE  /\ i < e.update_offset => gl["user"][i] = Page(e.update.fw, i)
                        /\ e.update_offset <= i => gl["update"][i] = Page(e.update.fw, i)
      BY <1>0 DEF NewPages
    <2>1. i \in 0 .. Pages - 1 /\ i \in Nat /\ i < e.update.size
      BY <1>0, <1>1 DEF Exchange
    <2>2. Level(e, e.origin_offset + e.size)
      BY DEF Exchange, OffsetsOK
    <2>3. e.update_offset <= i => e.origin_offset + e.size <= i
      BY <1>1, <2>1, <2>2 DEF Level, Lesser
    <2> QED  BY <1>0, <1>2, <1>3, <2>1, <2>3 DEF Exchange, NewPages
  <1> QED  BY <1>0, <1>2, <1>4, <1>5 DEF Exchange

LEMMA ToUpdateMoves ==
  ASSUME NEW fl, NEW gl, FlashOK(fl), NEW e \in EnvType, e.step = "UPDATE_TO_USER",
         Exchange(fl, e), Copies(fl, gl, ToUpdateCopy(e), e.size), NEW g \in EnvType,
         Progressed(e, g, "SWAP_TO_UPDATE", 0, e.origin_offset + e.size, e.update_offset)
  PROVE  Exchange(gl, g)
  <1> DEFINE c == ToUpdateCopy(e)
  <1>0. /\ c.to = "update" /\ c.at = e.origin_offset /\ c.from = "swap" /\ c.start = 0
        /\ c.n = e.size
        /\ g.step = "SWAP_TO_UPDATE" /\ g.size = 0 /\ g.origin_offset = e.origin_offset + e.size
        /\ g.update_offset = e.update_offset /\ g.origin = e.origin /\ g.update = e.update
    BY DEF ToUpdateCopy, Progressed
  <1>1. /\ e.origin_offset \in Nat /\ e.size \in Nat /\ Pages \in Nat
        /\ FwPages[e.origin.fw] \in 1 .. Pages
    BY EnvFields, FwPagesType, UpdateAssumption DEF UpdateAssumption
  <1>2. Exchange(gl, e) /\ gl["user"] = fl["user"] /\ gl["swap"] = fl["swap"]
    BY ToUpdateKeeps
  <1>3. OffsetsOK(g)
    BY <1>0 DEF Exchange, OffsetsOK, Level
  <1>4. OldPages(gl, g)
    <2> SUFFICES ASSUME NEW i \in 0 .. FwPages[e.origin.fw] - 1
                 PROVE  /\ i < e.origin_offset + e.size => gl["update"][i] = Page(e.origin.fw, i)
                        /\ e.origin_offset + e.size <= i => gl["user"][i] = Page(e.origin.fw, i)
      BY <1>0, <1>1 DEF OldPages
    <2>1. i \in 0 .. Pages - 1 /\ i \in Nat
      BY <1>1
    <2>2. /\ i < e.origin_offset => gl["update"][i] = Page(e.origin.fw, i)
          /\ e.origin_offset <= i /\ i < e.origin_offset + e.size =>
               fl["swap"][i - e.origin_offset] = Page(e.origin.fw, i)
          /\ e.origin_offset + e.size <= i => gl["user"][i] = Page(e.origin.fw, i)
      BY <1>0, <1>2 DEF Exchange, OldPages
    <2>3. ASSUME e.origin_offset <= i, i < e.origin_offset + e.size
          PROVE  gl["update"][i] = fl["swap"][i - e.origin_offset]
      <3>1. i \in e.origin_offset .. e.origin_offset + e.size - 1
        BY <1>1, <2>1, <2>3
      <3>2. gl["update"][i] = fl["swap"][0 + i - e.origin_offset]
        BY <1>0, <2>1, <2>3, <3>1 DEF Copies, FlashOK
      <3> QED  BY <1>1, <2>1, <3>2
    <2> QED  BY <1>1, <2>1, <2>2, <2>3
  <1>5. NewPages(gl, g)
    BY <1>0, <1>2 DEF Exchange, NewPages
  <1> QED  BY <1>0, <1>2, <1>3, <1>4, <1>5 DEF Exchange
-----------------------------------------------------------------------------
(***************************************************************************)
(* The steps.                                                              *)
(***************************************************************************)
LEMMA SavingIs ==
  Saving = {"saveToSwap", "saveToUser", "saveToUpdate", "saveComplete", "saveRecovered",
            "saveNormal", "saveOk", "saveUpdate"}
  BY DEF Saving, After

LEMMA InitInv == Init => Inv
  <1> SUFFICES ASSUME Init PROVE Inv
    OBVIOUS
  <1>0. 0 \in Firmwares /\ Pages \in Nat \ {0} /\ Block \in Nat \ {0} /\ FwPages[0] \in 1 .. Pages
    BY FwPagesType, UpdateAssumption DEF UpdateAssumption
  <1>1. DefaultEnv \in EnvType
    <2>1. 0 \in 0 .. Pages /\ Pages \in 0 .. Pages /\ 0 \in 0 .. Block
      BY <1>0
    <2> QED  BY <1>0, <2>1 DEF DefaultEnv, EnvType, Flags, Steps
  <1>2. TypeOK
    BY <1>0, <1>1 DEF Init, TypeOK
  <1>3. FlashOK(flash)
    BY DEF Init, FlashOK, Regions, Image
  <1>4. HoldsIn(flash, "user", 0)
    BY <1>0 DEF Init, HoldsIn, Image
  <1>5. pc = "off" /\ env = DefaultEnv
    BY DEF Init
  <1>6. Durable(flash, env)
    BY <1>0, <1>4, <1>5 DEF Durable, DefaultEnv, AtRest
  <1>7. Kept(env) \in confirmed
    BY DEF Init, Kept, DefaultEnv
  <1> QED  BY <1>2, <1>3, <1>5, <1>6, <1>7, SavingIs
           DEF Inv, PcInv, DurableInv, WholeInv, KeptInv

\* A step that changes neither flash nor the environments and saves nothing.
LEMMA QuietStep ==
  ASSUME Inv, UNCHANGED <<flash, env, ram, confirmed>>, pc' \notin Saving
  PROVE  FlashOK(flash)' /\ DurableInv' /\ KeptInv' /\ (WholeInv' <=>
           (pc' \in {"app", "saveOk", "running", "download", "stopped"} =>
              HoldsIn(flash, "user", env.origin.fw)))
  BY DEF Inv, FlashOK, DurableInv, KeptInv, Durable, WholeInv, Kept, Exchange, OldPages,
         NewPages, HoldsIn, Saving, After

LEMMA LoopStep ==
  ASSUME Inv,
         \/ UpdateLoop
         \/ Skip("toSwap", {"INIT", "SWAP_TO_UPDATE"}, "toUser")
         \/ Skip("toUser", {"USER_TO_SWAP"}, "toUpdate")
         \/ Skip("toUpdate", {"UPDATE_TO_USER"}, "while")
  PROVE  Inv'
  <1>1. /\ pc \in {"while", "toSwap", "toUser", "toUpdate"}
        /\ pc' \in {"while", "toSwap", "toUser", "toUpdate"}
        /\ UNCHANGED <<flash, env, ram, confirmed, offer, download_size>>
    BY DEF UpdateLoop, Skip, Unchanged
  <1>2. FlashOK(flash)' /\ DurableInv' /\ KeptInv' /\ WholeInv'
    BY <1>1, QuietStep, SavingIs
  <1>3. TypeOK'
    BY <1>1 DEF Inv, TypeOK
  <1>4. PcInv'
    BY <1>1 DEF Inv, PcInv
  <1> QED  BY <1>2, <1>3, <1>4 DEF Inv

LEMMA AppStartsStep ==
  ASSUME Inv, AppStarts
  PROVE  Inv'
  <1>1. /\ pc = "app" /\ pc' = "running" /\ env.flag # "UPDATE_COMPLETE"
        /\ UNCHANGED <<flash, env, ram, confirmed, offer, download_size>>
    BY DEF AppStarts, Unchanged
  <1>2. FlashOK(flash)' /\ DurableInv' /\ KeptInv' /\ WholeInv'
    BY <1>1, QuietStep, SavingIs DEF Inv, WholeInv
  <1>3. TypeOK'
    BY <1>1 DEF Inv, TypeOK
  <1>4. PcInv'
    <2>1. env.flag \in Flags
      BY EnvFields DEF Inv, TypeOK
    <2> QED  BY <1>1, <2>1 DEF Inv, PcInv, Flags
  <1> QED  BY <1>2, <1>3, <1>4 DEF Inv

LEMMA GetUpgradeStep ==
  ASSUME Inv, NEW f \in Firmwares, GetUpgrade(f)
  PROVE  Inv'
  <1>1. /\ pc = "running" /\ pc' = "download" /\ offer' = f /\ download_size' = 0
        /\ UNCHANGED <<flash, env, ram, confirmed>>
    BY DEF GetUpgrade
  <1>2. FlashOK(flash)' /\ DurableInv' /\ KeptInv' /\ WholeInv'
    BY <1>1, QuietStep, SavingIs DEF Inv, WholeInv
  <1>3. TypeOK'
    BY <1>1, UpdateAssumption DEF Inv, TypeOK, UpdateAssumption
  <1>4. PcInv'
    BY <1>1, FwPagesType DEF Inv, PcInv
  <1> QED  BY <1>2, <1>3, <1>4 DEF Inv

LEMMA StopUpgradeStep ==
  ASSUME Inv, StopUpgrade
  PROVE  Inv'
  <1>1. /\ pc = "download" /\ pc' = "stopped"
        /\ UNCHANGED <<flash, env, ram, confirmed, offer, download_size>>
    BY DEF StopUpgrade, Unchanged
  <1>2. FlashOK(flash)' /\ DurableInv' /\ KeptInv' /\ WholeInv'
    BY <1>1, QuietStep, SavingIs DEF Inv, WholeInv
  <1>3. TypeOK'
    BY <1>1 DEF Inv, TypeOK
  <1>4. PcInv'
    BY <1>1 DEF Inv, PcInv
  <1> QED  BY <1>2, <1>3, <1>4 DEF Inv

\* The download writes the update region while nothing counts on it.
LEMMA DownloadPageStep ==
  ASSUME Inv, DownloadPage
  PROVE  Inv'
  <1>1. /\ pc = "download" /\ pc' = "download" /\ download_size < FwPages[offer]
        /\ download_size' = download_size + 1
        /\ UNCHANGED <<env, ram, pc, offer, confirmed>>
    BY DEF DownloadPage
  <1>2. FlashOK(flash') /\ flash'["user"] = flash["user"]
    <2>1. PICK p : flash' = [flash EXCEPT !["update"] = [flash["update"] EXCEPT ![download_size] = p]]
      BY DEF DownloadPage
    <2> QED  BY <2>1 DEF Inv, FlashOK, Regions
  <1>3. offer \in Firmwares /\ download_size \in Nat /\ FwPages[offer] \in 1 .. Pages /\ Pages \in Nat
    BY FwPagesType, UpdateAssumption DEF Inv, TypeOK, UpdateAssumption
  <1>4. TypeOK'
    BY <1>1, <1>2, <1>3 DEF Inv, TypeOK, FlashOK, Regions
  <1>5. PcInv'
    BY <1>1, <1>3 DEF Inv, PcInv
  <1>6. env.flag \in {"NORMAL", "UPDATE_OK"} /\ pc' \notin Saving
    BY <1>1, SavingIs DEF Inv, PcInv
  <1>7. Durable(flash', env)
    BY <1>2, <1>6 DEF Inv, DurableInv, Durable, HoldsIn
  <1>8. WholeInv'
    BY <1>1, <1>2 DEF Inv, WholeInv, HoldsIn
  <1>9. DurableInv' /\ KeptInv'
    BY <1>1, <1>6, <1>7 DEF Inv, DurableInv, KeptInv
  <1> QED  BY <1>2, <1>4, <1>5, <1>8, <1>9 DEF Inv

\* The exchange starts with nothing moved and the new firmware whole in the update
\* region.
LEMMA StartUpdateStep ==
  ASSUME Inv, StartUpdate
  PROVE  Inv'
  <1>1. /\ pc = "download" /\ pc' = "saveUpdate"
        /\ ram' = [env EXCEPT !.flag = "UPDATE", !.update = [fw |-> offer, size |-> FwPages[offer]]]
        /\ Holds("update", offer)
        /\ UNCHANGED <<flash, env, confirmed, offer, download_size>>
    BY DEF StartUpdate, Unchanged
  <1>2. /\ env \in EnvType /\ offer \in Firmwares /\ FwPages[offer] \in 1 .. Pages /\ Pages \in Nat
        /\ env.flag \in {"NORMAL", "UPDATE_OK"} /\ env.origin.size \in Nat
    BY <1>1, FwPagesType, EnvFields, UpdateAssumption DEF Inv, TypeOK, PcInv, UpdateAssumption
  <1>3. /\ ram' \in EnvType /\ ram'.flag = "UPDATE" /\ ram'.origin = env.origin
        /\ ram'.update.fw = offer /\ ram'.update.size = FwPages[offer] /\ ram'.step = env.step
        /\ ram'.origin_offset = env.origin_offset /\ ram'.update_offset = env.update_offset
        /\ ram'.size = env.size
    <2>1. [fw |-> offer, size |-> FwPages[offer]] \in [fw : Firmwares, size : 0 .. Pages]
      BY <1>2
    <2> QED  BY <1>1, <1>2, <2>1 DEF EnvType, Flags
  <1>4. Durable(flash, env) /\ AtRest(env) /\ HoldsIn(flash, "user", env.origin.fw)
    BY <1>2 DEF Inv, DurableInv, Durable
  <1>5. Durable(flash, ram')
    <2>1. OffsetsOK(ram')
      BY <1>2, <1>3, <1>4 DEF OffsetsOK, Level, Lesser, AtRest
    <2>2. OldPages(flash, ram')
      BY <1>3, <1>4, <1>2, FwPagesType, EnvFields DEF OldPages, HoldsIn, AtRest
    <2>3. NewPages(flash, ram')
      BY <1>1, <1>2, <1>3, <1>4 DEF NewPages, Holds, AtRest
    <2> QED  BY <1>3, <1>4, <2>1, <2>2, <2>3 DEF Durable, Exchange
  <1>6. TypeOK'
    BY <1>1, <1>3, SavingIs DEF Inv, TypeOK, Saving
  <1>7. PcInv'
    BY <1>1, <1>3 DEF PcInv
  <1>8. DurableInv' /\ KeptInv' /\ WholeInv' /\ FlashOK(flash')
    BY <1>1, <1>2, <1>3, <1>4, <1>5 DEF Inv, DurableInv, KeptInv, Kept, WholeInv
  <1> QED  BY <1>6, <1>7, <1>8 DEF Inv

LEMMA AppConfirmsStep ==
  ASSUME Inv, AppConfirms
  PROVE  Inv'
  <1>1. /\ pc = "app" /\ pc' = "saveOk" /\ env.flag = "UPDATE_COMPLETE"
        /\ ram' = [env EXCEPT !.flag = "UPDATE_OK"]
        /\ UNCHANGED <<flash, env, confirmed, offer, download_size>>
    BY DEF AppConfirms, Unchanged
  <1>2. env \in EnvType
    BY DEF Inv, TypeOK
  <1>3. /\ ram' \in EnvType /\ ram'.flag = "UPDATE_OK" /\ ram'.origin = env.origin
        /\ ram'.step = env.step /\ ram'.origin_offset = env.origin_offset
        /\ ram'.update_offset = env.update_offset /\ ram'.size = env.size
    BY <1>1, <1>2 DEF EnvType, Flags
  <1>4. HoldsIn(flash, "user", env.origin.fw) /\ Durable(flash, env)
    BY <1>1 DEF Inv, WholeInv, DurableInv
  <1>5. Durable(flash, ram')
    BY <1>1, <1>3, <1>4 DEF Durable, AtRest
  <1>6. TypeOK'
    BY <1>1, <1>3, SavingIs DEF Inv, TypeOK, Saving
  <1>7. PcInv'
    BY <1>1, <1>3 DEF PcInv
  <1>8. DurableInv' /\ KeptInv' /\ WholeInv' /\ FlashOK(flash')
    BY <1>1, <1>4, <1>5 DEF Inv, DurableInv, KeptInv, WholeInv
  <1> QED  BY <1>6, <1>7, <1>8 DEF Inv

LEMMA PowerOnStep ==
  ASSUME Inv, PowerOn
  PROVE  Inv'
  <1>1. /\ pc = "off"
        /\ ram' = IF env.flag = "UPDATE_OK" THEN [env EXCEPT !.flag = "NORMAL"] ELSE env
        /\ UNCHANGED <<flash, env, confirmed, offer, download_size>>
    BY DEF PowerOn, Unchanged
  <1>2. env \in EnvType /\ env.flag \in Flags /\ Durable(flash, env)
    BY EnvFields DEF Inv, TypeOK, DurableInv
  <1>3. CASE env.flag = "UPDATE_OK"
    <2>1. pc' = "saveNormal"
      BY <1>3 DEF PowerOn
    <2>2. /\ ram' \in EnvType /\ ram'.flag = "NORMAL" /\ ram'.origin = env.origin
          /\ ram'.step = env.step /\ ram'.origin_offset = env.origin_offset
          /\ ram'.update_offset = env.update_offset /\ ram'.size = env.size
      BY <1>1, <1>2, <1>3 DEF EnvType, Flags
    <2>3. Durable(flash, ram')
      BY <1>2, <1>3, <2>2 DEF Durable, AtRest
    <2>4. TypeOK'
      BY <1>1, <2>1, <2>2, SavingIs DEF Inv, TypeOK, Saving
    <2>5. PcInv'
      BY <2>1, <2>2 DEF PcInv
    <2>6. DurableInv' /\ KeptInv' /\ WholeInv' /\ FlashOK(flash')
      BY <1>1, <1>2, <1>3, <2>1, <2>2, <2>3 DEF Inv, DurableInv, KeptInv, Kept, WholeInv
    <2> QED  BY <2>4, <2>5, <2>6 DEF Inv
  <1>4. CASE env.flag # "UPDATE_OK"
    <2>1. /\ env.flag = "UPDATE" => pc' = "while"
          /\ env.flag = "UPDATE_COMPLETE" => pc' = "recover"
          /\ env.flag = "NORMAL" => pc' = "app"
          /\ env.flag \in {"UPDATE", "UPDATE_COMPLETE", "NORMAL"}
      BY <1>2, <1>4 DEF PowerOn, Flags
    <2>2. ram' = env /\ pc' \in {"while", "recover", "app"}
      BY <1>1, <1>4, <2>1
    <2>3. TypeOK'
      BY <1>1, <1>2, <2>2 DEF Inv, TypeOK
    <2>4. PcInv'
      BY <1>1, <2>1, <2>2 DEF PcInv
    <2>5. WholeInv'
      BY <1>1, <1>2, <2>1, <2>2 DEF WholeInv, Durable
    <2>6. DurableInv' /\ KeptInv' /\ FlashOK(flash')
      BY <1>1, <2>2, SavingIs DEF Inv, DurableInv, KeptInv
    <2> QED  BY <2>3, <2>4, <2>5, <2>6 DEF Inv
  <1> QED  BY <1>3, <1>4

\* While the exchange runs, the environment in RAM is the saved one.
LEMMA Exchanging ==
  ASSUME Inv, pc \in {"while", "toSwap", "toUser", "toUpdate"}
  PROVE  /\ ram = env /\ ram \in EnvType /\ ram.flag = "UPDATE" /\ FlashOK(flash)
         /\ Durable(flash, ram) /\ Exchange(flash, ram) /\ Kept(ram) \in confirmed
         /\ FwPages[ram.origin.fw] <= ram.origin.size
  BY DEF Inv, TypeOK, PcInv, DurableInv, Durable, KeptInv

\* What is left to prove of a step of the exchange that is to be saved.
LEMMA SavingStep ==
  ASSUME Inv, ram = env, ram.flag = "UPDATE", pc' \in {"saveToSwap", "saveToUser", "saveToUpdate"},
         ram' \in EnvType, ram'.flag = "UPDATE", ram'.origin = ram.origin,
         FlashOK(flash'), Exchange(flash', ram), Exchange(flash', ram'),
         UNCHANGED <<env, offer, download_size, confirmed>>
  PROVE  Inv'
  <1>1. TypeOK'
    BY SavingIs DEF Inv, TypeOK, Saving, FlashOK, Regions
  <1>2. PcInv'
    BY DEF PcInv
  <1>3. Durable(flash', ram) /\ Durable(flash', ram')
    BY DEF Inv, DurableInv, Durable
  <1>4. DurableInv' /\ KeptInv' /\ WholeInv'
    BY <1>3 DEF Inv, DurableInv, KeptInv, Kept, WholeInv
  <1> QED  BY <1>1, <1>2, <1>4 DEF Inv

LEMMA CopyUserToSwapStep ==
  ASSUME Inv, CopyUserToSwap
  PROVE  Inv'
  <1> DEFINE n == Part(ram.origin.size, ram.origin_offset)
  <1>1. /\ pc = "toSwap" /\ pc' = "saveToSwap" /\ ram.step \in {"INIT", "SWAP_TO_UPDATE"}
        /\ flash' = [flash EXCEPT ![UserToSwap.to] = Copied(UserToSwap, UserToSwap.n)]
        /\ ram' = IF n = 0 THEN [ram EXCEPT !.step = "USER_TO_SWAP"]
                  ELSE [ram EXCEPT !.step = "USER_TO_SWAP", !.size = n,
                                   !.origin_offset = ram.origin_offset + ram.size]
        /\ UNCHANGED <<env, offer, download_size, confirmed>>
    BY DEF CopyUserToSwap, Unchanged, WriteFw, UserToSwap
  <1>2. /\ ram = env /\ ram \in EnvType /\ ram.flag = "UPDATE" /\ FlashOK(flash)
        /\ Exchange(flash, ram)
    BY <1>1, Exchanging
  <1>3. ram.size = 0 /\ n \in 0 .. Block /\ ram.origin_offset \in 0 .. Pages /\ ram.origin_offset \in Nat
    BY <1>1, <1>2, EnvFields, EnvParts DEF Exchange, OffsetsOK
  <1>4. ram.origin_offset + ram.size = ram.origin_offset
    BY <1>3
  <1>5. /\ ram' \in EnvType /\ ram'.flag = "UPDATE" /\ ram'.step = "USER_TO_SWAP"
        /\ ram'.size = n /\ ram'.origin_offset = ram.origin_offset
        /\ ram'.update_offset = ram.update_offset
        /\ ram'.origin = ram.origin /\ ram'.update = ram.update
    <2> HIDE DEF n
    <2> QED  BY <1>1, <1>2, <1>3, <1>4 DEF EnvType, Steps
  <1>6. UserToSwap.to \in Regions /\ UserToSwap.n = n
    BY DEF UserToSwap, Regions
  <1>7. FlashOK(flash') /\ Copies(flash, flash', UserToSwap, UserToSwap.n)
    BY <1>1, <1>2, <1>6, CopyDoes
  <1>8. Exchange(flash', ram)
    <2>1. flash'["user"] = flash["user"] /\ flash'["update"] = flash["update"]
      BY <1>7 DEF Copies, Regions, UserToSwap
    <2> QED  BY <1>1, <1>2, <2>1, ToSwapKeeps
  <1>9. Exchange(flash', ram')
    <2>1. Copies(flash, flash', ToSwapCopy(ram), n)
      BY <1>6, <1>7 DEF UserToSwap, ToSwapCopy
    <2>2. Progressed(ram, ram', "USER_TO_SWAP", n, ram.origin_offset, ram.update_offset)
      BY <1>2, <1>5 DEF Progressed
    <2> QED  BY <1>1, <1>2, <1>5, <2>1, <2>2, ToSwapMoves
  <1> QED  BY <1>1, <1>2, <1>5, <1>7, <1>8, <1>9, SavingStep

LEMMA CopyUpdateToUserStep ==
  ASSUME Inv, CopyUpdateToUser
  PROVE  Inv'
  <1> DEFINE m == Part(ram.update.size, ram.update_offset)
  <1>1. /\ pc = "toUser" /\ pc' = "saveToUser" /\ ram.step = "USER_TO_SWAP"
        /\ flash' = [flash EXCEPT ![UpdateToUser.to] = Copied(UpdateToUser, UpdateToUser.n)]
        /\ ram' = [ram EXCEPT !.update_offset = ram.update_offset + m, !.step = "UPDATE_TO_USER"]
        /\ UNCHANGED <<env, offer, download_size, confirmed>>
    BY DEF CopyUpdateToUser, Unchanged, WriteFw, UpdateToUser
  <1>2. /\ ram = env /\ ram \in EnvType /\ ram.flag = "UPDATE" /\ FlashOK(flash)
        /\ Exchange(flash, ram) /\ FwPages[ram.origin.fw] <= ram.origin.size
    BY <1>1, Exchanging
  <1>3. ram.update_offset + m \in 0 .. Pages
    <2>1. /\ ram.update.size \in 0 .. Pages /\ ram.update_offset \in Nat /\ m \in Nat
          /\ Pages \in Nat /\ ram.update.size \in Nat
      BY <1>2, EnvFields, EnvParts
    <2>2. ram.update_offset <= ram.update.size
      BY <1>1, <1>2 DEF Exchange, OffsetsOK, Level
    <2>3. ram.update_offset + m <= ram.update.size
      BY <2>1, <2>2, PartIs
    <2> QED  BY <2>1, <2>3
  <1>5. /\ ram' \in EnvType /\ ram'.flag = "UPDATE" /\ ram'.step = "UPDATE_TO_USER"
        /\ ram'.size = ram.size /\ ram'.origin_offset = ram.origin_offset
        /\ ram'.update_offset = ram.update_offset + m
        /\ ram'.origin = ram.origin /\ ram'.update = ram.update
    <2> HIDE DEF m
    <2> QED  BY <1>1, <1>2, <1>3 DEF EnvType, Steps
  <1>6. UpdateToUser.to \in Regions /\ UpdateToUser.n = m
    BY DEF UpdateToUser, Regions
  <1>7. FlashOK(flash') /\ Copies(flash, flash', ToUserCopy(ram), m)
    BY <1>1, <1>2, <1>6, CopyDoes DEF UpdateToUser, ToUserCopy
  <1>8. Exchange(flash', ram)
    BY <1>1, <1>2, <1>7, ToUserKeeps
  <1>9. Exchange(flash', ram')
    <2>1. Progressed(ram, ram', "UPDATE_TO_USER", ram.size, ram.origin_offset, ram.update_offset + m)
      BY <1>2, <1>5 DEF Progressed
    <2> QED  BY <1>1, <1>2, <1>5, <1>7, <2>1, ToUserMoves
  <1> QED  BY <1>1, <1>2, <1>5, <1>7, <1>8, <1>9, SavingStep

LEMMA CopySwapToUpdateStep ==
  ASSUME Inv, CopySwapToUpdate
  PROVE  Inv'
  <1>1. /\ pc = "toUpdate" /\ pc' = "saveToUpdate" /\ ram.step = "UPDATE_TO_USER"
        /\ flash' = [flash EXCEPT ![SwapToUpdate.to] = Copied(SwapToUpdate, SwapToUpdate.n)]
        /\ ram' = [ram EXCEPT !.origin_offset = ram.origin_offset + ram.size, !.size = 0,
                              !.step = "SWAP_TO_UPDATE"]
        /\ UNCHANGED <<env, offer, download_size, confirmed>>
    BY DEF CopySwapToUpdate, Unchanged, WriteFw
  <1>2. /\ ram = env /\ ram \in EnvType /\ ram.flag = "UPDATE" /\ FlashOK(flash)
        /\ Exchange(flash, ram)
    BY <1>1, Exchanging
  <1>3. ram.origin_offset + ram.size \in 0 .. Pages /\ 0 \in 0 .. Block
    <2>1. /\ ram.origin.size \in 0 .. Pages /\ ram.origin_offset \in Nat /\ ram.size \in Nat
          /\ Pages \in Nat /\ Block \in Nat
      BY <1>2, EnvFields, EnvParts
    <2>2. ram.origin_offset + ram.size <= ram.origin.size
      BY <1>1, <1>2 DEF Exchange, OffsetsOK, Level
    <2> QED  BY <2>1, <2>2
  <1>5. /\ ram' \in EnvType /\ ram'.flag = "UPDATE" /\ ram'.step = "SWAP_TO_UPDATE"
        /\ ram'.size = 0 /\ ram'.origin_offset = ram.origin_offset + ram.size
        /\ ram'.update_offset = ram.update_offset
        /\ ram'.origin = ram.origin /\ ram'.update = ram.update
    BY <1>1, <1>2, <1>3 DEF EnvType, Steps
  <1>6. SwapToUpdate.to \in Regions
    BY DEF SwapToUpdate, Regions
  <1>7. FlashOK(flash') /\ Copies(flash, flash', ToUpdateCopy(ram), ram.size)
    BY <1>1, <1>2, <1>6, CopyDoes DEF SwapToUpdate, ToUpdateCopy
  <1>8. Exchange(flash', ram)
    BY <1>1, <1>2, <1>7, ToUpdateKeeps
  <1>9. Exchange(flash', ram')
    <2>1. Progressed(ram, ram', "SWAP_TO_UPDATE", 0, ram.origin_offset + ram.size, ram.update_offset)
      BY <1>2, <1>5 DEF Progressed
    <2> QED  BY <1>1, <1>2, <1>5, <1>7, <2>1, ToUpdateMoves
  <1> QED  BY <1>1, <1>2, <1>5, <1>7, <1>8, <1>9, SavingStep

LEMMA CompleteStep ==
  ASSUME Inv, Complete
  PROVE  Inv'
  <1>1. /\ pc = "while" /\ pc' = "saveComplete" /\ Exchanged
        /\ ram' = [ram EXCEPT !.flag = "UPDATE_COMPLETE",
                              !.origin = ram.update, !.update = ram.origin,
                              !.step = "INIT", !.origin_offset = 0, !.update_offset = 0,
                              !.size = 0]
        /\ UNCHANGED <<flash, env, offer, download_size, confirmed>>
    BY DEF Complete, Unchanged
  <1>2. /\ ram = env /\ ram \in EnvType /\ ram.flag = "UPDATE" /\ FlashOK(flash)
        /\ Exchange(flash, ram) /\ Kept(ram) \in confirmed
        /\ FwPages[ram.origin.fw] <= ram.origin.size
    BY <1>1, Exchanging
  <1>3. /\ ram' \in EnvType /\ ram'.flag = "UPDATE_COMPLETE"
        /\ ram'.origin = ram.update /\ ram'.update = ram.origin /\ AtRest(ram')
    <2>1. /\ 0 \in 0 .. Pages /\ 0 \in 0 .. Block
          /\ ram.origin \in [fw : Firmwares, size : 0 .. Pages]
          /\ ram.update \in [fw : Firmwares, size : 0 .. Pages]
      BY <1>2, EnvFields, EnvParts
    <2> QED  BY <1>1, <1>2, <2>1 DEF EnvType, Flags, Steps, AtRest
  <1>4. /\ ram.update_offset = ram.update.size /\ ram.origin_offset = ram.origin.size
        /\ ram.update.size = FwPages[ram.update.fw]
    BY <1>1, <1>2 DEF Exchanged, Exchange
  <1>5. HoldsIn(flash, "user", ram.update.fw)
    <2> SUFFICES ASSUME NEW i \in 0 .. FwPages[ram.update.fw] - 1
                 PROVE  flash["user"][i] = Page(ram.update.fw, i)
      BY DEF HoldsIn
    <2>1. i < ram.update_offset
      BY <1>2, <1>4, EnvFields, FwPagesType
    <2> QED  BY <1>2, <2>1 DEF Exchange, NewPages
  <1>6. HoldsIn(flash, "update", ram.origin.fw)
    <2> SUFFICES ASSUME NEW i \in 0 .. FwPages[ram.origin.fw] - 1
                 PROVE  flash["update"][i] = Page(ram.origin.fw, i)
      BY DEF HoldsIn
    <2>1. /\ FwPages[ram.origin.fw] \in 1 .. Pages /\ ram.origin.size \in Nat /\ Pages \in Nat
      BY <1>2, EnvFields, EnvParts, FwPagesType
    <2>2. i < ram.origin_offset
      BY <1>2, <1>4, <2>1
    <2> QED  BY <1>2, <2>2 DEF Exchange, OldPages
  <1>7. FwPages[ram.update.fw] <= ram.update.size
    BY <1>2, <1>4, EnvFields
  <1>8. Durable(flash, ram')
    BY <1>2, <1>3, <1>6, <1>7 DEF Durable
  <1>9. TypeOK'
    BY <1>1, <1>3, SavingIs DEF Inv, TypeOK, Saving
  <1>10. PcInv'
    BY <1>1, <1>3, <1>5 DEF PcInv
  <1>11. DurableInv' /\ KeptInv' /\ WholeInv' /\ FlashOK(flash')
    BY <1>1, <1>2, <1>3, <1>8 DEF Inv, DurableInv, KeptInv, Kept, WholeInv
  <1> QED  BY <1>9, <1>10, <1>11 DEF Inv

\* The recovery writes the user region, which nothing counts on before it is saved.
LEMMA RecoverStep ==
  ASSUME Inv, Recover
  PROVE  Inv'
  <1>1. /\ pc = "recover" /\ pc' = "saveRecovered"
        /\ flash' = [flash EXCEPT ![UpdateBackToUser.to] = Copied(UpdateBackToUser, UpdateBackToUser.n)]
        /\ ram' = [ram EXCEPT !.flag = "NORMAL", !.origin = ram.update, !.step = "INIT",
                              !.origin_offset = 0, !.update_offset = 0, !.size = 0]
        /\ UNCHANGED <<env, offer, download_size, confirmed>>
    BY DEF Recover, Unchanged, WriteFw
  <1>2. /\ ram = env /\ ram \in EnvType /\ env.flag = "UPDATE_COMPLETE" /\ FlashOK(flash)
        /\ Durable(flash, env) /\ Kept(env) \in confirmed
    BY <1>1 DEF Inv, TypeOK, PcInv, DurableInv, KeptInv
  <1>3. /\ ram' \in EnvType /\ ram'.flag = "NORMAL" /\ ram'.origin = ram.update /\ AtRest(ram')
    <2>1. /\ 0 \in 0 .. Pages /\ 0 \in 0 .. Block
          /\ ram.update \in [fw : Firmwares, size : 0 .. Pages]
      BY <1>2, EnvFields, EnvParts
    <2> QED  BY <1>1, <1>2, <2>1 DEF EnvType, Flags, Steps, AtRest
  <1>4. FlashOK(flash') /\ Copies(flash, flash', UpdateBackToUser, UpdateBackToUser.n)
    <2>1. UpdateBackToUser.to \in Regions
      BY DEF UpdateBackToUser, Regions
    <2> QED  BY <1>1, <1>2, <2>1, CopyDoes
  <1>5. flash'["update"] = flash["update"]
    BY <1>4 DEF Copies, UpdateBackToUser, Regions
  <1>6. HoldsIn(flash', "user", ram.update.fw)
    <2> SUFFICES ASSUME NEW i \in 0 .. FwPages[ram.update.fw] - 1
                 PROVE  flash'["user"][i] = Page(ram.update.fw, i)
      BY DEF HoldsIn
    <2>1. /\ FwPages[ram.update.fw] <= ram.update.size
          /\ flash["update"][i] = Page(ram.update.fw, i)
      BY <1>2 DEF Durable, HoldsIn
    <2>2. /\ FwPages[ram.update.fw] \in 1 .. Pages /\ ram.update.size \in Nat /\ Pages \in Nat
      BY <1>2, EnvFields, EnvParts, FwPagesType
    <2>3. i \in 0 .. Pages - 1 /\ i \in 0 .. 0 + ram.update.size - 1 /\ i < 0 + ram.update.size
      BY <2>1, <2>2
    <2>4. flash'["user"][i] = flash["update"][0 + i - 0]
      BY <1>2, <1>4, <2>3 DEF Copies, UpdateBackToUser, FlashOK
    <2> QED  BY <2>1, <2>3, <2>4
  <1>7. Durable(flash', env)
    BY <1>2, <1>5 DEF Durable, HoldsIn
  <1>8. Durable(flash', ram')
    BY <1>2, <1>3, <1>6 DEF Durable
  <1>9. TypeOK'
    BY <1>1, <1>3, <1>4, SavingIs DEF Inv, TypeOK, Saving, FlashOK, Regions
  <1>10. PcInv'
    BY <1>1, <1>3 DEF PcInv
  <1>11. DurableInv' /\ KeptInv' /\ WholeInv'
    BY <1>1, <1>2, <1>3, <1>7, <1>8 DEF DurableInv, KeptInv, Kept, WholeInv
  <1> QED  BY <1>4, <1>9, <1>10, <1>11 DEF Inv

LEMMA SaveEnvStep ==
  ASSUME Inv, SaveEnv
  PROVE  Inv'
  <1>1. /\ pc \in Saving /\ pc' = After[pc] /\ env' = ram
        /\ confirmed' = IF pc = "saveOk" THEN confirmed \cup {ram.origin.fw} ELSE confirmed
        /\ UNCHANGED <<flash, ram, offer, download_size>>
    BY DEF SaveEnv, Saving
  <1>2. /\ pc = "saveToSwap" => pc' = "toUser"
        /\ pc = "saveToUser" => pc' = "toUpdate"
        /\ pc = "saveToUpdate" => pc' = "while"
        /\ pc \in {"saveComplete", "saveRecovered", "saveNormal"} => pc' = "app"
        /\ pc = "saveOk" => pc' = "running"
        /\ pc = "saveUpdate" => pc' = "off"
    BY <1>1 DEF After
  <1>3. /\ ram \in EnvType /\ Durable(flash, ram) /\ ram.origin.fw \in Firmwares
        /\ confirmed \subseteq Firmwares
    BY <1>1, EnvFields DEF Inv, TypeOK, DurableInv
  <1>4. pc' \in {"toUser", "toUpdate", "while", "app", "running", "off"}
    BY <1>1, <1>2, SavingIs
  <1>5. TypeOK'
    BY <1>1, <1>3, <1>4 DEF Inv, TypeOK
  <1>6. PcInv'
    BY <1>1, <1>2, <1>4, SavingIs DEF Inv, PcInv
  <1>7. WholeInv'
    BY <1>1, <1>2, <1>3, <1>4, SavingIs DEF Inv, PcInv, WholeInv, Durable
  <1>8. KeptInv'
    <2>1. Kept(ram) \in confirmed'
      BY <1>1, SavingIs DEF Inv, KeptInv, PcInv, Kept
    <2> QED  BY <1>1, <1>4, <2>1, SavingIs DEF KeptInv
  <1>9. DurableInv' /\ FlashOK(flash')
    BY <1>1, <1>3, <1>4, SavingIs DEF Inv, DurableInv
  <1> QED  BY <1>5, <1>6, <1>7, <1>8, <1>9 DEF Inv

\* A cut leaves what the saved environment says of flash true, within a copy too.
LEMMA CutKeeps ==
  ASSUME Inv, CutBeforeCopy \/ CutInCopy
  PROVE  FlashOK(flash') /\ Durable(flash', env)
  <1>1. FlashOK(flash) /\ Durable(flash, env) /\ env \in EnvType
    BY DEF Inv, DurableInv, TypeOK
  <1>2. CASE CutBeforeCopy
    BY <1>1, <1>2 DEF CutBeforeCopy
  <1>3. CASE CutInCopy
    <2>1. PICK done \in 0 .. Copying.n : flash' = [flash EXCEPT ![Copying.to] = Copied(Copying, done)]
      BY <1>3 DEF CutInCopy
    <2>2. CASE pc = "recover"
      <3>1. Copying = UpdateBackToUser /\ Copying.to \in Regions /\ Copying.to = "user"
        BY <2>2 DEF Copying, UpdateBackToUser, Regions
      <3>2. FlashOK(flash') /\ Copies(flash, flash', Copying, done)
        BY <1>1, <2>1, <3>1, CopyDoes
      <3>3. flash'["update"] = flash["update"]
        BY <3>1, <3>2 DEF Copies, Regions
      <3>4. env.flag = "UPDATE_COMPLETE"
        BY <2>2 DEF Inv, PcInv
      <3> QED  BY <1>1, <3>2, <3>3, <3>4 DEF Durable, HoldsIn
    <2>3. ASSUME pc \in {"toSwap", "toUser", "toUpdate"}
          PROVE  FlashOK(flash') /\ Durable(flash', env)
      <3>1. /\ ram = env /\ ram \in EnvType /\ ram.flag = "UPDATE" /\ Exchange(flash, ram)
            /\ FwPages[ram.origin.fw] <= ram.origin.size
        BY <2>3, Exchanging
      <3>2. SUFFICES FlashOK(flash') /\ Exchange(flash', ram)
        BY <1>1, <3>1 DEF Durable
      <3>3. CASE pc = "toSwap" /\ ram.step \in {"INIT", "SWAP_TO_UPDATE"}
        <4>1. Copying = UserToSwap /\ Copying.to \in Regions /\ Copying.to = "swap"
          BY <3>3 DEF Copying, UserToSwap, Regions
        <4>2. FlashOK(flash') /\ Copies(flash, flash', Copying, done)
          BY <1>1, <2>1, <4>1, CopyDoes
        <4>3. flash'["user"] = flash["user"] /\ flash'["update"] = flash["update"]
          BY <4>1, <4>2 DEF Copies, Regions
        <4> QED  BY <3>1, <3>3, <4>2, <4>3, ToSwapKeeps
      <3>4. CASE pc = "toUser" /\ ram.step = "USER_TO_SWAP"
        <4>1. Copying = ToUserCopy(ram) /\ Copying.to \in Regions
          BY <3>4 DEF Copying, UpdateToUser, ToUserCopy, Regions
        <4>2. FlashOK(flash') /\ Copies(flash, flash', ToUserCopy(ram), done)
          BY <1>1, <2>1, <4>1, CopyDoes
        <4> QED  BY <1>1, <3>1, <3>4, <4>2, ToUserKeeps
      <3>5. CASE pc = "toUpdate" /\ ram.step = "UPDATE_TO_USER"
        <4>1. Copying = ToUpdateCopy(ram) /\ Copying.to \in Regions
          BY <3>5 DEF Copying, SwapToUpdate, ToUpdateCopy, Regions
        <4>2. FlashOK(flash') /\ Copies(flash, flash', ToUpdateCopy(ram), done)
          BY <1>1, <2>1, <4>1, CopyDoes
        <4> QED  BY <1>1, <3>1, <3>5, <4>2, ToUpdateKeeps
      <3> QED  BY <1>3, <2>3, <3>3, <3>4, <3>5 DEF CutInCopy
    <2> QED  BY <1>3, <2>2, <2>3 DEF CutInCopy
  <1> QED  BY <1>2, <1>3

LEMMA PowerCutStep ==
  ASSUME Inv, PowerCut
  PROVE  Inv'
  <1>1. /\ pc' = "off" /\ ram' = env /\ offer' = 0 /\ download_size' = 0
        /\ UNCHANGED <<env, confirmed>>
        /\ FlashOK(flash') /\ Durable(flash', env)
    BY CutKeeps DEF PowerCut
  <1>2. 0 \in Firmwares /\ 0 \in 0 .. Pages
    BY UpdateAssumption DEF UpdateAssumption
  <1>3. TypeOK'
    BY <1>1, <1>2 DEF Inv, TypeOK, FlashOK, Regions
  <1>4. PcInv'
    BY <1>1 DEF PcInv
  <1>5. DurableInv' /\ KeptInv' /\ WholeInv'
    BY <1>1, SavingIs DEF Inv, DurableInv, KeptInv, WholeInv
  <1> QED  BY <1>1, <1>3, <1>4, <1>5 DEF Inv

LEMMA StutterStep ==
  ASSUME Inv, UNCHANGED vars
  PROVE  Inv'
  BY DEF Inv, TypeOK, FlashOK, PcInv, DurableInv, WholeInv, KeptInv, vars, Durable, Exchange,
         OldPages, NewPages, HoldsIn, Kept, Saving, After

LEMMA NextInv == Inv /\ [Next]_vars => Inv'
  <1> SUFFICES ASSUME Inv, [Next]_vars PROVE Inv'
    OBVIOUS
  <1>1. CASE Bootloader
    BY <1>1, PowerOnStep, LoopStep, CopyUserToSwapStep, CopyUpdateToUserStep,
       CopySwapToUpdateStep, CompleteStep, RecoverStep, SaveEnvStep DEF Bootloader
  <1>2. CASE Application
    BY <1>2, AppConfirmsStep, AppStartsStep, GetUpgradeStep, DownloadPageStep,
       StartUpdateStep, StopUpgradeStep DEF Application
  <1>3. CASE PowerCut
    BY <1>3, PowerCutStep
  <1>4. CASE UNCHANGED vars
    BY <1>4, StutterStep
  <1> QED  BY <1>1, <1>2, <1>3, <1>4 DEF Next

-----------------------------------------------------------------------------
\* The invariant, types included, holds in every behaviour.
THEOREM UpdateIsSafe == Spec => []Inv
  BY InitInv, NextInv, PTL DEF Spec

\* Whenever the bootloader starts the application, after any number of power cuts, in
\* the middle of a copy too, the user region holds the whole firmware the saved
\* environment names; for every size of the regions, the swap block and the firmwares.
THEOREM StartedAppIsWhole == Spec => []AppIsWhole
  <1>1. Inv => AppIsWhole
    BY DEF Inv, WholeInv, AppIsWhole, HoldsIn, Holds
  <1> QED  BY <1>1, UpdateIsSafe, PTL

\* Until an update is confirmed, the update region holds the whole firmware that
\* bootloader_recovery_user_app would copy back.
THEOREM FormerAppIsWhole == Spec => []RollbackIsWhole
  <1>1. Inv => RollbackIsWhole
    BY DEF Inv, DurableInv, Durable, RollbackIsWhole, HoldsIn, Holds
  <1> QED  BY <1>1, UpdateIsSafe, PTL

\* An environment that no longer asks for confirmation names a firmware that
\* confirmed itself: the factory's, or one whose report task set BOOT_UPDATE_OK.
THEOREM KeptAppIsConfirmed == Spec => []OnlyConfirmedStays
  <1>1. Inv => OnlyConfirmedStays
    BY DEF Inv, KeptInv, Kept, OnlyConfirmedStays
  <1> QED  BY <1>1, UpdateIsSafe, PTL
=============================================================================
