------------------------------ MODULE AnimStore ------------------------------
(***************************************************************************)
(* The custom animations of the keyboard: the host uploads them packet by  *)
(* packet into regions of the serial flash (save_led_data in app_flash.c), *)
(* and the two LED threads play them from there, one page per frame        *)
(* (read_led_data, and User_mode1..3_prase and Head_mode1..3_prase in      *)
(* led.c), while keys change the mode and the power may fail.              *)
(*                                                                         *)
(* A flash address counts packs.  A cell holds the set of packs programmed *)
(* into it since its sector was last erased: {} reads as 0xff, a singleton *)
(* as that pack, and more than one as the AND of them all, which is none   *)
(* of them.  One call of the flash driver is one step, because the driver  *)
(* holds its mutex across it.                                              *)
(***************************************************************************)
EXTENDS Integers, FiniteSets

CONSTANTS
    Anims,      \* the animations a host may upload
    ModeMax,    \* how many custom modes each zone has (3 in the code)
    PageSize,   \* zone |-> how many packs the page of one frame has room for
    LastPack,   \* zone |-> the index of the last pack of a page
    FrameMax,   \* frames per region; also the width of the uint8_t counters
    Sector,     \* packs per flash sector
    Uploads,    \* the commands the host uploads to
    Threads,    \* the LED threads that are followed
    MaxFrames   \* bound: the longest animation the host uploads

Zones   == {"key", "head", "side"}
Players == {"key", "head"}
Modes   == 1 .. ModeMax
Cmds    == Zones \X Modes
Nothing == [none |-> TRUE]

ASSUME AnimStoreAssumption ==
    /\ ModeMax \in Nat \ {0} /\ FrameMax \in Nat \ {0} /\ Sector \in Nat \ {0}
    /\ PageSize \in [Zones -> Nat] /\ LastPack \in [Zones -> Nat]
    /\ \A z \in Zones : /\ LastPack[z] \in 1 .. PageSize[z] - 1
                        /\ (PageSize[z] * FrameMax) % Sector = 0
    /\ Uploads \subseteq Cmds /\ Threads \subseteq Players
    /\ MaxFrames \in 1 .. FrameMax

-----------------------------------------------------------------------------
(* The layout of the flash: one sector of settings, then the regions.      *)

RegionSize(z) == PageSize[z] * FrameMax

Start(c) == Sector + (c[2] - 1) * RegionSize(c[1])
                   + CASE c[1] = "key"  -> 0
                       [] c[1] = "head" -> ModeMax * RegionSize("key")
                       [] c[1] = "side" -> ModeMax * (RegionSize("key") + RegionSize("head"))

FlashSize == Sector + ModeMax * (RegionSize("key") + RegionSize("head") + RegionSize("side"))

Addr(c, page, pack) == Start(c) + page * PageSize[c[1]] + pack

Packs(c) == 0 .. LastPack[c[1]]

-----------------------------------------------------------------------------
VARIABLES
    flash,      \* address |-> the packs programmed there since the last erase
    frame_num,  \* g_user_data.*_led[].frame_num of every command
    saved,      \* the frame counts of the last settings record written
    pc,         \* where save_led_data is: "idle", "save", "erase", "write"
    pack,       \* recv_pack, the packet being handled
    sectors,    \* how many sectors the erase loop has erased
    up,         \* the host's upload: cmd, animation, length, next page and pack
    done,       \* history: the animation last uploaded to the end, per command
    play,       \* key_led_play, head_led_play: a custom mode, or 0 for the others
    page_num,   \* page_num and head_page_num
    at,         \* the read a LED thread waits for: zone, mode, page
    shown,      \* zone |-> the mode and page last put on its LEDs
    settled     \* history: the counter was last moved against the current length

flashVars == <<flash, frame_num, saved>>
mainVars  == <<pc, pack, sectors>>
hostVars  == <<up, done>>
ledVars   == <<play, page_num, at, shown, settled>>
vars      == <<flashVars, mainVars, hostVars, ledVars>>

Cell     == Anims \X Cmds \X (0 .. FrameMax - 1) \X (0 .. FlashSize)
Packet   == [cmd : Cmds, page : 0 .. FrameMax - 1, pack : Nat, anim : Anims, last : BOOLEAN]

TypeOK ==
    /\ flash \in [0 .. FlashSize - 1 -> SUBSET Cell]
    /\ frame_num \in [Cmds -> 0 .. FrameMax - 1]
    /\ saved \in [Cmds -> 0 .. FrameMax - 1]
    /\ pc \in {"idle", "save", "erase", "write"}
    /\ pack \in Packet \cup {Nothing}
    /\ sectors \in Nat
    /\ up \in [cmd : Uploads, anim : Anims, n : 1 .. MaxFrames,
               page : 0 .. FrameMax - 1, pack : Nat] \cup {Nothing}
    /\ done \in [Cmds -> [anim : Anims, n : 1 .. MaxFrames] \cup {Nothing}]
    /\ play \in [Players -> 0 .. ModeMax]
    /\ page_num \in [Players -> 0 .. FrameMax - 1]
    /\ at \in [Players -> [zone : Zones, mode : Modes, page : 0 .. FrameMax - 1] \cup {Nothing}]
    /\ shown \in [Zones -> [mode : Modes, page : 0 .. FrameMax - 1] \cup {Nothing}]
    /\ settled \in [Players -> BOOLEAN]

Init ==
    /\ flash = [a \in 0 .. FlashSize - 1 |-> {}]
    /\ frame_num = [c \in Cmds |-> 0] /\ saved = frame_num
    /\ pc = "idle" /\ pack = Nothing /\ sectors = 0
    /\ up = Nothing /\ done = [c \in Cmds |-> Nothing]
    /\ play = [z \in Players |-> 0] /\ page_num = [z \in Players |-> 0]
    /\ at = [z \in Players |-> Nothing] /\ shown = [z \in Zones |-> Nothing]
    /\ settled = [z \in Players |-> TRUE]

-----------------------------------------------------------------------------
(* The host: it starts an upload at the first pack, dropping what it was   *)
(* sending, and sends the packs of every page in order.                    *)

StartUpload ==
    /\ pc = "idle"
    /\ \E c \in Uploads, a \in Anims, n \in 1 .. MaxFrames :
          up' = [cmd |-> c, anim |-> a, n |-> n, page |-> 0, pack |-> 0]
    /\ UNCHANGED <<flashVars, mainVars, done, ledVars>>

(* The packet after p; the packet of the last pack of all carries 0xff for *)
(* its index, which is what the flag "last" stands for.                    *)
IsLast(p)   == p.page = p.n - 1 /\ p.pack = LastPack[p.cmd[1]]
Following(p) == IF IsLast(p) THEN Nothing
                ELSE IF p.pack = LastPack[p.cmd[1]]
                     THEN [p EXCEPT !.page = @ + 1, !.pack = 0]
                     ELSE [p EXCEPT !.pack = @ + 1]

(* (recv_pack->page+1)&0xff                                                *)
FrameCount(page) == (page + 1) % FrameMax

(* The entry of save_led_data: the last packet gives the animation its     *)
(* length, truncated to a byte, and is filed under the zone's last index.  *)
(* The settings are saved before any data of that packet is programmed.    *)
Receive ==
    /\ pc = "idle" /\ up # Nothing
    /\ LET c == up.cmd IN
       /\ pack' = [cmd |-> c, page |-> up.page, anim |-> up.anim, last |-> IsLast(up),
                   pack |-> IF IsLast(up) THEN LastPack[c[1]] ELSE up.pack]
       /\ IF IsLast(up)
          THEN /\ frame_num' = [frame_num EXCEPT ![c] = FrameCount(up.page)]
               /\ settled' = [z \in Players |-> settled[z] /\ c # <<z, play[z]>>]
          ELSE UNCHANGED <<frame_num, settled>>
       /\ pc' = IF IsLast(up) THEN "save"
                ELSE IF up.page = 0 /\ up.pack = 0 THEN "erase" ELSE "write"
       /\ done' = [done EXCEPT ![c] = Nothing]
    /\ up' = Following(up)
    /\ UNCHANGED <<flash, saved, sectors, play, page_num, at, shown>>

Save ==
    /\ pc = "save"
    /\ saved' = frame_num
    /\ pc' = "write"
    /\ UNCHANGED <<flash, frame_num, pack, sectors, hostVars, ledVars>>

\* A slip to compare with: the loop ends one sector early.
EraseSectorsShort(c) == (RegionSize(c[1]) \div Sector) - 1

(* How many rounds the erase loop makes.                                   *)
EraseSectors(c) == RegionSize(c[1]) \div Sector

(* One round of the erase loop: the first packet of an upload erases the   *)
(* whole region of its command.                                            *)
EraseOne ==
    /\ pc = "erase"
    /\ IF sectors < EraseSectors(pack.cmd)
       THEN LET a == Addr(pack.cmd, pack.page, pack.pack) + sectors * Sector IN
            /\ flash' = [x \in DOMAIN flash |->
                            IF x \div Sector = a \div Sector THEN {} ELSE flash[x]]
            /\ sectors' = sectors + 1
            /\ UNCHANGED pc
       ELSE /\ pc' = "write" /\ sectors' = 0 /\ UNCHANGED flash
    /\ UNCHANGED <<frame_num, saved, pack, hostVars, ledVars>>

(* The data of the packet is programmed: flash only clears bits.           *)
Write ==
    /\ pc = "write"
    /\ flash' = [flash EXCEPT ![Addr(pack.cmd, pack.page, pack.pack)] =
                    @ \cup {<<pack.anim, pack.cmd, pack.page, pack.pack>>}]
    /\ done' = IF pack.last
               THEN [done EXCEPT ![pack.cmd] = [anim |-> pack.anim, n |-> pack.page + 1]]
               ELSE done
    /\ pc' = "idle" /\ pack' = Nothing
    /\ UNCHANGED <<frame_num, saved, sectors, up, ledVars>>

-----------------------------------------------------------------------------
(* The LED threads.                                                        *)

\* A slip to compare with: the counter may stop on the length itself.
AdvanceLate(page, n) == LET p == (page + 1) % FrameMax IN IF p > n THEN 0 ELSE p

\* A slip to compare with: the counter turns back one frame early.
AdvanceEarly(page, n) == LET p == (page + 1) % FrameMax IN IF p >= n - 1 THEN 0 ELSE p

(* page_num++, back to 0 once it has reached the length.                   *)
Advance(page, n) == LET p == (page + 1) % FrameMax IN IF p >= n THEN 0 ELSE p

(* The thread asks for the page of its zone's counter and waits.           *)
StartFrame(z) ==
    /\ z \in Threads /\ at[z] = Nothing /\ play[z] # 0
    /\ at' = [at EXCEPT ![z] = [zone |-> z, mode |-> play[z], page |-> page_num[z]]]
    /\ UNCHANGED <<flashVars, mainVars, hostVars, play, page_num, shown, settled>>

ShowPage(z) == shown' = [shown EXCEPT ![at[z].zone] = [mode |-> at[z].mode, page |-> at[z].page]]

(* Head modes then ask for the side strip's page, reading the counter anew *)
ReadSide ==
    /\ at["head"] # Nothing /\ at["head"].zone = "head"
    /\ ShowPage("head")
    /\ at' = [at EXCEPT !["head"].zone = "side", !["head"].page = page_num["head"]]
    /\ UNCHANGED <<flashVars, mainVars, hostVars, play, page_num, settled>>

(* The last read returns, and the counter is moved against the length of   *)
(* the mode the frame was started in.                                      *)
FinishFrame(z) ==
    /\ at[z] # Nothing /\ at[z].zone = (IF z = "head" THEN "side" ELSE "key")
    /\ ShowPage(z)
    /\ page_num' = [page_num EXCEPT ![z] = Advance(@, frame_num[<<z, at[z].mode>>])]
    /\ settled' = [settled EXCEPT ![z] = at[z].mode = play[z]]
    /\ at' = [at EXCEPT ![z] = Nothing]
    /\ UNCHANGED <<flashVars, mainVars, hostVars, play>>

-----------------------------------------------------------------------------
(* Keys, handled by the main loop between packets.                         *)

\* A slip to compare with: the end of the list is not looked at.
AroundOpen(m) == {m + 1, (m + ModeMax) % (ModeMax + 1)}

Around(m) == {(m + 1) % (ModeMax + 1), (m + ModeMax) % (ModeMax + 1)}

(* key_led_next_func and key_led_prev_func leave the page counter alone.   *)
KeyMode ==
    /\ pc = "idle" /\ "key" \in Threads
    /\ \E m \in Around(play["key"]) : play' = [play EXCEPT !["key"] = m]
    /\ settled' = [settled EXCEPT !["key"] = FALSE]
    /\ UNCHANGED <<flashVars, mainVars, hostVars, page_num, at, shown>>

(* head_led_next_func and head_led_prev_func reset both counters, and the  *)
(* keys follow; a frame a thread is in the middle of will still move its   *)
(* counter, against the length of the mode that is left.                   *)
HeadMode ==
    /\ pc = "idle" /\ Threads # {}
    /\ \E m \in Around(play["head"]) : play' = [z \in Players |-> m]
    /\ page_num' = [z \in Players |-> 0]
    /\ settled' = [z \in Players |-> at[z] = Nothing]
    /\ UNCHANGED <<flashVars, mainVars, hostVars, at, shown>>

(* Power is lost and comes back: the flash keeps what it holds, the frame  *)
(* counts and the modes are those of the settings record.                  *)
PowerCycle ==
    /\ frame_num' = saved
    /\ pc' = "idle" /\ pack' = Nothing /\ sectors' = 0 /\ up' = Nothing
    /\ play' \in [Players -> IF Threads = {} THEN {0} ELSE 0 .. ModeMax]
    /\ page_num' = [z \in Players |-> 0] /\ at' = [z \in Players |-> Nothing]
    /\ shown' = [z \in Zones |-> Nothing] /\ settled' = [z \in Players |-> TRUE]
    /\ UNCHANGED <<flash, saved, done>>

MainStep   == Receive \/ Save \/ EraseOne \/ Write
PlayerStep(z) == StartFrame(z) \/ FinishFrame(z) \/ (z = "head" /\ ReadSide)

Next ==
    \/ StartUpload
    \/ Receive
    \/ Save
    \/ EraseOne
    \/ Write
    \/ \E z \in Players : StartFrame(z)
    \/ ReadSide
    \/ \E z \in Players : FinishFrame(z)
    \/ KeyMode
    \/ HeadMode
    \/ PowerCycle

Spec == Init /\ [][Next]_vars

(* The threads keep running, and so does a packet's handler; nothing makes *)
(* a host send, a key move or the power fail.                              *)
FairSpec == Spec /\ WF_vars(Save \/ EraseOne \/ Write)
                 /\ \A z \in Players : WF_vars(PlayerStep(z))

-----------------------------------------------------------------------------
(* An animation whose upload came to its end is in the flash, every pack   *)
(* of every frame alone in its cell, and its length is in force and saved, *)
(* whatever is uploaded to other modes, abandoned or cut by a power        *)
(* failure before or after (erase and layout of save_led_data).            *)
Uploaded ==
    \A c \in Cmds : done[c] # Nothing =>
        /\ \A p \in 0 .. done[c].n - 1, k \in Packs(c) :
              flash[Addr(c, p, k)] = {<<done[c].anim, c, p, k>>}
        /\ frame_num[c] = done[c].n % FrameMax
        /\ saved[c] = frame_num[c]

(* Once a frame has been finished in the current mode with its current     *)
(* length, the page counter stays on a frame that was uploaded, so a       *)
(* change of mode or of length costs at most the frame under way and the   *)
(* next one (the >= tests at the end of User_mode*_prase, Head_mode*_prase) *)
InRange ==
    \A z \in Players : settled[z] /\ play[z] # 0 =>
        \/ page_num[z] = 0
        \/ page_num[z] < frame_num[<<z, play[z]>>]

(* If in the end the mode and its animation, uploaded to the end, stay and *)
(* the power holds, all of its frames are played over and over: app_flash.h *)
(* gives every region room for USER_FRAME_MAX of them.                     *)
Steady(z, m, n) ==
    /\ play[z] = m
    /\ done[<<z, m>>] # Nothing /\ done[<<z, m>>].n = n

PlaysEveryFrame ==
    \A z \in Threads, m \in Modes, n \in 1 .. MaxFrames : \A p \in 0 .. n - 1 :
        <<z, m>> \in Uploads /\ <>[]Steady(z, m, n) /\ <>[][~PowerCycle]_vars
            => []<>(shown[z] # Nothing /\ shown[z].mode = m /\ shown[z].page = p)
=============================================================================
