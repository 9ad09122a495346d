----------------------------- MODULE SignalRgb -----------------------------
(***************************************************************************)
(* The keyboard's side of SignalRGB streaming: the raw HID commands        *)
(* 0x60..0x63 (app_flash.c), the double-buffered frames and the session    *)
(* timeout (led.c), and the two LED threads that draw from the frames.     *)
(*                                                                         *)
(* HID packets are handled by main.  Both LED threads have a higher        *)
(* priority than main, so either may run between any two writes of a       *)
(* handler.  Neither thread is preempted by main or by the other; the head *)
(* thread gives way only while it waits for the SPI bus, which lies        *)
(* between its reading the head zone and its reading the side zone.  One   *)
(* LED's three bytes are written in one step here.                         *)
(***************************************************************************)
EXTENDS Integers, Sequences

CONSTANTS
  KeyCount, HeadCount, SideCount,  (* LEDs of the three zones              *)
  Colors,                          (* what an LED may be set to            *)
  Black,                           (* what memset leaves                   *)
  MaxLeds,                         (* largest led_count taken: 14          *)
  Timeout,                         (* SIGNALRGB_TIMEOUT_MS, in ticks       *)
  Packets                          (* the packets a host may send          *)

ASSUME CountAssumption ==
  KeyCount \in Nat /\ HeadCount \in Nat /\ SideCount \in Nat /\ MaxLeds \in Nat
ASSUME ColorAssumption == Black \in Colors
ASSUME TimeoutAssumption == Timeout \in Nat /\ Timeout >= 1

Zone  == {"key", "head", "side"}
Count == [z \in Zone |-> CASE z = "key"  -> KeyCount
                           [] z = "head" -> HeadCount
                           [] z = "side" -> SideCount]
Leds(z) == {z} \X (0 .. Count[z] - 1)
Led     == UNION {Leds(z) : z \in Zone}
Frame   == [Led -> Colors]
Dark    == [l \in Led |-> Black]

(* A packet as raw_hid_receive_kb gets it; zone may be any byte.           *)
Packet ==
  [cmd : {"info"}] \cup [cmd : {"commit"}] \cup [cmd : {"mode"}, on : BOOLEAN]
  \cup [cmd : {"stream"}, zone : Zone \cup {"other"}, start : Nat, rgb : Seq(Colors)]
ASSUME PacketAssumption == Packets \subseteq Packet

VARIABLES
  active,    (* signalrgb_mode_active                                      *)
  activeIdx, (* signalrgb_active_frame_index                               *)
  stagingIdx,(* signalrgb_staging_frame_index                              *)
  frames,    (* the two buffers of all three zones                         *)
  age,       (* timer_read32() - signalrgb_last_packet_ms, up to Timeout   *)
  main,      (* where main is in a handler                                 *)
  req,       (* the stream packet being handled                            *)
  pos,       (* LEDs of a stream packet written so far                     *)
  todo,      (* what memset or memcpy has still to write                   *)
  head,      (* where the head thread is                                   *)
  captured,  (* frame_index in the head thread                             *)
  shown,     (* whether each zone was last given its effect or a frame     *)
  committed, (* history: the frame the host committed last                 *)
  draft,     (* history: the last color accepted for every LED             *)
  base,      (* history: the committed frame when the head thread drew     *)
  moved,     (* history: a commit or a mode set began since then           *)
  silence    (* history: ticks since the last packet that keeps a session  *)

buffers == <<activeIdx, stagingIdx, frames>>
handler == <<main, req, pos, todo>>
threads == <<head, captured, shown>>
hist    == <<committed, draft, base, moved, silence>>
vars    == <<active, age, buffers, handler, threads, hist>>

Idx == {0, 1}

TypeOK ==
  /\ active \in BOOLEAN
  /\ activeIdx \in Idx /\ stagingIdx \in Idx
  /\ frames \in [Idx -> Frame]
  /\ age \in 0 .. Timeout
  /\ main \in {"idle", "clear", "indexActive", "indexStaging", "stream", "flipActive", "flipStaging",
              "copy", "mark", "markMode", "reply"}
  /\ req \in Packets \cup {<<>>}
  /\ pos \in Nat
  /\ todo \in SUBSET Led
  /\ head \in {"rest", "showing"} /\ captured \in Idx
  /\ shown \in [Zone -> {"effect", "frame"}]
  /\ committed \in Frame /\ draft \in Frame /\ base \in Frame
  /\ moved \in BOOLEAN /\ silence \in 0 .. Timeout

Init ==
  /\ active = FALSE
  /\ activeIdx = 0 /\ stagingIdx = 1
  /\ frames = [i \in Idx |-> Dark]
  /\ age = 0
  /\ main = "idle" /\ req = <<>> /\ pos = 0 /\ todo = {}
  /\ head = "rest" /\ captured = 0
  /\ shown = [z \in Zone |-> "effect"]
  /\ committed = Dark /\ draft = Dark /\ base = Dark
  /\ moved = FALSE /\ silence = 0

----------------------------------------------------------------------------
(* The clock, and the timeout check every reader of the mode makes.        *)

Older(t) == IF t < Timeout THEN t + 1 ELSE t

Tick ==
  /\ age < Timeout \/ silence < Timeout
  /\ age' = Older(age)
  /\ silence' = Older(silence)
  /\ UNCHANGED <<active, buffers, handler, threads, committed, draft, base, moved>>

(* signalrgb_mode_enabled: its result is active'.                          *)
mode_enabled == active' = (active /\ age < Timeout)

----------------------------------------------------------------------------
(* Handlers.                                                               *)

Receive ==
  /\ main = "idle"
  /\ UNCHANGED <<age, buffers, threads, committed, draft, base>>

GetInfo(msg) ==
  /\ msg.cmd = "info"
  /\ Receive
  /\ mode_enabled
  /\ UNCHANGED <<handler, moved, silence>>

(* The mode is set before anything of the new session is prepared.         *)
SetMode(msg) ==
  /\ msg.cmd = "mode"
  /\ Receive
  /\ active' = msg.on
  /\ IF msg.on
     THEN /\ main' = IF Led = {} THEN "indexActive" ELSE "clear"
          /\ todo' = Led
          /\ moved' = (head = "showing") /\ silence' = 0
     ELSE main' = "reply" /\ UNCHANGED <<todo, moved, silence>>
  /\ UNCHANGED <<req, pos>>

StreamZone(msg) ==
  /\ msg.cmd = "stream"
  /\ Receive
  /\ IF Len(msg.rgb) <= MaxLeds
     THEN main' = "stream" /\ req' = msg
     ELSE UNCHANGED <<main, req>>
  /\ UNCHANGED <<active, pos, todo, moved, silence>>

CommitFrame(msg) ==
  /\ msg.cmd = "commit"
  /\ Receive
  /\ main' = "flipActive"
  /\ moved' = (head = "showing") /\ silence' = 0
  /\ UNCHANGED <<active, req, pos, todo>>

(* memset and memcpy go zone by zone, in this order.                       *)
InOrder(l) ==
  /\ l[1] = "head" => todo \cap Leds("key") = {}
  /\ l[1] = "side" => todo \cap (Leds("key") \cup Leds("head")) = {}

ClearLed(l) ==
  /\ main = "clear"
  /\ l \in todo /\ InOrder(l)
  /\ frames' = [i \in Idx |-> [frames[i] EXCEPT ![l] = Black]]
  /\ todo' = todo \ {l}
  /\ main' = IF todo' = {} THEN "indexActive" ELSE main
  /\ UNCHANGED <<active, age, activeIdx, stagingIdx, req, pos, threads, hist>>

ResetActiveIndex ==
  /\ main = "indexActive"
  /\ activeIdx' = 0
  /\ main' = "indexStaging"
  /\ committed' = Dark /\ draft' = Dark
  /\ UNCHANGED <<active, age, stagingIdx, frames, req, pos, todo, threads, base, moved, silence>>

\* A slip to compare with: a new session keeps the old staging index.
KeepStagingIndex ==
  /\ main = "indexStaging"
  /\ main' = "markMode"
  /\ UNCHANGED <<active, age, buffers, req, pos, todo, threads, hist>>

ResetStagingIndex ==
  /\ main = "indexStaging"
  /\ stagingIdx' = 1
  /\ main' = "markMode"
  /\ UNCHANGED <<active, age, activeIdx, frames, req, pos, todo, threads, hist>>

(* signalrgb_mark_packet_received, the last write of the handlers.         *)
MarkPacket ==
  /\ main \in {"mark", "markMode"}
  /\ age' = 0
  /\ main' = IF main = "mark" THEN "idle" ELSE "reply"
  /\ UNCHANGED <<active, buffers, req, pos, todo, threads, hist>>

ModeReply ==
  /\ main = "reply"
  /\ mode_enabled
  /\ main' = "idle"
  /\ UNCHANGED <<age, buffers, req, pos, todo, threads, hist>>

(* signalrgb_apply_zone_stream: the LEDs before the first one out of range *)
(* are written, and only a packet that is written whole is marked.         *)
InRange == req.zone \in Zone /\ req.start + pos < Count[req.zone]

\* A slip to compare with: the frame on show is written, not the draft.
StreamLive ==
  /\ main = "stream"
  /\ pos < Len(req.rgb)
  /\ InRange
  /\ LET l == <<req.zone, req.start + pos>>
         c == req.rgb[pos + 1]
     IN /\ frames' = [frames EXCEPT ![activeIdx][l] = c]
        /\ draft'  = [draft EXCEPT ![l] = c]
  /\ pos' = pos + 1
  /\ UNCHANGED <<active, age, activeIdx, stagingIdx, main, req, todo, threads, committed, base, moved, silence>>

StreamLed ==
  /\ main = "stream"
  /\ pos < Len(req.rgb)
  /\ InRange
  /\ LET l == <<req.zone, req.start + pos>>
         c == req.rgb[pos + 1]
     IN /\ frames' = [frames EXCEPT ![stagingIdx][l] = c]
        /\ draft'  = [draft EXCEPT ![l] = c]
  /\ pos' = pos + 1
  /\ UNCHANGED <<active, age, activeIdx, stagingIdx, main, req, todo, threads, committed, base, moved, silence>>

\* A slip to compare with: a refused packet counts as a sign of life.
RefusedIsMarked ==
  /\ main = "stream"
  /\ pos < Len(req.rgb)
  /\ ~InRange
  /\ main' = "mark" /\ req' = <<>> /\ pos' = 0
  /\ UNCHANGED <<active, age, buffers, todo, threads, hist>>

StreamOutOfRange ==
  /\ main = "stream"
  /\ pos < Len(req.rgb)
  /\ ~InRange
  /\ main' = "idle" /\ req' = <<>> /\ pos' = 0
  /\ UNCHANGED <<active, age, buffers, todo, threads, hist>>

\* A slip to compare with: a stream packet is not marked at all.
StreamUnmarked ==
  /\ main = "stream"
  /\ pos = Len(req.rgb)
  /\ main' = "idle" /\ req' = <<>> /\ pos' = 0
  /\ silence' = 0
  /\ UNCHANGED <<active, age, buffers, todo, threads, committed, draft, base, moved>>

StreamDone ==
  /\ main = "stream"
  /\ pos = Len(req.rgb)
  /\ main' = "mark" /\ req' = <<>> /\ pos' = 0
  /\ silence' = 0
  /\ UNCHANGED <<active, age, buffers, todo, threads, committed, draft, base, moved>>

(* signalrgb_commit_frame: the active index first, then the staging index  *)
(* and the copy that makes the next draft start from this frame.           *)
FlipActive ==
  /\ main = "flipActive"
  /\ activeIdx' = stagingIdx
  /\ main' = "flipStaging"
  /\ committed' = draft
  /\ UNCHANGED <<active, age, stagingIdx, frames, req, pos, todo, threads, draft, base, moved, silence>>

\* A slip to compare with: the staging index counts up.
FlipPast ==
  /\ main = "flipStaging"
  /\ stagingIdx' = stagingIdx + 1
  /\ main' = IF Led = {} THEN "mark" ELSE "copy"
  /\ todo' = Led
  /\ UNCHANGED <<active, age, activeIdx, frames, req, pos, threads, hist>>

FlipStaging ==
  /\ main = "flipStaging"
  /\ stagingIdx' = 1 - stagingIdx
  /\ main' = IF Led = {} THEN "mark" ELSE "copy"
  /\ todo' = Led
  /\ UNCHANGED <<active, age, activeIdx, frames, req, pos, threads, hist>>

\* A slip to compare with: the side zone is not carried over.
CopyTwoZones(l) ==
  /\ main = "copy"
  /\ l \in todo /\ InOrder(l)
  /\ frames' = IF l[1] = "side" THEN frames
               ELSE [frames EXCEPT ![stagingIdx][l] = frames[1 - stagingIdx][l]]
  /\ todo' = todo \ {l}
  /\ main' = IF todo' = {} THEN "mark" ELSE main
  /\ UNCHANGED <<active, age, activeIdx, stagingIdx, req, pos, threads, hist>>

CopyLed(l) ==
  /\ main = "copy"
  /\ l \in todo /\ InOrder(l)
  /\ frames' = [frames EXCEPT ![stagingIdx][l] = frames[1 - stagingIdx][l]]
  /\ todo' = todo \ {l}
  /\ main' = IF todo' = {} THEN "mark" ELSE main
  /\ UNCHANGED <<active, age, activeIdx, stagingIdx, req, pos, threads, hist>>

----------------------------------------------------------------------------
(* The LED threads.                                                        *)

(* The key thread reads its whole zone before it waits for the bus.        *)
KeyDraw ==
  /\ mode_enabled
  /\ shown' = [shown EXCEPT !["key"] = IF active' THEN "frame" ELSE "effect"]
  /\ UNCHANGED <<age, buffers, handler, head, captured, hist>>

HeadDraw ==
  /\ head = "rest"
  /\ mode_enabled
  /\ IF active'
     THEN /\ head' = "showing"
          /\ captured' = activeIdx
          /\ base' = frames[activeIdx]
          /\ moved' = (main \in {"clear", "indexActive", "flipActive"})
          /\ shown' = [shown EXCEPT !["head"] = "frame"]
     ELSE /\ shown' = [shown EXCEPT !["head"] = "effect", !["side"] = "effect"]
          /\ UNCHANGED <<head, captured, base, moved>>
  /\ UNCHANGED <<age, buffers, handler, committed, draft, silence>>

(* After four chips were written over SPI: the index is the one read then, *)
(* the data is what the buffer holds now.                                  *)
SideDraw ==
  /\ head = "showing"
  /\ head' = "rest"
  /\ shown' = [shown EXCEPT !["side"] = "frame"]
  /\ captured' = 0 /\ base' = Dark /\ moved' = FALSE
  /\ UNCHANGED <<active, age, buffers, handler, committed, draft, silence>>

----------------------------------------------------------------------------

Handle(msg) == GetInfo(msg) \/ SetMode(msg) \/ StreamZone(msg) \/ CommitFrame(msg)

MainStep ==
  \/ \E l \in todo : ClearLed(l) \/ CopyLed(l)
  \/ ResetActiveIndex \/ ResetStagingIndex \/ MarkPacket \/ ModeReply
  \/ StreamLed \/ StreamOutOfRange \/ StreamDone \/ FlipActive \/ FlipStaging

ThreadStep == KeyDraw \/ HeadDraw \/ SideDraw

Next == (\E msg \in Packets : Handle(msg)) \/ MainStep \/ ThreadStep \/ Tick

Spec == Init /\ [][Next]_vars

(* Time passes, main finishes its handler, both threads keep drawing; the  *)
(* host may stop at any time.                                              *)
FairSpec ==
  Spec /\ WF_vars(Tick) /\ WF_vars(MainStep)
       /\ WF_vars(KeyDraw) /\ WF_vars(HeadDraw) /\ WF_vars(SideDraw)

----------------------------------------------------------------------------
(* Except while a mode set wipes the buffers, the buffer the LED threads   *)
(* read is, LED for LED, the frame the host committed last: no thread can  *)
(* show a half-streamed or half-copied frame, whenever it preempts main.   *)
ActiveIsCommitted ==
  main \notin {"clear", "indexActive"} => frames[activeIdx] = committed

(* The plugin sends only what changed, so between packets and throughout a *)
(* stream the staging buffer must hold the last color accepted for every   *)
(* LED, those streamed before earlier commits included.                    *)
DeltaBase ==
  main \in {"idle", "stream", "mark", "reply", "flipActive"} => frames[stagingIdx] = draft

(* The head thread reads the side zone after four SPI transfers: unless a  *)
(* commit or a mode set came between, it finds the side of the frame whose *)
(* head zone it has just shown, whatever was streamed meanwhile.           *)
SideMatchesHead == head = "showing" /\ ~moved => frames[captured] = base

(* A session ends only when the host has been silent for the whole timeout *)
(* or switches it off - except that a thread may end it while main is      *)
(* between taking a packet and marking it, which is when the mode is on    *)
(* but the mark of the last session is still the one looked at.            *)
EndsWhenSilent ==
  [][active /\ ~active' => \/ silence >= Timeout
                           \/ main = "idle" /\ main' = "reply"
                           \/ main \notin {"idle", "stream", "reply"}]_vars

(* When the host stops sending what keeps a session, be it crashed or      *)
(* sending packets the keyboard refuses, every zone returns to its effect. *)
FallsBack == <>[](silence > 0) => <>[](\A z \in Zone : shown[z] = "effect")
============================================================================
