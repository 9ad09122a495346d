-------------------------- MODULE SignalRgb_proofs --------------------------
(***************************************************************************)
(* For any number of LEDs, any colors, any packets and any timeout: the    *)
(* buffer the LED threads read holds exactly the frame committed last      *)
(* (FramesAreWhole), the staging buffer exactly what the host has streamed *)
(* (DraftsAreExact), and the head thread's two zones belong to one frame   *)
(* (ZonesMatch).                                                           *)
(*                                                                         *)
(* The inductive invariant says what each pc of main implies about the two *)
(* buffers: which of them is on show, and how far a wipe or a copy is.     *)
(***************************************************************************)
EXTENDS SignalRgb, TLAPS

(* A stream packet is being handled exactly when the pc says so.           *)
InStream == main = "stream" => req \in Packets /\ req.cmd = "stream"

TypeInv == TypeOK /\ InStream

(* Main is in the middle of a mode set, of a commit, or of neither.        *)
Wiping   == main \in {"clear", "indexActive", "indexStaging"}
Flipped  == main = "flipStaging"

(* The buffers are different ones except inside a mode set or a flip.      *)
Distinct ==
  /\ ~Wiping /\ ~Flipped => activeIdx = 1 - stagingIdx
  /\ Flipped => activeIdx = stagingIdx
  /\ main = "indexStaging" => activeIdx = 0

(* What a mode set has wiped so far.                                       *)
Wiped ==
  /\ main = "clear" => \A i \in Idx, l \in Led \ todo : frames[i][l] = Black
  /\ main \in {"indexActive", "indexStaging"} => \A i \in Idx : frames[i] = Dark
  /\ main = "indexStaging" => draft = Dark

(* What a commit has copied so far.                                        *)
Copied ==
  main = "copy" =>
    /\ \A l \in Led \ todo : frames[stagingIdx][l] = committed[l]
    /\ draft = committed

(* The staging buffer is the draft, except where a wipe or copy is not yet *)
(* complete.                                                               *)
Drafted ==
  main \notin {"clear", "indexActive", "copy"} => frames[stagingIdx] = draft

FrameInv == Distinct /\ Wiped /\ Copied /\ Drafted /\ ActiveIsCommitted

(* While the frame the head thread shows is not being replaced, it is the  *)
(* active one.                                                             *)
ShowInv ==
  head = "showing" /\ ~moved =>
    /\ captured = activeIdx
    /\ base = committed
    /\ main \notin {"clear", "indexActive", "flipActive"}

----------------------------------------------------------------------------

LEMMA DarkIsFrame == Dark \in Frame
  BY ColorAssumption DEF Dark, Frame

LEMMA PaintedIsFrame ==
  ASSUME NEW f \in Frame, NEW l, NEW c \in Colors
  PROVE  [f EXCEPT ![l] = c] \in Frame
  BY DEF Frame

LEMMA PaintedFrames ==
  ASSUME NEW g \in [Idx -> Frame], NEW i \in Idx, NEW l, NEW c \in Colors
  PROVE  [g EXCEPT ![i][l] = c] \in [Idx -> Frame]
<1>1. [g[i] EXCEPT ![l] = c] \in Frame
  BY PaintedIsFrame
<1>2. [g EXCEPT ![i] = [g[i] EXCEPT ![l] = c]] \in [Idx -> Frame]
  BY <1>1
<1> QED  BY <1>2

(* What a stream packet in progress may write: an LED, and a color.        *)
LEMMA StreamedIsLed ==
  ASSUME TypeInv, main = "stream", pos < Len(req.rgb), InRange
  PROVE  /\ <<req.zone, req.start + pos>> \in Led
         /\ req.rgb[pos + 1] \in Colors
<1>1. req \in [cmd : {"stream"}, zone : Zone \cup {"other"}, start : Nat, rgb : Seq(Colors)]
  BY PacketAssumption DEF TypeInv, InStream, Packet
<1>2. /\ req.zone \in Zone
      /\ req.start \in Nat
      /\ req.rgb \in Seq(Colors)
  BY <1>1 DEF InRange
<1>3. pos \in Nat
  BY DEF TypeInv, TypeOK
<1>4. req.rgb[pos + 1] \in Colors
  BY <1>2, <1>3
<1>5. Count[req.zone] \in Nat
  BY <1>2, CountAssumption DEF Count, Zone
<1>6. req.start + pos \in 0 .. Count[req.zone] - 1
  BY <1>2, <1>3, <1>5 DEF InRange
<1>7. <<req.zone, req.start + pos>> \in Leds(req.zone)
  BY <1>6 DEF Leds
<1> QED  BY <1>2, <1>4, <1>7 DEF Led

LEMMA TypeInit == Init => TypeInv
<1> SUFFICES ASSUME Init PROVE TypeInv
  OBVIOUS
<1>1. TypeOK
  <2>1. frames \in [Idx -> Frame]
    BY DarkIsFrame DEF Init
  <2>2. shown \in [Zone -> {"effect", "frame"}]
    BY DEF Init
  <2>3. 0 \in Idx /\ 1 \in Idx /\ 0 \in 0 .. Timeout
    BY TimeoutAssumption DEF Idx
  <2> QED  BY <2>1, <2>2, <2>3, DarkIsFrame DEF Init, TypeOK
<1>2. InStream
  BY DEF Init, InStream
<1> QED  BY <1>1, <1>2 DEF TypeInv

LEMMA TypeStep == TypeInv /\ [Next]_vars => TypeInv'
<1> SUFFICES ASSUME TypeInv, [Next]_vars PROVE TypeInv'
  OBVIOUS
<1> USE DEF TypeInv
<1>0. Older(age) \in 0 .. Timeout /\ Older(silence) \in 0 .. Timeout
  BY TimeoutAssumption DEF TypeOK, Older
<1>00. 0 \in 0 .. Timeout
  BY TimeoutAssumption
<1>1. ASSUME NEW msg \in Packets, GetInfo(msg) PROVE TypeInv'
  BY <1>1 DEF GetInfo, Receive, mode_enabled, TypeOK, InStream, buffers, handler, threads
<1>2. ASSUME NEW msg \in Packets, SetMode(msg) PROVE TypeInv'
  <2>1. msg.on \in BOOLEAN
    BY <1>2, PacketAssumption DEF SetMode, Packet
  <2> QED  BY <1>2, <2>1, <1>00 DEF SetMode, Receive, TypeOK, InStream, buffers, threads
<1>3. ASSUME NEW msg \in Packets, StreamZone(msg) PROVE TypeInv'
  BY <1>3 DEF StreamZone, Receive, TypeOK, InStream, buffers, threads
<1>4. ASSUME NEW msg \in Packets, CommitFrame(msg) PROVE TypeInv'
  BY <1>4, <1>00 DEF CommitFrame, Receive, TypeOK, InStream, buffers, threads
<1>5. ASSUME NEW l \in todo, ClearLed(l) PROVE TypeInv'
  <2>1. \A i \in Idx : [frames[i] EXCEPT ![l] = Black] \in Frame
    BY PaintedIsFrame, ColorAssumption DEF TypeOK
  <2>2. frames' \in [Idx -> Frame]
    BY <1>5, <2>1 DEF ClearLed
  <2> QED  BY <1>5, <2>2 DEF ClearLed, TypeOK, InStream, threads, hist
<1>6. ASSUME NEW l \in todo, CopyLed(l) PROVE TypeInv'
  <2>1. stagingIdx \in Idx /\ 1 - stagingIdx \in Idx
    BY DEF TypeOK, Idx
  <2>2. frames[1 - stagingIdx][l] \in Colors
    BY <2>1 DEF TypeOK, Frame
  <2>3. frames' \in [Idx -> Frame]
    BY <1>6, <2>1, <2>2, PaintedFrames DEF CopyLed, TypeOK
  <2> QED  BY <1>6, <2>3 DEF CopyLed, TypeOK, InStream, threads, hist
<1>7. CASE ResetActiveIndex
  BY <1>7, DarkIsFrame DEF ResetActiveIndex, TypeOK, InStream, threads, Idx
<1>8. CASE ResetStagingIndex
  BY <1>8 DEF ResetStagingIndex, TypeOK, InStream, threads, hist, Idx
<1>9. CASE MarkPacket
  BY <1>9, <1>00 DEF MarkPacket, TypeOK, InStream, buffers, threads, hist
<1>10. CASE ModeReply
  BY <1>10 DEF ModeReply, mode_enabled, TypeOK, InStream, buffers, threads, hist
<1>11. CASE StreamLed
  <2> DEFINE l == <<req.zone, req.start + pos>>
             c == req.rgb[pos + 1]
  <2>1. l \in Led /\ c \in Colors
    BY <1>11, StreamedIsLed DEF StreamLed
  <2> HIDE DEF l, c
  <2>2. frames' = [frames EXCEPT ![stagingIdx][l] = c] /\ draft' = [draft EXCEPT ![l] = c]
    BY <1>11 DEF StreamLed, l, c
  <2>3. frames' \in [Idx -> Frame]
    BY <2>1, <2>2, PaintedFrames DEF TypeOK
  <2>4. draft' \in Frame
    BY <2>1, <2>2, PaintedIsFrame DEF TypeOK
  <2>5. pos' \in Nat
    BY <1>11 DEF StreamLed, TypeOK
  <2> QED  BY <1>11, <2>3, <2>4, <2>5 DEF StreamLed, TypeOK, InStream, threads
<1>12. CASE StreamOutOfRange
  BY <1>12 DEF StreamOutOfRange, TypeOK, InStream, buffers, threads, hist
<1>13. CASE StreamDone
  BY <1>13, <1>00 DEF StreamDone, TypeOK, InStream, buffers, threads
<1>14. CASE FlipActive
  BY <1>14 DEF FlipActive, TypeOK, InStream, threads
<1>15. CASE FlipStaging
  <2>1. stagingIdx' \in Idx
    BY <1>15 DEF FlipStaging, TypeOK, Idx
  <2> QED  BY <1>15, <2>1 DEF FlipStaging, TypeOK, InStream, threads, hist
<1>16. CASE KeyDraw
  BY <1>16 DEF KeyDraw, mode_enabled, TypeOK, InStream, buffers, handler, hist
<1>17. CASE HeadDraw
  <2>1. frames[activeIdx] \in Frame
    BY DEF TypeOK
  <2>2. moved' \in BOOLEAN
    <3>1. CASE active'
      <4>1. moved' = (main \in {"clear", "indexActive", "flipActive"})
        BY <1>17, <3>1 DEF HeadDraw
      <4>2. (main \in {"clear", "indexActive", "flipActive"}) \in BOOLEAN
        OBVIOUS
      <4> QED  BY <4>1, <4>2, Zenon
    <3>2. CASE ~active'
      BY <1>17, <3>2 DEF HeadDraw, TypeOK
    <3> QED  BY <3>1, <3>2
  <2>3. head' \in {"rest", "showing"} /\ captured' \in Idx /\ base' \in Frame
    BY <1>17, <2>1 DEF HeadDraw, TypeOK
  <2>4. shown' \in [Zone -> {"effect", "frame"}]
    BY <1>17 DEF HeadDraw, TypeOK
  <2>5. active' \in BOOLEAN
    BY <1>17 DEF HeadDraw, mode_enabled
  <2> QED  BY <1>17, <2>2, <2>3, <2>4, <2>5 DEF HeadDraw, TypeOK, InStream, buffers, handler
<1>18. CASE SideDraw
  BY <1>18, DarkIsFrame DEF SideDraw, TypeOK, InStream, buffers, handler, Idx
<1>19. CASE Tick
  BY <1>19, <1>0 DEF Tick, TypeOK, InStream, buffers, handler, threads
<1>20. CASE UNCHANGED vars
  BY <1>20 DEF vars, TypeOK, InStream, buffers, handler, threads, hist
<1> QED
  BY <1>1, <1>2, <1>3, <1>4, <1>5, <1>6, <1>7, <1>8, <1>9, <1>10, <1>11, <1>12,
     <1>13, <1>14, <1>15, <1>16, <1>17, <1>18, <1>19, <1>20
  DEF Next, Handle, MainStep, ThreadStep

(* The receiver's state keeps its types, whatever packets arrive: indexes  *)
(* stay 0 or 1, and no LED outside the zones is written (led.c:779-811).   *)
THEOREM TypeCorrect == Spec => []TypeOK
<1>1. Spec => []TypeInv
  BY TypeInit, TypeStep, PTL DEF Spec
<1>2. TypeInv => TypeOK
  BY DEF TypeInv
<1> QED  BY <1>1, <1>2, PTL

----------------------------------------------------------------------------

LEMMA FrameInit == Init => FrameInv /\ ShowInv
<1> SUFFICES ASSUME Init PROVE FrameInv /\ ShowInv
  OBVIOUS
<1>1. frames[0] = Dark /\ frames[1] = Dark
  BY DEF Init, Idx
<1>2. Distinct /\ Wiped /\ Copied
  BY DEF Init, Distinct, Wiping, Flipped, Wiped, Copied
<1>3. Drafted /\ ActiveIsCommitted
  BY <1>1 DEF Init, Drafted, ActiveIsCommitted
<1>4. ShowInv
  BY DEF Init, ShowInv
<1> QED  BY <1>2, <1>3, <1>4 DEF FrameInv

(* A step that leaves the buffers and main alone, or moves main between    *)
(* two places where nothing is in progress.                                *)
LEMMA QuietStep ==
  ASSUME TypeInv, FrameInv,
         UNCHANGED <<activeIdx, stagingIdx, frames, committed, draft>>,
         \/ UNCHANGED <<main, todo>>
         \/ /\ main \in {"idle", "stream", "mark", "markMode", "reply"}
            /\ main' \in {"idle", "stream", "mark", "markMode", "reply", "flipActive"}
  PROVE  FrameInv'
<1>1. CASE UNCHANGED <<main, todo>>
  BY <1>1 DEF FrameInv, Distinct, Wiping, Flipped, Wiped, Copied, Drafted, ActiveIsCommitted
<1>2. CASE /\ main \in {"idle", "stream", "mark", "markMode", "reply"}
           /\ main' \in {"idle", "stream", "mark", "markMode", "reply", "flipActive"}
  <2>1. Distinct'
    BY <1>2 DEF FrameInv, Distinct, Wiping, Flipped
  <2>2. Wiped' /\ Copied'
    BY <1>2 DEF Wiped, Copied
  <2>3. Drafted' /\ ActiveIsCommitted'
    BY <1>2 DEF FrameInv, Drafted, ActiveIsCommitted
  <2> QED  BY <2>1, <2>2, <2>3 DEF FrameInv
<1> QED  BY <1>1, <1>2

(* Two frames with the same LEDs lit are the same frame.                   *)
LEMMA SameFrame ==
  ASSUME NEW f \in Frame, NEW g \in Frame, \A l \in Led : f[l] = g[l]
  PROVE  f = g
  BY DEF Frame

LEMMA FrameStep == TypeInv /\ FrameInv /\ [Next]_vars => FrameInv'
<1> SUFFICES ASSUME TypeInv, FrameInv, [Next]_vars PROVE FrameInv'
  OBVIOUS
<1>0. /\ activeIdx \in Idx /\ stagingIdx \in Idx
      /\ \A i \in Idx : frames[i] \in Frame
      /\ committed \in Frame /\ draft \in Frame
      /\ todo \subseteq Led
  BY DEF TypeInv, TypeOK
<1>1. ASSUME NEW msg \in Packets, GetInfo(msg) PROVE FrameInv'
  BY <1>1, QuietStep DEF GetInfo, Receive, buffers, handler
<1>2. ASSUME NEW msg \in Packets, SetMode(msg) PROVE FrameInv'
  <2>1. CASE ~msg.on
    BY <1>2, <2>1, QuietStep DEF SetMode, Receive, buffers
  <2>2. CASE msg.on
    <3>1. /\ main' = IF Led = {} THEN "indexActive" ELSE "clear"
          /\ todo' = Led
          /\ UNCHANGED <<activeIdx, stagingIdx, frames, committed, draft>>
      BY <1>2, <2>2 DEF SetMode, Receive, buffers
    <3>2. Distinct' /\ Copied' /\ Drafted' /\ ActiveIsCommitted'
      BY <3>1 DEF Distinct, Wiping, Flipped, Copied, Drafted, ActiveIsCommitted
    <3>3. Led = {} => \A i \in Idx : frames[i] = Dark
      BY <1>0, DarkIsFrame, SameFrame
    <3>4. Wiped'
      BY <3>1, <3>3 DEF Wiped
    <3> QED  BY <3>2, <3>4 DEF FrameInv
  <2> QED  BY <2>1, <2>2
<1>3. ASSUME NEW msg \in Packets, StreamZone(msg) PROVE FrameInv'
  BY <1>3, QuietStep DEF StreamZone, Receive, buffers
<1>4. ASSUME NEW msg \in Packets, CommitFrame(msg) PROVE FrameInv'
  BY <1>4, QuietStep DEF CommitFrame, Receive, buffers
<1>5. ASSUME NEW l \in todo, ClearLed(l) PROVE FrameInv'
  <2>1. /\ main = "clear"
        /\ frames' = [i \in Idx |-> [frames[i] EXCEPT ![l] = Black]]
        /\ todo' = todo \ {l}
        /\ main' = IF todo' = {} THEN "indexActive" ELSE main
        /\ UNCHANGED <<activeIdx, stagingIdx, committed, draft>>
    BY <1>5 DEF ClearLed, hist
  <2>2. Distinct' /\ Copied' /\ Drafted' /\ ActiveIsCommitted'
    BY <2>1 DEF Distinct, Wiping, Flipped, Copied, Drafted, ActiveIsCommitted
  <2>3. \A i \in Idx, k \in Led \ todo' : frames'[i][k] = Black
    <3> SUFFICES ASSUME NEW i \in Idx, NEW k \in Led \ todo' PROVE frames'[i][k] = Black
      OBVIOUS
    <3>1. frames'[i] = [frames[i] EXCEPT ![l] = Black]
      BY <2>1
    <3>2. k = l \/ k \in Led \ todo
      BY <2>1
    <3>3. k \in Led \ todo => frames[i][k] = Black
      BY <2>1 DEF FrameInv, Wiped
    <3>4. DOMAIN frames[i] = Led
      BY <1>0 DEF Frame
    <3> QED  BY <3>1, <3>2, <3>3, <3>4
  <2>4. todo' = {} => \A i \in Idx : frames'[i] = Dark
    <3> SUFFICES ASSUME todo' = {}, NEW i \in Idx PROVE frames'[i] = Dark
      OBVIOUS
    <3>1. frames'[i] \in Frame
      BY <1>0, <2>1, PaintedIsFrame, ColorAssumption
    <3>2. \A k \in Led : frames'[i][k] = Dark[k]
      BY <2>3 DEF Dark
    <3> QED  BY <3>1, <3>2, DarkIsFrame, SameFrame
  <2>5. Wiped'
    BY <2>1, <2>3, <2>4 DEF Wiped
  <2> QED  BY <2>2, <2>5 DEF FrameInv
<1>6. ASSUME NEW l \in todo, CopyLed(l) PROVE FrameInv'
  <2>1. /\ main = "copy"
        /\ frames' = [frames EXCEPT ![stagingIdx][l] = frames[1 - stagingIdx][l]]
        /\ todo' = todo \ {l}
        /\ main' = IF todo' = {} THEN "mark" ELSE main
        /\ UNCHANGED <<activeIdx, stagingIdx, committed, draft>>
    BY <1>6 DEF CopyLed, hist
  <2>2. activeIdx = 1 - stagingIdx /\ frames[activeIdx] = committed /\ draft = committed
    BY <2>1 DEF FrameInv, Distinct, Wiping, Flipped, ActiveIsCommitted, Copied
  <2>3. activeIdx # stagingIdx
    BY <1>0, <2>2 DEF Idx
  <2>4. frames'[stagingIdx] = [frames[stagingIdx] EXCEPT ![l] = committed[l]]
    BY <1>0, <2>1, <2>2 DEF TypeInv, TypeOK
  <2>5. frames'[activeIdx] = committed
    BY <1>0, <2>1, <2>2, <2>3 DEF TypeInv, TypeOK
  <2>6. Distinct' /\ Wiped'
    BY <2>1, <2>2 DEF Distinct, Wiping, Flipped, Wiped
  <2>7. ActiveIsCommitted'
    BY <2>1, <2>5 DEF ActiveIsCommitted
  <2>8. \A k \in Led \ todo' : frames'[stagingIdx][k] = committed[k]
    <3> SUFFICES ASSUME NEW k \in Led \ todo' PROVE frames'[stagingIdx][k] = committed[k]
      OBVIOUS
    <3>1. k = l \/ k \in Led \ todo
      BY <2>1
    <3>2. k \in Led \ todo => frames[stagingIdx][k] = committed[k]
      BY <2>1 DEF FrameInv, Copied
    <3>3. DOMAIN frames[stagingIdx] = Led
      BY <1>0 DEF Frame
    <3> QED  BY <2>4, <3>1, <3>2, <3>3
  <2>9. Copied'
    BY <2>1, <2>2, <2>8 DEF Copied
  <2>10. Drafted'
    <3>1. CASE todo' # {}
      BY <2>1, <3>1 DEF Drafted
    <3>2. CASE todo' = {}
      <4>1. frames'[stagingIdx] \in Frame
        BY <1>0, <2>4, PaintedIsFrame DEF Frame
      <4>2. frames'[stagingIdx] = committed
        BY <1>0, <2>8, <3>2, <4>1, SameFrame
      <4> QED  BY <2>1, <2>2, <4>2 DEF Drafted
    <3> QED  BY <3>1, <3>2
  <2> QED  BY <2>6, <2>7, <2>9, <2>10 DEF FrameInv
<1>7. CASE ResetActiveIndex
  <2>1. /\ main = "indexActive" /\ main' = "indexStaging" /\ activeIdx' = 0
        /\ committed' = Dark /\ draft' = Dark
        /\ UNCHANGED <<stagingIdx, frames, todo>>
    BY <1>7 DEF ResetActiveIndex
  <2>2. \A i \in Idx : frames[i] = Dark
    BY <2>1 DEF FrameInv, Wiped
  <2>3. 0 \in Idx
    BY DEF Idx
  <2> QED
    BY <1>0, <2>1, <2>2, <2>3
    DEF FrameInv, Distinct, Wiping, Flipped, Wiped, Copied, Drafted, ActiveIsCommitted
<1>8. CASE ResetStagingIndex
  <2>1. /\ main = "indexStaging" /\ main' = "markMode" /\ stagingIdx' = 1
        /\ UNCHANGED <<activeIdx, frames, todo, committed, draft>>
    BY <1>8 DEF ResetStagingIndex, hist
  <2>2. activeIdx = 0 /\ draft = Dark /\ \A i \in Idx : frames[i] = Dark
    BY <2>1 DEF FrameInv, Distinct, Wiped
  <2>3. frames[activeIdx] = committed
    BY <2>1 DEF FrameInv, ActiveIsCommitted
  <2>4. 1 \in Idx
    BY DEF Idx
  <2> QED
    BY <2>1, <2>2, <2>3, <2>4
    DEF FrameInv, Distinct, Wiping, Flipped, Wiped, Copied, Drafted, ActiveIsCommitted
<1>9. CASE MarkPacket
  BY <1>9, QuietStep DEF MarkPacket, buffers, hist
<1>10. CASE ModeReply
  BY <1>10, QuietStep DEF ModeReply, buffers, hist
<1>11. CASE StreamLed
  <2> DEFINE l == <<req.zone, req.start + pos>>
             c == req.rgb[pos + 1]
  <2>1. /\ main = "stream"
        /\ frames' = [frames EXCEPT ![stagingIdx][l] = c]
        /\ draft' = [draft EXCEPT ![l] = c]
        /\ UNCHANGED <<activeIdx, stagingIdx, main, todo, committed>>
    BY <1>11 DEF StreamLed
  <2> HIDE DEF l, c
  <2>2. /\ activeIdx = 1 - stagingIdx
        /\ frames[activeIdx] = committed
        /\ frames[stagingIdx] = draft
    BY <2>1 DEF FrameInv, Distinct, Wiping, Flipped, ActiveIsCommitted, Drafted
  <2>3. activeIdx # stagingIdx
    BY <1>0, <2>2 DEF Idx
  <2>4. frames'[stagingIdx] = draft'
    BY <1>0, <2>1, <2>2 DEF TypeInv, TypeOK
  <2>5. frames'[activeIdx] = committed
    BY <1>0, <2>1, <2>2, <2>3 DEF TypeInv, TypeOK
  <2> QED
    BY <2>1, <2>2, <2>4, <2>5
    DEF FrameInv, Distinct, Wiping, Flipped, Wiped, Copied, Drafted, ActiveIsCommitted
<1>12. CASE StreamOutOfRange
  BY <1>12, QuietStep DEF StreamOutOfRange, buffers, hist
<1>13. CASE StreamDone
  BY <1>13, QuietStep DEF StreamDone, buffers
<1>14. CASE FlipActive
  BY <1>0, <1>14
  DEF FlipActive, FrameInv, Distinct, Wiping, Flipped, Wiped, Copied, Drafted, ActiveIsCommitted
<1>15. CASE FlipStaging
  <2>1. /\ main = "flipStaging"
        /\ stagingIdx' = 1 - stagingIdx
        /\ main' = IF Led = {} THEN "mark" ELSE "copy"
        /\ todo' = Led
        /\ UNCHANGED <<activeIdx, frames, committed, draft>>
    BY <1>15 DEF FlipStaging, hist
  <2>2. /\ activeIdx = stagingIdx
        /\ frames[activeIdx] = committed
        /\ frames[stagingIdx] = draft
    BY <2>1 DEF FrameInv, Distinct, Flipped, ActiveIsCommitted, Drafted
  <2>3. activeIdx' = 1 - stagingIdx' /\ stagingIdx' \in Idx
    BY <1>0, <2>1, <2>2 DEF Idx
  <2>4. Distinct' /\ Wiped'
    BY <2>1, <2>3 DEF Distinct, Wiping, Flipped, Wiped
  <2>5. Copied' /\ ActiveIsCommitted'
    BY <2>1, <2>2 DEF Copied, ActiveIsCommitted
  <2>6. Led = {} => frames[stagingIdx'] = draft
    BY <1>0, <2>3, SameFrame
  <2>7. Drafted'
    BY <2>1, <2>6 DEF Drafted
  <2> QED  BY <2>4, <2>5, <2>7 DEF FrameInv
<1>16. CASE KeyDraw
  BY <1>16, QuietStep DEF KeyDraw, buffers, handler, hist
<1>17. CASE HeadDraw
  BY <1>17, QuietStep DEF HeadDraw, buffers, handler
<1>18. CASE SideDraw
  BY <1>18, QuietStep DEF SideDraw, buffers, handler
<1>19. CASE Tick
  BY <1>19, QuietStep DEF Tick, buffers, handler
<1>20. CASE UNCHANGED vars
  BY <1>20, QuietStep DEF vars, buffers, handler, hist
<1> QED
  BY <1>1, <1>2, <1>3, <1>4, <1>5, <1>6, <1>7, <1>8, <1>9, <1>10, <1>11, <1>12,
     <1>13, <1>14, <1>15, <1>16, <1>17, <1>18, <1>19, <1>20
  DEF Next, Handle, MainStep, ThreadStep

(* The captured frame is replaced only by a step that has said so before.  *)
LEMMA ShowStep == TypeInv /\ FrameInv /\ ShowInv /\ [Next]_vars => ShowInv'
<1> SUFFICES ASSUME TypeInv, FrameInv, ShowInv, [Next]_vars,
                    head' = "showing", ~moved'
             PROVE  /\ captured' = activeIdx'
                    /\ base' = committed'
                    /\ main' \notin {"clear", "indexActive", "flipActive"}
  BY DEF ShowInv
<1>1. ASSUME NEW msg \in Packets, GetInfo(msg) PROVE ShowInv'
  BY <1>1 DEF GetInfo, Receive, ShowInv, buffers, handler, threads
<1>2. ASSUME NEW msg \in Packets, SetMode(msg) PROVE ShowInv'
  BY <1>2 DEF SetMode, Receive, ShowInv, buffers, threads
<1>3. ASSUME NEW msg \in Packets, StreamZone(msg) PROVE ShowInv'
  BY <1>3 DEF StreamZone, Receive, ShowInv, buffers, threads
<1>4. ASSUME NEW msg \in Packets, CommitFrame(msg) PROVE ShowInv'
  BY <1>4 DEF CommitFrame, Receive, ShowInv, buffers, threads
<1>5. ASSUME NEW l \in todo, ClearLed(l) \/ CopyLed(l) PROVE ShowInv'
  BY <1>5 DEF ClearLed, CopyLed, ShowInv, threads, hist
<1>6. CASE ResetActiveIndex \/ FlipActive
  BY <1>6 DEF ResetActiveIndex, FlipActive, ShowInv, threads
<1>7. CASE ResetStagingIndex \/ MarkPacket \/ ModeReply
  BY <1>7 DEF ResetStagingIndex, MarkPacket, ModeReply, ShowInv, buffers, threads, hist
<1>8. CASE StreamLed \/ StreamOutOfRange \/ StreamDone \/ FlipStaging
  BY <1>8 DEF StreamLed, StreamOutOfRange, StreamDone, FlipStaging, ShowInv, buffers, threads, hist
<1>9. CASE KeyDraw
  BY <1>9 DEF KeyDraw, ShowInv, buffers, handler, hist
<1>10. CASE HeadDraw
  <2>1. CASE active'
    <3>1. /\ captured' = activeIdx /\ base' = frames[activeIdx]
          /\ main \notin {"clear", "indexActive", "flipActive"}
          /\ UNCHANGED <<activeIdx, main, committed>>
      BY <1>10, <2>1 DEF HeadDraw, buffers, handler
    <3>2. frames[activeIdx] = committed
      BY <3>1 DEF FrameInv, ActiveIsCommitted
    <3> QED  BY <3>1, <3>2
  <2>2. CASE ~active'
    BY <1>10, <2>2 DEF HeadDraw, ShowInv, buffers, handler
  <2> QED  BY <2>1, <2>2
<1>11. CASE SideDraw
  BY <1>11 DEF SideDraw
<1>12. CASE Tick
  BY <1>12 DEF Tick, ShowInv, buffers, handler, threads
<1>13. CASE UNCHANGED vars
  BY <1>13 DEF vars, ShowInv, buffers, handler, threads, hist
<1> QED
  BY <1>1, <1>2, <1>3, <1>4, <1>5, <1>6, <1>7, <1>8, <1>9, <1>10, <1>11, <1>12, <1>13
  DEF Next, Handle, MainStep, ThreadStep, ShowInv

LEMMA InvariantHolds == Spec => [](TypeInv /\ FrameInv /\ ShowInv)
<1>1. Init => TypeInv /\ FrameInv /\ ShowInv
  BY TypeInit, FrameInit
<1>2. TypeInv /\ FrameInv /\ ShowInv /\ [Next]_vars => (TypeInv /\ FrameInv /\ ShowInv)'
  BY TypeStep, FrameStep, ShowStep
<1> QED  BY <1>1, <1>2, PTL DEF Spec

(* Wherever main is preempted - in the middle of a packet, between the two *)
(* index writes of a commit, during the copy - the buffer the LED threads  *)
(* read is the frame committed last (led.c:819-831, 2516-2518, 2630-2633). *)
THEOREM FramesAreWhole == Spec => []ActiveIsCommitted
<1>1. FrameInv => ActiveIsCommitted
  BY DEF FrameInv
<1> QED  BY <1>1, InvariantHolds, PTL

(* The next commit shows, of every LED, the color accepted last for it,    *)
(* however many commits lie between: what the plugin's delta encoding      *)
(* relies on (led.c:827-829, signalrgb_neon80.js:450-452).                 *)
THEOREM DraftsAreExact == Spec => []DeltaBase
<1>1. FrameInv => DeltaBase
  BY DEF FrameInv, Drafted, DeltaBase
<1> QED  BY <1>1, InvariantHolds, PTL

(* The head thread, which reads the active index once and the two zones at *)
(* different times, shows two zones of one frame unless a commit or a mode *)
(* set came between (led.c:2631-2633).                                     *)
THEOREM ZonesMatch == Spec => []SideMatchesHead
<1>1. FrameInv /\ ShowInv => SideMatchesHead
  <2> SUFFICES ASSUME FrameInv, ShowInv, head = "showing", ~moved
               PROVE  frames[captured] = base
    BY DEF SideMatchesHead
  <2>1. /\ captured = activeIdx /\ base = committed
        /\ main \notin {"clear", "indexActive"}
    BY DEF ShowInv
  <2> QED  BY <2>1 DEF FrameInv, ActiveIsCommitted
<1> QED  BY <1>1, InvariantHolds, PTL

----------------------------------------------------------------------------
(* Between handlers, while LEDs are streamed and while an answer is made,  *)
(* the last packet was marked no longer ago than it came.                  *)
Marked == main \in {"idle", "stream", "reply"} => age <= silence

LEMMA MarkedStep == TypeInv /\ Marked /\ [Next]_vars => Marked'
<1> SUFFICES ASSUME TypeInv, Marked, [Next]_vars PROVE Marked'
  OBVIOUS
<1>1. age \in 0 .. Timeout /\ silence \in 0 .. Timeout /\ Timeout \in Nat
  BY TimeoutAssumption DEF TypeInv, TypeOK
<1>2. CASE \E msg \in Packets : Handle(msg)
  BY <1>2 DEF Handle, GetInfo, SetMode, StreamZone, CommitFrame, Receive, Marked, handler
<1>3. CASE \E l \in todo : ClearLed(l) \/ CopyLed(l)
  BY <1>3 DEF ClearLed, CopyLed, Marked, hist
<1>4. CASE ResetActiveIndex \/ ResetStagingIndex \/ FlipActive \/ FlipStaging \/ StreamDone
  BY <1>4 DEF ResetActiveIndex, ResetStagingIndex, FlipActive, FlipStaging, StreamDone, Marked
<1>5. CASE MarkPacket
  BY <1>1, <1>5 DEF MarkPacket, Marked, hist
<1>6. CASE ModeReply \/ StreamLed \/ StreamOutOfRange
  BY <1>6 DEF ModeReply, StreamLed, StreamOutOfRange, Marked, hist
<1>7. CASE KeyDraw \/ HeadDraw \/ SideDraw
  BY <1>7 DEF KeyDraw, HeadDraw, SideDraw, Marked, handler, hist
<1>8. CASE Tick
  <2>1. age <= silence => Older(age) <= Older(silence)
    BY <1>1 DEF Older
  <2> QED
    BY <1>8, <2>1 DEF Tick, Marked, handler
<1>9. CASE UNCHANGED vars
  BY <1>9 DEF vars, Marked, handler, hist
<1> QED
  BY <1>2, <1>3, <1>4, <1>5, <1>6, <1>7, <1>8, <1>9 DEF Next, MainStep, ThreadStep

(* A session is ended by a silence of the whole timeout, by the host, or   *)
(* by a thread that comes between the taking of a packet and its mark:     *)
(* never by a pause shorter than the timeout (led.c:727-733).              *)
THEOREM SilenceEndsSessions == Spec => EndsWhenSilent
<1>1. Init => Marked
  BY DEF Init, Marked
<1>2. ASSUME TypeInv, Marked, [Next]_vars
      PROVE  [active /\ ~active' => \/ silence >= Timeout
                                    \/ main = "idle" /\ main' = "reply"
                                    \/ main \notin {"idle", "stream", "reply"}]_vars
  <2> SUFFICES ASSUME active, ~active', main \in {"idle", "stream", "reply"}
               PROVE  silence >= Timeout \/ (main = "idle" /\ main' = "reply")
    OBVIOUS
  <2>1. age \in 0 .. Timeout /\ silence \in 0 .. Timeout /\ Timeout \in Nat
    BY <1>2, TimeoutAssumption DEF TypeInv, TypeOK
  <2>2. ASSUME mode_enabled PROVE silence >= Timeout
    <3>1. ~(age < Timeout) /\ age <= silence
      BY <1>2, <2>2 DEF mode_enabled, Marked
    <3> QED
      BY <2>1, <3>1
  <2>3. CASE \E msg \in Packets : Handle(msg)
    BY <2>2, <2>3 DEF Handle, GetInfo, SetMode, StreamZone, CommitFrame, Receive
  <2>4. CASE MainStep
    BY <2>2, <2>4 DEF MainStep, ClearLed, CopyLed, ResetActiveIndex, ResetStagingIndex,
       MarkPacket, ModeReply, StreamLed, StreamOutOfRange, StreamDone, FlipActive, FlipStaging
  <2>5. CASE ThreadStep
    BY <2>2, <2>5 DEF ThreadStep, KeyDraw, HeadDraw, SideDraw
  <2>6. CASE Tick \/ UNCHANGED vars
    BY <2>6 DEF Tick, vars
  <2> QED
    BY <1>2, <2>3, <2>4, <2>5, <2>6 DEF Next
<1>3. Spec => []TypeInv
  BY InvariantHolds, PTL
<1>4. TypeInv /\ Marked /\ [Next]_vars => Marked'
  BY MarkedStep
<1> QED
  BY <1>1, <1>2, <1>3, <1>4, PTL DEF Spec, EndsWhenSilent
=============================================================================
