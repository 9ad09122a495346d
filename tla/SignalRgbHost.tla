--------------------------- MODULE SignalRgbHost ---------------------------
(***************************************************************************)
(* The SignalRGB plugin (signalrgb_neon80.js) and the keyboard it streams  *)
(* to.  The plugin sends of every frame only the chunks that changed since *)
(* the frame it sent before; the keyboard applies them to the copy of that *)
(* frame it kept.  The two agree on nothing else: no packet is answered,   *)
(* numbered or repeated, so what is on show is right only as long as the   *)
(* plugin's cache and the keyboard's staging buffer stay equal.            *)
(***************************************************************************)
EXTENDS SignalRgb

CONSTANTS
  ChunkLeds,      (* MAX_LEDS_PER_PACKET                                   *)
  ShutdownColor,  (* shutdownColor, the color of the user's choice         *)
  Pictures,       (* the frames the canvas may call for                    *)
  Backlog         (* packets written that the keyboard has not taken yet   *)

ASSUME HostAssumption ==
  /\ ChunkLeds \in 1 .. MaxLeds /\ Backlog \in Nat
  /\ ShutdownColor \in Colors /\ Pictures \subseteq Frame

VARIABLES
  plugin,   (* "off", "on", or after Shutdown "color" or "hardware"         *)
  outbox,   (* what the plugin has written and the keyboard not yet taken   *)
  prev,     (* previousZoneFrames, <<>> when it is empty                    *)
  force,    (* forceFullFrameSend                                           *)
  infoRead, (* infoReadSucceeded                                            *)
  wanted    (* history: the last frame rendered, <<>> since Initialize      *)

host    == <<plugin, outbox, prev, force, infoRead, wanted>>
allVars == <<vars, host>>

Info      == [cmd |-> "info"]
Mode(on)  == [cmd |-> "mode", on |-> on]
Commit    == [cmd |-> "commit"]
Solid(c)  == [l \in Led |-> c]

(* sendZoneColors cuts every zone into chunks; the last may be shorter.    *)
Chunks(z) ==
  [k \in 1 .. ((Count[z] + ChunkLeds - 1) \div ChunkLeds) |->
     [zone |-> z, start |-> (k - 1) * ChunkLeds]]
AllChunks == Chunks("key") \o Chunks("head") \o Chunks("side")

ChunkLed(c) ==
  {l \in Leds(c.zone) : c.start <= l[2] /\ l[2] < c.start + ChunkLeds}

\* A slip to compare with: the last chunk is as long as the others.
StreamPadded(c, f) ==
  [cmd |-> "stream", zone |-> c.zone, start |-> c.start,
   rgb |-> [i \in 1 .. ChunkLeds |->
              IF c.start + i <= Count[c.zone] THEN f[<<c.zone, c.start + i - 1>>] ELSE Black]]

StreamOf(c, f) ==
  [cmd |-> "stream", zone |-> c.zone, start |-> c.start,
   rgb |-> [i \in 1 .. (IF c.start + ChunkLeds <= Count[c.zone] THEN ChunkLeds
                                                     ELSE Count[c.zone] - c.start)
            |-> f[<<c.zone, c.start + i - 1>>]]]

(* sendZoneColors skips a chunk only if it is the same in the cached frame *)
(* (chunkMatches), and never in a full frame or without a cached one.      *)
Goes(c, f) == force \/ prev = <<>> \/ \E l \in ChunkLed(c) : prev[l] # f[l]

\* A slip to compare with: the LED offset of a later chunk is left out.
ChangedNoOffset(f) ==
  LET sent[n \in 0 .. Len(AllChunks)] ==
        IF n = 0 THEN <<>>
        ELSE IF Goes(AllChunks[n], f)
             THEN Append(sent[n - 1], [StreamOf(AllChunks[n], f) EXCEPT !.start = 0])
             ELSE sent[n - 1]
  IN sent[Len(AllChunks)]

(* The chunks of f that go out, in the order they are written.             *)
Changed(f) ==
  LET sent[n \in 0 .. Len(AllChunks)] ==
        IF n = 0 THEN <<>>
        ELSE IF Goes(AllChunks[n], f)
             THEN Append(sent[n - 1], StreamOf(AllChunks[n], f))
             ELSE sent[n - 1]
  IN sent[Len(AllChunks)]

(* The packets the plugin may write are among those the keyboard may get.  *)
ASSUME PluginAssumption ==
  /\ {Info, Commit, Mode(TRUE), Mode(FALSE)} \subseteq Packets
  /\ \A i \in DOMAIN AllChunks : \A f \in Pictures \cup {Solid(Black), Solid(ShutdownColor)} :
        StreamOf(AllChunks[i], f) \in Packets

----------------------------------------------------------------------------
HostInit ==
  /\ plugin = "off" /\ outbox = <<>>
  /\ prev = <<>> /\ force = TRUE /\ infoRead = FALSE
  /\ wanted = <<>>

(* requestInfo: the answer may not come in time.                           *)
RequestInfo == infoRead' \in {infoRead, TRUE}

\* A slip to compare with: the cache survives a new session.
InitializeKeepsCache ==
  /\ plugin # "on" /\ Len(outbox) <= Backlog
  /\ RequestInfo
  /\ outbox' = outbox \o <<Info, Mode(TRUE)>>
  /\ plugin' = "on"
  /\ wanted' = <<>>
  /\ UNCHANGED <<prev, force, vars>>

Initialize ==
  /\ plugin # "on" /\ Len(outbox) <= Backlog
  /\ RequestInfo
  /\ outbox' = outbox \o <<Info, Mode(TRUE)>>
  /\ plugin' = "on"
  /\ prev' = <<>> /\ force' = TRUE
  /\ wanted' = <<>>
  /\ UNCHANGED vars

(* sendAllColors; the writes wait for the keyboard.                        *)
SendAll(f) ==
  /\ plugin = "on" /\ Len(outbox) <= Backlog
  /\ IF infoRead THEN UNCHANGED infoRead ELSE RequestInfo
  /\ outbox' = outbox \o (IF infoRead THEN <<>> ELSE <<Info>>) \o Changed(f) \o <<Commit>>
  /\ prev' = f /\ force' = FALSE
  /\ wanted' = f
  /\ UNCHANGED vars

Render(f) == SendAll(f) /\ UNCHANGED plugin

ShutdownSuspending == SendAll(Solid(Black)) /\ plugin' = "off"

ShutdownSignalRgb == SendAll(Solid(ShutdownColor)) /\ plugin' = "color"

ShutdownHardware ==
  /\ plugin = "on" /\ Len(outbox) <= Backlog
  /\ outbox' = Append(outbox, Mode(FALSE))
  /\ plugin' = "hardware"
  /\ force' = FALSE
  /\ UNCHANGED <<prev, infoRead, wanted, vars>>

(* The program dies in the middle of its writes.  Started again, it        *)
(* remembers nothing.                                                      *)
HostCrash ==
  /\ plugin = "on"
  /\ \E n \in 0 .. Len(outbox) : outbox' = SubSeq(outbox, 1, n)
  /\ plugin' = "off"
  /\ prev' = <<>> /\ force' = TRUE /\ infoRead' = FALSE
  /\ wanted' = <<>>
  /\ UNCHANGED vars

(* The keyboard takes packets one by one, in order.                        *)
Take ==
  /\ outbox # <<>>
  /\ Handle(Head(outbox))
  /\ outbox' = Tail(outbox)
  /\ UNCHANGED <<plugin, prev, force, infoRead, wanted>>

Keyboard == (MainStep \/ ThreadStep \/ Tick) /\ UNCHANGED host

HostNext ==
  \/ Initialize
  \/ \E f \in Pictures : Render(f)
  \/ ShutdownSuspending \/ ShutdownSignalRgb \/ ShutdownHardware
  \/ HostCrash
  \/ Take
  \/ Keyboard

HostSpec == Init /\ HostInit /\ [][HostNext]_allVars

----------------------------------------------------------------------------
HostTypeOK ==
  /\ plugin \in {"off", "on", "color", "hardware"}
  /\ outbox \in Seq(Packets)
  /\ prev \in Frame \cup {<<>>} /\ force \in BOOLEAN
  /\ infoRead \in BOOLEAN
  /\ wanted \in Frame \cup {<<>>}

(* Once the keyboard has worked off what was sent, the frame on show is    *)
(* the one rendered last, although only its changes were sent, over        *)
(* restarts and crashes of the host and whatever the keyboard showed       *)
(* before.                                                                 *)
Faithful ==
  outbox = <<>> /\ main = "idle" /\ wanted # <<>> => frames[activeIdx] = wanted

(* The keyboard refuses nothing the plugin sends: every packet is written  *)
(* whole, up to the last LED of each zone.                                 *)
NothingRefused == main = "stream" /\ pos < Len(req.rgb) => InRange
============================================================================
