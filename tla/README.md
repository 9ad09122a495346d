# Verification of the Neon 80 Plus firmware

TLA+ models, model-checking runs and machine-checked proofs for the firmware of
the Angry Miao "Neon 80 Plus" keyboard (`src/keyboards/angrymiao2`, a QMK/Vial
fork) and for the SignalRGB plugin that streams colors to it
(`signalrgb_neon80.js`). The repository holds the whole of QMK; the inventory
below says which part of it is this keyboard's program and which of that is
modelled.

## 1. The system

An STM32F4 runs ChibiOS with three threads:

- **main** scans the matrix, handles keys, and handles the raw HID packets of
  the host (VIA, Vial, animation uploads, SignalRGB);
- **led_scan_thread** draws the keys' LEDs (two AW20216 chips) and
- **head_led_scan_thread** draws the head and the side strip (five chips), each
  in an endless loop of frames.

The LED threads have a higher priority than main (200 against the normal
priority), equal priorities to one another, and the kernel gives no time slices
(`CH_CFG_TIME_QUANTUM` is 0). So a LED thread may come between any two writes
of main, main never comes between two writes of a LED thread unless that thread
waits (for SPI, for a mutex, for the end of its frame), and one LED thread comes
between two writes of the other only at such a wait. The models are built on
these rules.

| Component | Source | State | Operations | Interacts with | What is hard | What makes it correct |
|---|---|---|---|---|---|---|
| Settings log | `app_flash.c` | sector 0 of the SPI NOR flash, `g_user_data` | `save_user_data`, `read_user_data` | lighting keys, uploads, boot | power failing inside a save; NOR flash clears bits only; the slot at the end of the sector | a save that returned is what a boot reads; a save is atomic |
| SignalRGB receiver | `led.c`, `app_flash.c` | two frame buffers, two indexes, mode flag, time of the last packet | packets 0x60 to 0x63, timeout | both LED threads read the buffers between any two writes | unlocked double buffer; timeout against a late packet; refused packets written in part | a frame on show is one whole committed frame; a session ends when, and only when, the host is silent |
| SignalRGB plugin | `signalrgb_neon80.js` | cache of the last frame, force flag | Initialize, Render, Shutdown | sends packets, reads no acknowledgement | delta encoding against state it never reads back; crash in mid-frame | what the keyboard shows is what was rendered |
| Custom animations | `app_flash.c`, `led.c` | nine regions of the flash, `frame_num`, `page_num`, `head_page_num` | upload of packets, playback, mode keys | settings log, LED threads | lengths in a byte; keys changing the mode between a read and the step of the counter; erase extents | a finished upload is there whole and is played frame after frame |
| Lighting keys | `led.c` | modes, indexes into the mode lists, speeds | mode and speed keys, `key_led_init` | settings log, LED threads read the modes | two lists, two indexes and two 16-bit speeds that move together | no wrap, index and mode agree, modes survive the power |
| LED threads: brightness, fade, restart | `led.c`, `aw20216.c` | brightness index, fade, what each chip was told | frame, brightness and power keys, check and restart of the chips | the chips' own registers | a cache of device registers behind which the device can change | between frames every chip shows what was asked for |
| Key matrix scan and debouncer | `quantum/matrix.c`, `quantum/debounce/sym_eager_pk.c` | raw and debounced matrix, a counter per key, two flags, time of the last count | one scan | key events | two flags and one time for all keys; irregular scans; wrapping timer | no key forgotten, no bounce let through, immediate response |
| Key events, ghost filter | `quantum/keyboard.c` | previous matrix | `matrix_task` | debouncer, actions | a phantom key while a corner of the rectangle is deaf | an event for every change, none for a phantom |
| Tap and hold | `quantum/action_tapping.c`, `quantum/action.c` | tapping key, waiting buffer, what the host was told | a key record, a tick | key events, QMK settings | decisions on late events, records that wait for one another, a buffer that fills | a press leaves the buffer once and meets its release; a hold takes its term |
| Rendezvous of the LED threads | `led.c` | `head_running`, `key_running` | wait at the end of a frame | speed keys | polling a flag | neither thread waits for ever |
| Flash driver | `spi_flash_drv.c` | mutex, command buffer | read, program, erase | settings log, animations | | one call at a time |
| LED effects | `led.c`, `ui_data.c` | counters | `*_prase` functions | LED threads | | pure functions of a counter and tables |
| Vial and VIA | `quantum/vial.c`, `quantum/via.c` | unlock state, keymap, macros | packets | takes packets away from the others during an unlock | unlock without a timeout | unlocked only by holding the keys |
| Combos, tap dance, key overrides, deferred execution | `quantum/` | buffers, timers | key records | tap and hold | decisions on late events | each press meets one release |
| Dynamic keymap, macros, settings; wear leveling | `quantum/` | emulated EEPROM | reads and writes | Vial | | |
| Drivers, RTOS, USB, logging | `platforms/`, `SEGGER_RTT*`, `spi_master.c` | | | | | external, assumptions stated here |

`PROJECT.json` lists the same parts with their status, and under "hazards" the
places where the code can go wrong in a way a test would hardly reach, each with
the property that watches it or a note on why none does.

## 2. The modules and the code

| Module | Models | Composed with |
|---|---|---|
| `SettingsRegister` | abstract: a register that is saved and read back | implemented by `UserDataLog` |
| `UserDataLog` | `save_user_data`, `read_user_data` | |
| `SignalRgb` | packet handlers, double buffer, timeout, what the LED threads read | |
| `SignalRgbHost` | the plugin and the USB queue | extends `SignalRgb` |
| `AnimStore` | upload and playback of custom animations | |
| `LedControl` | mode and speed keys, boot | |
| `LedThreads` | brightness, fade, check and restart of the chips | |
| `Debounce` | `matrix_scan` with `sym_eager_pk` | implemented by `KeyMatrix` |
| `KeyMatrix` | `matrix_task`, the ghost filter, the switches' wiring | extends `Debounce` |
| `Tapping` | `action_tapping_process`, the waiting buffer, what `process_action` registers | |
| `MC*` | small instances for TLC | |
| `*_proofs` | theorems | each extends its component; `KeyMatrix_proofs` holds those of `Debounce` too |

Variables and definitions keep the source's names wherever they can; `PROJECT.json`
"map" gives for each definition the lines it stands for.

**UserDataLog.** A slot is a flag byte with its first word, and the other words.
Programming NOR flash only clears bits, so a word is the set of all items
programmed into it since the last erase: the empty set reads as ones, a
singleton reads as its item, more than one as neither. `Begin` is the call, the
`Scan*` actions are the branches of the loop over the slots in the order of the
code, `Supersede`, `Bury`, `WriteNew`, `Retire` are one `SpiFlash_WriteData` of
four bytes each, `EraseSector` the erase; `PowerFail` can strike before, between
and in the middle of any of them (`TornFlash` says what the interrupted one may
leave), and `Boot` is `read_user_data`, which does not look at the checksum. The
branch for a slot that is blank apart from its flag, the loop bound that leaves
the last slot out and the fall into the erase are as in the code.

**SignalRgb.** One action per write of a handler: a mode set clears both buffers
LED by LED (`ClearLed`), resets the indexes one after the other and only then
renews the time of the last packet, while the mode is already on; a commit flips
the active index, then the staging index, then copies the committed frame over
(`CopyLed`). `KeyDraw`, `HeadDraw` and `SideDraw` are the readers; the head
thread captures the active index, waits for SPI, and draws the side zone from
the buffer it captured. Every reader makes the timeout check, which switches the
mode off, so the check is part of each of these actions. A stream packet that
runs past the end of its zone has written the LEDs that fit before it is
refused, as in the code.

**SignalRgbHost.** Initialize, Render and the three shutdowns each put the whole
list of packets they write into `outbox`; the keyboard takes them one at a
time (`Take` is `raw_hid_receive` reaching the handlers). The plugin may crash
with part of its packets written, and starts again with nothing remembered. The
reading of the keyboard's information may fail or succeed. `Packets`, what the
keyboard may be sent, is a constant of the receiver; `PluginAssumption` says that it
holds what the plugin writes.

**AnimStore.** A flash address counts packs, a region is one custom mode of one
zone; `Receive` is the entry of `save_led_data` (the length truncated to a byte,
the renumbering of the last pack), `Save` the saving of the settings that
precedes the data, `EraseOne` a round of the erase loop, `Write` the program of
the packet. `StartFrame`, `ReadSide` and `FinishFrame` are the reads of
`User_mode*_prase` and `Head_mode*_prase`, between which keys and uploads may
change the mode, the counters and the length. Lengths and counters wrap at
`FrameMax`, which is both a region's capacity and the width of the counters, 256.

**LedControl.** One action for the assignments of a handler and one for the end
of its save; between the two the power may fail. The two lists of modes are
numbers; the head mode's companion and its hard-coded place in the keys' list
are separate definitions, as they are separate in the code. Speeds are
`uint16_t` and wrap at `Width`.

**LedThreads.** `StartFrame` decides on the brightness of the frame,
`DrawChip` is one `aw_disp_one_chip_data`, `EndFrame` ends the frame and, every
`CheckEvery` frames of the key thread, looks at one chip's enable bit; `Restart`
is what it does when that bit is off. `Lose` is the outside world: any set of
chips loses its registers. The side chip (`Side`, chip 6) has a place of its own in
the frame: SignalRGB draws it last, at the head's brightness; otherwise the head's
effect draws it before chips 2 to 5 (`Turn`) and asks the power key itself when it
does, knowing nothing of the fade (`Wanted`). `led_sleep`, which the frame also
tests, is written nowhere in the firmware and is left out.

**Debounce.** `Scan(closed, d)` is the whole of `matrix_scan` with its call of
`debounce`, `d` milliseconds after the last one, finding the keys of `closed`
down. Counters, elapsed time and timer have their widths. `DEBOUNCE` is 10 in
the Vial keymap (its `config.h:18`); the `DEBOUNCE = 3` of
`keyboards/angrymiao2/rules.mk:7` sets a make variable nothing reads.

**KeyMatrix.** `MatrixTask` is one pass of `matrix_task`: the scan and the
debouncer (`Scan` of `Debounce`, taken as it is), then every row that changed
makes its events unless `has_ghost_in_row` finds a ghost in it. `Read` is the
wiring: three closed corners of a rectangle close the way of the fourth.
`RealKeys` are the keys with a keycode in the keymap compiled in, which is the
one `get_real_keys` asks, whatever Vial has put in force since.

**Tapping.** `Change` and `Tick` are the two ways a pass of the main loop comes to
`action_tapping_process`: with the record of a key, or with none. `ProcessTapping`
is `process_tapping`, split as the code is: no tapping key, the tapping key down
and undecided (`Undecided`), down and tapped (`Tapped`), up and within its term
(`JustTapped`), term passed. A record it does not consume waits in the buffer
(`Enqueued`, and `waiting_buffer_scan_tap` is `ScanTap`); `Drained` is the loop over
the buffer that follows. `Process` is what `process_action` registers and takes
back for a mod-tap, a letter and a modifier. The bits of `QS.tapping` and the term
are what Vial writes (`SetTapping`), at any time. `owed` is history: how often the
presses of a key are still to be passed on to `process_record`. A press counts once,
and once more for a release that passes it on in advance (`InAdvance`, `Due`; section
6); every passing takes one off, whatever is registered; and what `waiting_buffer_clear`
throws away is taken off by name (`Cleared`). `disturbed` is history too: it is set by the three things that mix up the
records that wait (section 6), since nothing that is said of them holds afterwards. `fresh` and `Stalls` say whether
the main loop may miss all its ticks while a key changes twice: matrix events come
at most one a pass, and ticks only from passes that find no change.

## 3. What is checked

| Run | Instance | Shows |
|---|---|---|
| `settings_log` | 3 slots (2 scanned), 2 words, 2 values, 3 saves begun in a row without one ending | `Durable`, `AtomicSave`, `TidyAtRest`, `EraseOnlyWhenFull`, `SaveEnds`, and that the log implements `SettingsRegister` |
| `signalrgb_frames` | a key and a side LED, 2 colors, 9 packets, good and bad, timeout of 3 ticks | `ActiveIsCommitted`, `DeltaBase`, `SideMatchesHead`, `EndsWhenSilent`, `FallsBack` |
| `signalrgb_host` | 4 LEDs in 2 zones, 3 chunks (2 of them short), 2 pictures | `Faithful`, `NothingRefused` |
| `anim_store` | a key and a head mode, the head's uploaded, 2 animations of up to 2 frames of 3, 2 packs a page, sectors of 3 packs, both threads, power failing | `Uploaded`, `InRange`, `PlaysEveryFrame` |
| `led_control` | 3 key modes, 2 head modes, speeds to 5 with strides 1 and 2, width 8 | `HeadSpeedInRange`, `InStep`, `CountsFromHere`, `ModesSurvive` |
| `led_brightness` | 1 chip and 2 chips, brightness 0, 1, 2, a check at each frame | `ChipsMatch`, `FadeEnds`, `Recovers` |
| `key_matrix` | a rectangle of 4 keys, `DEBOUNCE` 2, bytes to 2, timer of 4, one switch changing a scan | `NoneForgotten`, `Immediate`, `DeafAfterwards`, `PhantomOnlyIfDeaf`, `Reported` |
| `tapping` | 2 mod-taps and a letter or a modifier, a buffer of 4 places (3 records), a term of 2 of a timer of 8 | `StuckOnlyIfDisturbed`, `EachPressOnce`, `HoldTakesTerm`, `Drains` |
| `anim_capacity`, `led_control_key_speed`, `led_restart_key`, `tapping_documented` | | disagreements between the code and what it says of itself, section 6 |

Each definition of a property is preceded by what it says and of which code.
Each module of a component also checks one type invariant.

**Why the bounds are enough.** The settings log reaches the erase from every
arrangement of three slots, and its three tries give it two interrupted saves
with a third one on top of them, the smallest number for which the log's own
copying over of stale slots matters; two words are the least that a record can be
torn between. One LED in each of two zones is enough for the double buffer, since
the handlers treat LEDs alike and the tearing that could happen is between zones,
indexes and buffers; that it holds for any number of LEDs in all three zones is
proved. The host needs a full and a short chunk in one zone and a second zone to
have more than one chunk unchanged. The animations' counters interact through "at the end", "one
beyond" and "wrapped", which lengths of 1 and 2 in a region of 3 produce; a
sector of three packs over pages of two makes an erase begin and end in the
middle of a page. Only one region is uploaded in the run; that uploads to any
number of regions, in any order, leave one another alone is proved. The lighting's
speeds reach the knee of the stride, the maximum plus a stride and zero. The brightness has a value below the one
chosen, for the fade to pass through, and wraps right above it; the head's second
chip makes a frame that a restart cuts in two. The matrix needs a rectangle for a
phantom, which also gives the debouncer more than the two keys for which one
key's end of count and another's start fall into the same scan; a byte that holds
2 and gaps up to 3 make gaps that no counter or byte holds, and a timer of 4 wraps
soon after the debounce time. Tap and hold needs a second mod-tap to become the
tapping key out of the buffer, and a third key to come between the two; with three
records the buffer fills up and is cleared.

The named bounds that the code does not have are `MaxTries` (saves interrupted in
a row), `MaxFrames` (longest animation uploaded), `Backlog` (packets written and
not yet taken when the plugin writes again: writes wait for the keyboard),
`MaxGap` (time between two scans or two passes of the main loop; it must be below
the wrap of the timer, which is 49 days for the debouncer and 65 seconds for
`timer_read` of the tapping), `MaxChanges` (switches that change between two scans)
and `Timeout` in ticks. The widths of timers and bytes, `TapMax` (15 taps),
`WAITING_BUFFER_SIZE` (8) and `FrameMax` (256) are the code's constants, made
small.

**Fairness.** Weak fairness is assumed of what the scheduler runs unasked: main
finishes the handler or the save it is in (`FairSpec` of `UserDataLog`,
`SignalRgb`, `AnimStore`: the LED threads sleep between frames, so the lower
priority gets its turn), the LED threads draw frame after frame, the clock goes
on, and the main loop keeps scanning or ticking: time passes from one pass to the
next (`Passes`, `Quiet`), since `keyboard_task` runs in an endless loop and makes a
tick whenever it finds nothing changed. Nothing makes a host send, a key move, a
chip fail or the power go. `Reported` is of runs in which the switches come to
rest, `Drains` of runs in which keys and settings do, and the end of the fade of
runs in which the brightness index does.

## 4. What is proved

The proofs hold for every value of the constants that meets the assumptions of
the component's module (numbers of LEDs, modes, chips and slots; widths;
timeouts; packets of the host).

- **UserDataLog_proofs**: all its safety properties and the refinement.
  `Durable` (`SaveIsDurable`) is not inductive: it says nothing while a save runs.
  `DurableInv` adds what each stage of the save has established: slots behind the
  scan are retired (`PassedDead`), where the scan stands (`AtSlot`), that the
  record being written is on a slot that was blank and holds the new value in its
  programmed words (`Writing`), and that it is complete before the old one is
  retired (`Retiring`). `PassedDead` alone gives `ErasesOnlyWhenFull`. On top of
  it, `TidyInv` says that blank slots are never followed by used ones unless an
  erase was interrupted (`Compact`) and that nothing lies behind the slot being
  written (`Ahead`), from which `LeavesTidy` follows; it rests on a lemma that a
  step programs one slot and never makes it blank (`Programs`). `AtomicInv` adds
  that a safe save scans towards the only record of a tidy log (`SafeScan`), never
  leaves the branch that writes right behind it (`SafeBusy`) and keeps it the one
  a boot reads (`SafeWrite`), which gives `SafeSaveIsAtomic`. With both, every
  step is a step of `SettingsRegister` or none (`ImplementsItsRegister`): the
  power failure of a safe save is its `Switch` or its `Interrupt`, by the lemma
  `TornSaveReads`.
- **SignalRgb_proofs**: `TypeCorrect`, `FramesAreWhole` (`ActiveIsCommitted`),
  `DraftsAreExact` (`DeltaBase`), `ZonesMatch` (`SideMatchesHead`),
  `SilenceEndsSessions` (`EndsWhenSilent`). The invariant says for each point of
  main in a handler which buffer is on show and how far a wipe or a copy has come (`Distinct`, `Wiped`, `Copied`, `Drafted`), and that the
  buffer the head thread captured is the active one unless something moved
  (`ShowInv`). That a session ends by silence alone rests on `Marked`: between
  handlers the last packet was marked no longer ago than it came.
- **LedControl_proofs**: `TypeCorrect`, `HeadSpeedStays`, `StayInStep`,
  `CountingIsRight`, `ModesAreKept`. The speeds rest on lemmas about arithmetic
  modulo the width (`MovedExact`): a guarded move never wraps.
- **LedThreads_proofs**: `TypeCorrect` and `ChipsAgree`, which is `ChipsMatch`
  under the condition that no brightness key comes between a restart and the next
  frame (`~QuickKeys`; with such a key the run `led_restart_key` is the
  counterexample). The invariant relates a chip's register to the record of what
  it was told: chips already drawn were told the frame's brightness,
  or nothing in the case of a side chip whose effect found the power off
  (`DrawnAreTold`; `Turns` says that every chip has one turn in a frame), a chip shows what it was told or is dark (`ToldOrDark`), and
  a dark one is about to be told or is meant to be dark (`DarkWillBeTold`);
  `LateIsDark` says that the index is 0 until a restart is followed by a frame.
- **AnimStore_proofs**: `TypeCorrect`, `UploadsLast` (`Uploaded`) and
  `CountersInRange` (`InRange`), for any sizes of pages, sectors and regions. Lemmas
  on the layout say that regions do not overlap, that the erase of an upload stays
  in its region, and that two packs of a region have two addresses. `StoreInv` adds
  to `Uploaded` what an upload in progress has written so far and what its next
  packet will be (`Sending`, `Handling`, `Progress`).
- **SignalRgbHost_proofs**: `HostTypeCorrect`, `ImplementsReceiver` (the keyboard in
  the composition is the receiver of `SignalRgb`), `DeltasAreFaithful` (`Faithful`) and
  `ChunksAreTaken` (`NothingRefused`), for any zones, chunk size, frames and backlog.
  `Faithful` speaks of the moment when all packets are taken; what lies before it is
  `LinkInv`: every packet under way fits its zone (`Clean`); for every LED, what the
  packets under way and the handler at work make of the draft is the plugin's cache
  (`Cached`, by `Leaves`, the color a list of packets leaves an LED with); and the
  frame rendered last is the cache, with a commit behind the last packet that
  changes the draft (`Shown`). The lists of `Render` and of the shutdowns are
  followed by lemmas on `Leaves` and on `Changed`, which is recursive over the chunks.
- **KeyMatrix_proofs**, the debouncer: `TypeCorrect`, `NoKeyForgotten`, `ResponseIsImmediate`,
  `KeyIsDeaf`. The invariant: a counter is what is left of a key's deaf time
  (`Paired`), counting goes on as long as one is not zero (`Ticking`), and from
  the time of the last scan (`Fresh`). With it the two action properties follow
  from one lemma about a scan, whatever the gap, the byte and the wrap.
- **KeyMatrix_proofs**, the matrix task: `ImplementsDebouncer`, every behaviour of the matrix task
  is one of `Debounce`, so that the theorems above hold of the composition;
  `MatrixTypeCorrect`; and `PhantomNeedsDeafCorner` (`PhantomOnlyIfDeaf`) for every
  matrix and keymap: a rectangle that is closed and not deaf in all its corners is
  in the debounced matrix, where the filter sees it.
- **Tapping_proofs**: `TypeCorrect` (`TypeOK`), `NoneStaysStuck`
  (`StuckOnlyIfDisturbed`) and `EachPassedOnce` (`EachPressOnce`), for any keys,
  keymaps, settings, buffer and timer.
  - *The loop.* The loop over the buffer is a recursive function of the number of
    rounds (`Drained`); that it has a value, and that what every round keeps holds
    at its end (`DrainedBy`), is shown by induction: the library's
    `NatLessThanWellFounded` gives every set of numbers a least member, and with it
    an induction over sets (`LeastNatural`, `SetInduction`) that takes no operator.
  - *The invariant.* Both properties look at a key only when its records are gone,
    so neither is inductive. `CalmInv` says, as long as nothing was disturbed, what
    lies between: which keys are down before each record that waits (`Path`), what
    a scan of the buffer may have marked (`Marks`), that the tapping key agrees
    with it (`TapIs`), in which role a key is registered and that its release will
    find that role (`Right`, `Told`), that the records wait in the order of their
    times (`Order`), that what interrupted the tapping key waits before its release
    (`Ahead`: the loop stops there, so that a release passes a press on in advance
    once and not in every round), how many presses wait (`Owes`), and how old a
    record can get (`Bounded`). `RoundGood` shows that a round of the loop keeps it, `DrainedGood`
    the loop, `EmptyBrought`, `OpenBrought` and `TickBrought` the record or the
    tick that is looked at before the buffer.
  - *What `EachPassedOnce` says.* What is owed is what waits: no press gets lost in
    the buffer and none is taken from it twice. It does not say that
    `process_action` meets each press exactly once, which is false of the code: a
    full buffer drops presses and an interrupted mod-tap is passed on twice
    (section 6). Both are in the account, with an operator of their own.
  - *The hypothesis.* The last two theorems ask for `Timely`: a term and the
    longest pass of the main loop for every place of the buffer and one more fit
    into the timer, `t + MaxGap * (WAITING_BUFFER_SIZE + 1) < Width`. With the
    code's 16 bits and 8 places, a term of 200 ms leaves more than seven seconds for
    each pass. The code does not enforce it: a host may write a term near 65535, so
    it is a hypothesis of the theorems and no assumption of the module. The run
    `tapping` meets it with nothing to spare. It is sufficient; that it is necessary
    is not claimed.

**Only model-checked.** Liveness (`SaveEnds`, `FallsBack`, `PlaysEveryFrame`,
`FadeEnds`, `Recovers`, `Reported`, `Drains`) is beyond the prover. Of `Tapping`,
`HoldTakesTerm` is checked and not proved: it relates what a step registers to the
time of a press that the loop met several rounds earlier, which `CalmInv` does not
keep.

## 5. Abstractions

- Writes to shared variables take effect in the order of the source. The
  SignalRGB indexes and flags are not `volatile`; the models take the build to
  keep their order. The three bytes of one LED are one step.
- Replies to packets are left out: neither plugin nor keyboard acts on them, but
  for the plugin's first reading of the keyboard's information.
- A call of the flash driver succeeds and, in `AnimStore`, is one step (the
  driver holds its mutex across it); in `UserDataLog` a write of four bytes is
  one step that the power may interrupt. Transfers to the LED chips succeed.
- The saved modes are addresses of structures of one firmware build.
- The brightness keys' increment and clamp are one step.
- `LedThreads` keeps one variable for `light_up` and the lightness of a frame, which
  are equal as long as the fade lasts, and `light_up` is not looked at afterwards.
  Whether SignalRGB streams is chosen anew for each frame of the head, as
  `signalrgb_mode_enabled` is asked; what switches it is in `SignalRgb`.
- Colors, effects, key codes and the layout of LEDs are not modelled.
- The wiring of the matrix is the ideal one without diodes: current finds its way
  over three closed corners at once. `matrix_pins.ghost` in `info.json:18` is what
  says that this keyboard's matrix has ghosts and compiles the filter in.
- `Tapping` has mod-taps, letters and modifiers. Layer-tap, one-shot keys,
  swap-hands, retro tapping and what `process_record_quantum` would swallow
  (combos, auto shift, tap dance) are left out, and so is `qmk_settings_reset`,
  which is a `SetTapping`. The time of an event is `timer_read()`; the code sets
  its lowest bit so that it is never 0.
- The VIA unlock, which takes packets away from every other handler, is not part
  of the SignalRGB models; `src/readme.md:46` tells the user not to run both.

## 6. Disagreements found

The counterexamples are runs with `expect: violation`; `PROJECT.json` "findings"
quotes the lines.

1. `anim_capacity`: an animation of 256 frames, which a region is said to hold,
   has length 0 in a byte (`app_flash.c:116`) and only its first frame is played.
2. `led_control_key_speed`: the head's speed keys move the keys' step under a
   guard on the head's step alone (`led.c:2894`): one press of the keys' faster key
   and one of the head's make it wrap.
3. `led_restart_key`: a restart of the chips leaves the record of what they were
   told as it was (`led.c:2553`); chips stay dark when the brightness comes back
   to the old value before the next frame.
4. `tapping_documented`: `docs/tap_hold.md:121` and `123` say when a mod-tap is
   held; with permissive hold the code takes the release of another key and a
   later press of it for a tap (`action_tapping.c:170`), so that a key is held
   early although no other was pressed and then released.

Others were met without a run of their own, since the properties that hold say
exactly where they begin:

- A release can overtake its press. The loop over the buffer stops at a record
  that is not consumed (`action_tapping.c:104`), and after one that only ended a
  tapping the rest of the buffer waits with no decision open; the next call looks
  at its new record first. If that is the release of a key whose press waits, the
  press is passed on after it and the key stays down for the host.
- A mod-tap that was tapped and is pressed again to be held starts without
  `waiting_buffer_scan_tap` (`action_tapping.c:394`; every other start has it). When its
  release and a third press wait already, the release is taken for that of a
  tapping key that is down, in the order press, release, press, although the
  scan would have made a tap of it; the key can stay down for the host.
- Settings take effect on records that wait. A press decided by the old term or bits
  meets its release under the new ones, and can stay down for the host too.
  `StuckOnlyIfDisturbed` and `EachPressOnce` hold in every other case. Two
  conditions are the code's constants': at `TapMax` 1 (the code has 15) a second tap
  could not be told from a first, and the timer must not go around while a record
  waits (`Timely`, section 4).
- The release of a mod-tap that was interrupted within its term, where interrupts
  are not ignored, passes its press on as a first tap (`action_tapping.c:155`);
  `process_action` turns it into a hold by setting its count back to 0, so it is
  still undecided, and it is passed on again when that is decided
  (`action_tapping.c:319`). `process_action` meets the press twice, and registers the
  same modifier both times. This happens with nothing disturbed; `EachPressOnce`
  counts it as one passing more (`InAdvance`).
- A record that finds the buffer full clears it and releases all keys
  (`action_tapping.c:449`, then `89` to `97`): the presses that wait, the undecided
  tapping key and the record itself never reach `process_action`. `Cleared` is that
  loss, and no property says it does not happen.
- The ghost filter looks at the debounced matrix (`keyboard.c:495`). A phantom is
  reported if a corner that closes the rectangle is deaf, or if a corner is
  released while the phantom it made is deaf; `PhantomOnlyIfDeaf` holds otherwise.
  While a row with a ghost differs from what was reported, no tick is made.
- The fade after power on ends only at the exact brightness (`led.c:2508`,
  `2624`), so a key that lowers the brightness below what the fade has reached
  makes it run up to the maximum first. It does end (`FadeEnds`).
- The plugin's shutdown color is a single frame: with nothing after it, the
  keyboard's timeout (`led.c:730`) takes it away two seconds later (`FallsBack`),
  so that its "SignalRGB" and "Hardware" shutdowns end alike.

## 7. Not modelled

- **Rendezvous of the LED threads** (`led.c:2562` to 2571, 2644 to 2653): how long a
  frame waits depends on durations that the source does not give, and nothing else
  depends on it. The models let the threads take their frames in any order, which
  includes every order the wait allows.
- **Flash driver, LED driver transport**: a call holds its mutex from the first line
  to the last, and the SPI functions below return success unconditionally, so the
  error branches that would keep a mutex are not reachable.
- **Vial and VIA commands, dynamic keymap, QMK settings, wear leveling**: requests
  and answers over tables, one packet at a time on the main loop. The unlock, whose
  hold on other packets has no timeout, is listed as a hazard.
- **One-shot keys, layers, combos, tap dance, key overrides, deferred execution**:
  configured by the user, empty in the keymap of the repository. Each keeps a
  buffer of its own in front of or behind that of `Tapping` and would be a model of
  its size.
- **LED effects** are pure functions of a counter. The RTOS, USB, logging, other
  keyboards and the old flash driver `xtx_flash.c`, which `rules.mk` does not build,
  are not this program.

The models were built in this order: `UserDataLog` with `SettingsRegister`, the two
SignalRGB modules, `AnimStore`, `LedControl`, `LedThreads`, `Debounce`, `KeyMatrix`,
`Tapping`. The settings and the two users of the flash came first since what goes
wrong there stays wrong after the power returns, then what two threads share
without a lock, then the way from a switch to what the host is told. What would add
most next is the unlock composed with the packets of `SignalRgb`, an abstract key
that is pressed and released in turn implemented by `KeyMatrix` with `Tapping`, and
combos in front of `Tapping`.
