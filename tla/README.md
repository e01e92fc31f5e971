# Agent Micro firmware: TLA+ models and proofs

This directory holds TLA+ models of the Agent Micro macropad firmware (CH552, 8051
core) and of the native flasher that programs it. TLC checks the models on small
instances. TLAPS proves some results for every value of the constants. Paths below are
relative to the repository root.

Contents: [the system](#1-the-system) · [the modules](#2-the-modules) ·
[the runs](#3-the-runs) · [fairness](#4-fairness) · [the proofs](#5-the-proofs) ·
[findings](#6-findings) · [not modelled](#7-not-modelled) · [plan](#8-plan)

## 1. The system

One main loop and one interrupt run on a processor without an operating system.

```
  keys, encoder                        host (macOS app, keyboard driver)
       | pins                               | USB
       v                                    v
  macropad_test.c  ----------------->  usb_handler.c (interrupt)
   main loop: scan, encoder, commands    endpoint 0, dispatch, bus reset
       |            |                       |
  input_actions.c  device_control.c      usb_hid.c  (main program and interrupt)
   bindings         packets, mask         HID_sendReport, HID_sendRawReport,
       |            |        |            HID_read, HID_ack, HID_EPx_IN/OUT, HID_reset
  usb_conkbd.c ----+---> led_control.c -> neo.c
   KBD_report, CON_report   (20 ms tick, commands)
```

| Part | State | Operations | Hard because | Correct means |
|---|---|---|---|---|
| HID IN endpoints (`usb_hid.c`) | busy flags, endpoint responses and lengths, two send buffers | `HID_sendReport`, `HID_sendRawReport`, `HID_EP1_IN`, `HID_EP2_IN`, `HID_reset` | the interrupt falls between any two steps of a send; the source is the live report; busy-wait without limit | the host reads whole reports, once; a send returns |
| Raw HID OUT endpoint and reader (`usb_hid.c`, `device_control.c`) | byte count, read pointer, buffer, response, toggle | `HID_EP2_OUT`, `HID_available`, `HID_read`, `HID_ack`, read loop of `CONTROL_handleUSB` | counters shared with the interrupt and changed by a load and a store; retried packets | each packet is carried out once, whole, in order |
| Keyboard library (`usb_conkbd.c`) | `KBD_report`, `CON_report` | press, release, type, release all, by key and by code; consumer keys; reset | six slots and four slots; byte comparisons | the report is a set of codes; the host is told of every change |
| Input actions (`input_actions.c`) | bindings | trigger, press, release, release all, SET_BINDING | bindings change while a chord is held | nothing stays pressed |
| Scan and main loop (`macropad_test.c`) | last readings, loop position | `HANDLE_INPUT`, encoder, `CONTROL_handleUSB` once per round | three reads of a pin with delays between them | each edge is handled; the mask is true |
| Device control (`device_control.c`) | pressed-control mask, sequence number | `CONTROL_handleUSB`, `CONTROL_emitInput`, `CONTROL_emitRotation`, `sendStatus` | packets are lost to bus resets; the firmware restarts while keys are held; answers queue behind events | a program that lost nothing knows which controls are held, and can tell when it lost something |
| USB device handler (`usb_handler.c`) | `SetupReq`, `SetupLen`, `pDescr`, `UsbConfig`, endpoint 0 registers | `USB_EP0_SETUP`, `USB_EP0_IN`, `USB_EP0_OUT`, `USB_interrupt` | the state of a transfer outlives it; abandoned transfers, lost handshakes, resets | exact and complete data; address taken at the right moment; transfers end |
| USB descriptors (`usb_descr.c`, `.h`) | none; constant tables and the layout of the endpoint buffers | the choice of `GET_DESCRIPTOR` | sizes and identifiers are repeated by hand in code that a compiler does not compare | a driver that has read them expects what the firmware sends |
| Watchdog and delays (`delay.c`, `system.h`, main loop) | time since `WDT_reset` | `DLY_ms`, `WDT_reset`, restart | the time of a round is spread over every module; a send waits for the host | no round is too long; no wait lasts for ever |
| LEDs (`led_control.c`) | six configurations, 16-bit tick | SET_ONE, SET_ALL, ALL_OFF, animation tick, render | byte arithmetic; a chain whose order is not the logical one | each key shows its colour; effects keep their shape |
| NeoPixel driver (`neo.c`) | none; the line to the chain | `NEO_sendByte`, `NEO_writeColor` | pulses measured in clock cycles; a pause in the middle latches the chain | the chain shows what was written |
| Native flasher (`tools/iokit_ch55x_flasher.cpp`) | step, offset, return code; flash of the board | preflight, session test, flash | commands fail, replies come too late, the user interrupts and repeats | success means flashed; only the measured board is erased |
| Pins, clock, register header, `chprog.py`, IOKit probes, shell wrappers | none | | | see [section 7](#7-not-modelled) |

How they interact:

- **Shared memory.** The main program and the interrupt share the flags, counters and
  buffers of `usb_hid.c`, and the reports of `usb_conkbd.c`, which the bus-reset handler
  clears (`KBD_resetState`). No section of the main program but `render` disables
  interrupts.
- **Calls.** `HANDLE_INPUT` calls `ACTION_press` or `ACTION_release` and
  `CONTROL_emitInput`. These build reports and send them with `HID_sendReport` and
  `HID_sendRawReport`.
- **Messages.** Reports and Raw HID packets travel over endpoints whose response (ACK,
  NAK, STALL) is the only flow control.
- **Time.** The main loop resets the watchdog once per round. Whatever delays a round,
  a delay or a send that waits, counts against it.

`PROJECT.json` lists the hazards of this code, line by line, with the properties that
cover each.

## 2. The modules

| Module | Models | Granularity |
|---|---|---|
| `HidIn` | both IN endpoints, `HID_reset`, endpoint halts, and what descriptor reads do to their buffers | one action per step of a send: wait, copy one byte, length, flag, arm. The interrupt falls between any two |
| `ReportPipe` | abstract: one endpoint is a one-place pipe | refined by `HidIn` (`IsPipe`) |
| `HidOut` | OUT endpoint 2 and its reader | one action per access to a shared variable; an increment in external RAM is a load and a store |
| `KbdReport` | the functions of the keyboard library, as operators on the two reports and what was last sent of them | one operator per function |
| `ConKbd` | those functions called in any order | one action per function of the header |
| `KeySet` | abstract: a bounded set of keys held down | refined by `ConKbd` (`IsKeySet`) |
| `InputActions` | bindings and what triggering, pressing and releasing one does to the reports | operators over `KbdReport` |
| `KeyScan` | main loop, scan, encoder and commands, composed with `InputActions` and `KbdReport` | one action per read of a pin, per keystroke and per other action carried out |
| `DeviceControl` | events, status packets and commands, endpoint 2 as a one-place pipe, and a program on the host that comes and goes | one action per call and per packet moved |
| `Watchdog` | the time of a round of the main loop against the watchdog and the host's polls | one action per delay, per step of a binding, per report and per wait, in milliseconds |
| `Ep0Control` | control transfers of endpoint 0 with a host that loses handshakes, abandons transfers and resets the bus | one action per request, per interrupt and per host transaction |
| `Descriptors` | the descriptors byte for byte, the choice among them, the buffer layout, and what a HID driver reads out of them | operators |
| `Enumeration` | `Ep0Control` composed with `Descriptors`: what a driver has read against what the firmware sends | the steps of `Ep0Control` |
| `NeoPixel` | gamma table, pulses in clock cycles, and the chain that decodes them | operators |
| `LedControl` | LED configuration, effects, rendering through `NeoPixel` | one action per command and tick |
| `NativeFlasher` | the command sequence of the flasher with boot loader, user and boards | one action per command sent, carried out and answered |
| `HidInProofs`, `HidOutProofs`, `ConKbdProofs`, `DeviceControlProofs`, `Ep0ControlProofs`, `MainLoopProofs`, `LedControlProofs`, `NativeFlasherProofs` | proofs about the module each is named after; `MainLoopProofs` about `KeyScan` and `Watchdog`, `Ep0ControlProofs` also about `Enumeration` | [section 5](#5-the-proofs) |

Each `MC` module gives the instances of its module for TLC, and the `.cfg` files give
the bounds. Names follow the code: `busy` is the busy flag of an endpoint; `tRes`,
`rRes`, `tLen` and `tTog` are the response, length and toggle fields of the `UEPn_CTRL`
and `UEPn_T_LEN` registers; `token` is the transfer whose interrupt is pending;
`busReset` is `UIF_BUS_RST`. Variables marked *history* in a module are not in the code
and guard nothing.

Every definition preceded by a comment `Mutant:` is a faulty variant of the definition
that follows it (`Mutants:` for several). No specification uses them. Substituting one breaks the property that
`PROJECT.json` pairs it with.

### What the abstractions keep

- **Interrupts.** One transfer is pending at a time. While the flag is set the engine
  answers NAK (`bUC_INT_BUSY`, `usb_handler.c:451`), so the host's next transaction
  finds `token = "none"`. A bus reset may become pending on top of a transfer, which is
  then served first (`usb_handler.c:341-421`), the copy at the end of a descriptor read
  included.
- **HidIn.** The source of the keyboard endpoint is the live report, so a reset during
  the copy changes the bytes still to be copied. A report has an identifier, which a
  reset keeps, and a payload. The end of a descriptor read overwrites every endpoint
  buffer (section 6): `Overruns` says when that reaches something in use.
- **HidOut.** Packets are numbered and a byte is (packet, position), so mixtures of
  packets are visible. The counters have the width `Wrap`. A host that sets a halt gives
  up its packet and keeps its toggle; one that clears it starts again from DATA0. The
  firmware's toggle goes to DATA0 on both, and the end of a reading takes the halt back.
- **KeyScan.** The pins change between any two steps; the debounce delay and the time
  reports take are such points. Each keystroke of a sequence is a step, so a bus reset
  or a pin may come between two. The reports of one keystroke, or of any other action,
  are one step, because what interrupts do to them is the subject of `HidIn` and
  `HidOut`. The history variable `lost` counts, modulo two, the edges of a control that
  fall between the reading `HANDLE_INPUT` acts on and the one it records (`Unwatched`):
  it follows the pin and not what becomes of `last`. A control that is down at power-up
  has had such an edge, because `main` records its first reading without acting on it.
- **DeviceControl.** The wait of a send, the buffer and the host's poll are what
  `ReportPipe` promises of endpoint 2. Of a command packet the outcomes are kept that
  `HidOut` has access by access. It waits in the buffer until it is read, and the
  endpoint refuses the next (`Send`). Or it comes after the last byte of another and
  before `HID_ack`: then it is acknowledged and forgotten (`SendForgotten`). Or it comes
  over another, into an endpoint that `HID_ack` or a bus reset has opened, and one of the
  two is read, or bytes of both (`opened`, `Overwrite`, `Torn`). The history variable
  `held` follows the events alone: neither RELEASE_ALL nor a restart changes what is held
  down. `forgotten` are the held controls that one of these two took out of the mask.
  Edges come in any order, a second press without a release included, because
  `KeyScan` shows that an edge can be passed over. The sequence number counts modulo
  `SeqWrap`. Constant bytes and the sum of the checksum are left out: a checksum is
  right or wrong. A program that is reopened knows nothing of what was sent before;
  one that is closed leaves the polls to the host's driver.
- **Watchdog.** Delays are whole milliseconds and no report has a content. Every
  control may take every path through `HANDLE_INPUT` in every round, so the rounds are
  at least as long as the code's; a binding in use has a number of steps out of
  `Counts`, and a step sends a number of reports out of `Sent` (two for a press and a
  release, fewer when the code is in the report already or finds no room). Computing
  takes no time, except one millisecond for a rendering, which is tight: 18 bytes, two
  latches and the divisions of the effects come close to it. The clock and the
  prescaler of the watchdog are those of the code. The formulas are called `TimeInit`,
  `TimeSpec` and so on because `MainLoopProofs` extends `KeyScan` as well.
- **Ep0Control, Enumeration.** A byte of a data stage is (descriptor, position).
  `Descriptors` gives the real tables, but a text is described by its length. What
  requests do to endpoints 1 and 2 is in `HidIn` and `HidOut`. `received` is the list of
  packets the host has, and `count` the bytes in them.
- **LedControl, NeoPixel.** All numbers are those of the code. A pulse is its time high
  and its whole time, in cycles. The chain decodes it by the limits the driver's own
  comments name, and drops what a gap cuts off.
- **NativeFlasher.** A reply that comes too late stays in the pipe for the next reader.
  The OUT endpoint of the board holds one packet and the IN endpoint one or two replies
  (`MaxReplies`); a write that finds the OUT endpoint taken times out.
  A chunk may be written badly without an error. Programming a word that is not blank
  gives a mixture. The payload of a reply is reduced to "the one expected or not".

## 3. The runs

"Violation" runs check one sentence of a comment or document that the code does not
keep (section 6). All others pass.

| Run | Question | Properties | Bounds |
|---|---|---|---|
| `hid_in` | Do resets and halts at any point of a send corrupt a report? | `TypeOK` `WholeReports` `IsPipe` | 2 endpoints, reports of 2 bytes |
| `hid_in_live` | Does a send return, and does its report arrive? | `SendReturns` `ReportReachesHost` | 1 endpoint, resets, descriptor reads, no halts |
| `hid_in_descr` | violation | `ReadyToWrite` | descriptor reads, no resets |
| `hid_out` | Is each packet carried out, once, whole and in order? | `TypeOK` `ReaderExact` `NothingForgotten` `TakenInOnce` `HostBeliefTrue` `TakenInIsHandled` | 2 packets of 0 to 2 bytes, losses, halts, resets, descriptor reads, repeated configuration |
| `con_kbd` | Is the keyboard report a set, and does the host know it? | `TypeOK` `OneSlotPerCode` `HostKnowsKeys` `IsKeySet` `ConTapEnds` | 2 + 2 slots, every class of key |
| `con_kbd_wide` | violation | `ConTapEnds` | a key of 548 |
| `key_scan` | Does anything stay stuck, does a held chord stay, is a stable input handled? | `TypeOK` `NothingStuck` `HeldChordStays` `StableInputHandled` | 2 keys and the encoder, bindings of every kind, chords that share keys and modifiers, resets |
| `device_control` | Does a program know which controls are held, does it notice every loss, is it answered? | `TypeOK` `HostKnowsHeld` `EventsAddUp` `StatusAnswered` | 2 keys whose bits are swapped, 1 turn, 3 commands, sequence modulo 3, 3 events lost in a row, requests lost to their neighbours |
| `watchdog` | Is any round too long for the watchdog, and does the loop always come round? | `TimeTypeOK` `RoundFitsWatchdog` `LoopComesRound` | all 9 controls, bindings of 0 or 5 steps, two reports a step, polls 10 ms after each report |
| `ep0` | Is a data stage exact, does a driver expect what the firmware sends, is the address agreed, does every transfer end? | `TypeOK` `DataExact` `DriverAgrees` `AddressAgrees` `ControlEnds` | packets of 64 and all 8 descriptors of the device |
| `led` | Does each key show its own colour, and do the effects keep their shape? | `TypeOK` `KeysShowTheirColors` `EffectsKeepShape` | 25 commands, tick modulo 6, 16 MHz |
| `flasher` | Does success mean flashed, whatever happened before? Is any other board safe? Does a run end? | `TypeOK` `SuccessMeansFlashed` `EraseFitsImage` `OthersUntouched` `RunEnds` | 6 runs, 3 sectors of 2 words, 4 images |

TLC also evaluates the assumptions on every run. Two of them say that the device meets
what a theorem asks of the constants: `RoundAssumption` of `MCWatchdog` and
`DeviceAssumption` of `MCEp0Control`. Three more speak of no parameter
and check tables and arithmetic case by case: `PulsesKeepLimits` (both bits at every
clock the driver supports), `BitsMakeTheByte` (the eight bits sent of every byte) and
`GammaShape`.

Further configurations, outside these runs. Three pass: `HidOutThree` (of `MCHidOut`),
the safety properties of `hid_out` with three packets and without descriptor reads;
`HidInOverrun` (of `MCHidIn`), the safety properties of `hid_in` for one endpoint with
descriptor reads as well; and `Ep0Small` (of `MCEp0Control`), the transfers of `ep0`
with packets of 3 bytes and descriptors shorter than a packet, of two packets and of two
packets and a byte. The others show deviations described in section 6: `HidInReady`,
`HidInStale` and `HidInHalt` (of `MCHidIn`), `HidOutCutIn` (of `MCHidOut`),
`KeyScanEdge` (of `MCKeyScan`), `DeviceControlForgets` and `DeviceControlUnanswered` (of
`MCDeviceControl`), `ConKbdModifier` (of `MCConKbd`) and `LedWrap` (of `MCLedControl`).

Why the bounds are enough:

- **Report and packet sizes.** Two bytes give a copy a first byte, a last byte and a
  point in between, which is all the code distinguishes. `Wrap = 8` lets a counter
  that is decremented below zero leave the buffer, as 256 does with 64 bytes.
- **Packets.** With two packets one is being read while the other waits, is repeated or
  cuts in; the toggle has two values, so a third packet meets the endpoint as the first
  did. `HidOutThree` confirms this with three.
- **Slots.** Two slots fill up and leave a third key without one. The loops over the
  slots are uniform.
- **Keys.** Two keys are the least that can share a code or a modifier. The scan
  treats its inputs alike.
- **Descriptors.** The device's own, asked for in 0, 9, 64 and 255 bytes: the amounts
  drivers ask for, below and above each length. In `Ep0Small` one descriptor is shorter
  than a packet, one fills its last packet, one has a byte left over; the host asks
  below, at and above each.
- **Sequence number.** With `SeqWrap = 3` and three losses the number wraps completely
  while nobody looks: `EventsAddUp` says that this is the only loss it does not show.
- **Held controls.** The two keys are chosen so that a mask that mixes up logical and
  visible indices fails. The proof covers all nine.
- **Commands.** Three are enough for a request, one that releases all and one that is
  not answered to come before, after and over each other.
- **Rounds.** Every path of every handler is there; bindings have no step or five,
  `ACTION_MAX_STEPS`. Ten milliseconds is `bInterval`; that polls that
  come sooner, bindings of fewer steps and steps of fewer reports are no worse is proved
  (`NoRestartWhilePolled`).
- **Animation.** Periods are below and above the least one (0, 4, 5, 7) and at the limit
  of a byte (254, 255); brightnesses are 1, 200 and 255. `EffectsKeepShape` walks one
  whole period of each configuration met, so the tick only has to wrap.
- **Flasher.** Chunks of three words straddle sectors of two. Four runs let two
  replies accumulate in the pipe and two more runs read them.
- **What is proved** holds without bounds: section 5 says for which properties the runs
  are no longer the only evidence.

## 4. Fairness

Only runs of liveness properties use a fair specification.

- **`HidIn`.** Weak fairness of the main program's steps (the processor runs), of the
  interrupt (it is enabled and nothing masks it for longer than a rendering) and of
  the host's configuration. Strong fairness of the host's poll of each endpoint: resets
  may interrupt polling, but a host that polls again and again finds an armed endpoint
  in the end. No fairness of `SendCall`: nothing forces the program to send.
- **`HidOut`.** Weak fairness of the main program and the interrupt.
  `CONTROL_handleUSB` is called in every round of the loop (`macropad_test.c:107`),
  and the sends between two calls return (`SendReturns`).
- **`KeyScan`.** Weak fairness of the loop. None of the pins.
- **`DeviceControl`.** Weak fairness of the end of a send, of the program's reads while
  it is open, and of the watchdog's restart. Strong fairness of `CONTROL_handleUSB`: it
  is called in every round, but the sends of events disable it in between. None of the
  program's commands, of the keys or of bus resets.
- **`Watchdog`.** Weak fairness of the firmware: the processor runs, and the watchdog's
  counter with it. None of the host, which may stop polling at any time and for good.
- **`Ep0Control`.** Weak fairness of the interrupt, strong fairness of the host's
  progress: a host that repeats a transaction does not lose the handshake every time.
- **`NativeFlasher`.** Weak fairness of the program. Every write and read has a limit
  of two seconds (`iokit_ch55x_flasher.cpp:131-141`). The boot loader is not assumed to
  answer.

`SendReturns` needs the host: without polling a send waits for ever. `LoopComesRound`
needs no host: the watchdog ends such a wait with a restart, and `HostKnowsHeld` says
what the program knows after it.

Deadlock checking is off for the flasher, which stops when its runs are used up, and for
`HidOutCutIn`, where after three packets and without faults the system may stop between
two polls.

## 5. The proofs

Each module named after the module it is about proves its results for every value of the
constants that the named assumptions of that module allow. In every one of them the
argument is the same: an inductive invariant, which TLC checked on the runs' instances
before it was proved, holds initially (`InitInv` or `InitIInv`), is kept by every step
(one lemma per action or group of actions, combined in `NextInv` or `StepInv`), and
implies the properties.

| Module | Theorem | Property |
|---|---|---|
| `HidInProofs` | `TypeCorrect`, `ReportsAreWhole`, `PipeImplemented` | `TypeOK`, `WholeReports`, `IsPipe` |
| `HidOutProofs` | `TypeCorrect`, `NoneTwice`, `NoneMissed`, `CommandsAreThePackets`, `EveryPacketCarriedOut` | `TypeOK`, `TakenInOnce`, `HostBeliefTrue`, `ReaderExact`, `NothingForgotten` |
| `ConKbdProofs` | `TypeCorrect`, `NoCodeTwice`, `HostUpToDate`, `KeySetImplemented`, `TapsEnd` | `TypeOK`, `OneSlotPerCode`, `HostKnowsKeys`, `IsKeySet`, `ConTapEnds` |
| `DeviceControlProofs` | `TypeCorrect`, `MaskReachesHost`, `LossesShow` | `TypeOK`, `HostKnowsHeld`, `EventsAddUp` |
| `Ep0ControlProofs` | `TypeCorrect`, `AddressShared`, `DataStageExact`, `DeviceDataExact`, `DriverUnderstands` | `TypeOK`, `AddressAgrees`, `DataExact`, `DataExact`, `DriverAgrees` |
| `MainLoopProofs` | `TypeCorrect`, `NoOtherEdgeLost`, `ChordsStay`, `NothingStaysStuck`, `TimeTypeCorrect`, `NoRestartWhilePolled` | `TypeOK`, `EdgesAccounted`, `HeldChordStays`, `NothingStuck`, `TimeTypeOK`, `RoundFitsWatchdog` |
| `NativeFlasherProofs` | `TypeCorrect`, `OnlyMeasuredErased`, `EraseCovers`, `SuccessIsTrue` | `TypeOK`, `OthersUntouched`, `EraseFitsImage`, `SuccessMeansFlashed` |
| `LedControlProofs` | `TypeCorrect`, `RightKeyRightColor`, `ShapesKept` | `TypeOK`, `KeysShowTheirColors`, `EffectsKeepShape` |

With that every safety property of the passing runs is proved. What is left to TLC is at
the end of this section.

### HidInProofs

For every set of endpoints, report size and set of reports, with resets, halts and
descriptor reads at any point. `WholeReports` is not inductive, because it says nothing
of the time before an endpoint is armed. The invariant is
`TypeOK /\ TokenInv /\ \A e \in Eps : SendInv(e)`.

- `SendInv(e)` describes an unspoilt endpoint at each point of a send. While it is
  armed, its flag is set and main is not past its wait for it; that is what keeps the
  next send out of the buffer. While main copies, the bytes below the index are those of
  the report, and the report is still the one submitted. From there to arming, the
  buffer is complete.
- `TokenInv` says that an endpoint whose delivery is pending is still armed, so that
  the exception for it in `Armed` ends where `HID_EP_IN` disarms it.

`PipeImplemented` is the refinement of `ReportPipe`, step by step (`NextPipe`): arming is
`Submit`, the IN interrupt is `Deliver`, a reset or a halt is `Drop`, and every step in
between leaves the pipe as it is. It needs `ReportInv` (what is being sent is a report),
that a cleared report is a report (`ReportsAssumption`), and that `Nothing` and `Junk`
differ from each other and from every report (`PipeAssumption`).

### HidOutProofs

For every packet size, every counter width above it, any number of packets, with losses,
resets, halts and repeated configurations. The invariant has an endpoint's side and a
reader's side.

- `OrderInv`: a packet that was taken in cannot be taken in again, because the host is
  past it or repeats it with the toggle the endpoint no longer expects (`Past`).
  `BeliefInv` is the converse: a toggle the endpoint does not expect means that the
  host's packet was taken in, unless the host configured the device twice or a halt is
  set. When the end of a reading takes the halt back, the toggles may differ for no such
  reason: from there on `desynced` exempts the packets the host sends.
- `ReaderInv` holds as long as nothing cut into a reading (`cutIn`). `LedgerInv`: the
  packets taken in are those carried out, the one about to be carried out and the one in
  the buffer. `BufferInv`: the one in the buffer stays until it is read. `Position` and
  `BytesRead`: at every access of `HID_read` the count, the pointer and the bytes read
  so far agree, though each of them changes by a load and a store.

### ConKbdProofs

For every number of slots, every key map and every set of calls. The functions of the
library are compositions of a few edits of the report, so the lemmas speak of reports and
of edits (`InsertGood`, `DeleteGood`, ...): each keeps `Good` (types, no code in two
slots, and the host was told) and changes the set of codes as `KeySet` allows.
`EmptySlotLeavesRoom` counts: a report with an empty slot has fewer codes than slots.
`TapsEnd` has the hypothesis that the consumer keys fit into one byte, which is true of
those the bindings of the firmware hold; the run `con_kbd_wide` shows that it is needed.

### DeviceControlProofs

For every set of controls and commands, every wrap of the sequence number and any number
of events lost in a row. `HostKnowsHeld` says nothing while a packet is on its way. The
invariant adds what the packets carry:

- `MaskInv`: the mask has the bits of the held controls that it was not cleared of, and
  no others, because no two controls share a bit (`VisibleDistinct`, `BitsOfHeld`).
- `NewestInv`: the newest packet carries the present mask. That is the packet a send
  waits with, or else the one in the endpoint, or else the one read last, unless it was
  lost. A packet is built only when no other waits, so none becomes outdated behind a
  newer one.
- `ClosedInv`: a program that is closed knows nothing.

`EventsAddUp` is an action property. Its invariant `EventInv` has two more parts.
`CountInv`: the number of the event in the endpoint, and the firmware's number, count on
from the last number the program read by the events lost and those on their way, modulo
the wrap. `ChainInv`: each event's mask is the one before it with that event applied. The
arithmetic modulo a number that is not known rests on the uniqueness of quotient and
remainder (`DivisionUnique`), from which `RemainderOfSum` and `SameRemainder` follow.
`UnknownAssumption` says that "nothing read yet" is neither a number nor a mask.

### Ep0ControlProofs

For every packet size above two, every set of descriptors with any lengths, every set of
requests, and a host that loses handshakes, abandons transfers and resets the bus. Each
stage of a transfer has its part of the invariant. `AddressInv`: while the end of a
SET_ADDRESS is pending, and only then, the host is ahead of the device, by the address in
`SetupLen`. `DescrInv`: what was sent, what is in the buffer and what is left add up to
the bytes to send, and the toggles tell whether the host has the packet in the buffer.
`ReceivedInv`: the packets the host has follow each other without a gap.

`DataStageExact` has a hypothesis: for whatever a host means by a request, the firmware
chooses that descriptor (`Choice[w] = Meant[w]`). `ChoiceRight` shows it of the switch in
`USB_EP0_SETUP` and every combination of type, index and interface, not only the seven
requests of the run, and `DeviceDataExact` follows for the device.

`DriverUnderstands` adds what is read to how it is read: at the status stage the packets
a host has are those of the descriptor it meant, and that descriptor agrees with the
firmware. `AllAgree` shows it of the device descriptor (`PacketSizeNamed`) and the texts
(`TextSize`). A driver's walk through a configuration or a report descriptor is
recursive and out of the prover's reach, so `Agrees` of these three is a hypothesis. It
speaks of no parameter but the tables: TLC decides it by evaluating it, in
`DeviceAssumption`, for the very bytes the theorem is about.

### MainLoopProofs

*What a round does* (`KeyScan`). For every number of controls, slots and steps, every visit order, all defaults and all
commands, with bus resets at any point. The edits of the reports are characterised once
(`PressDoes`, `ReleaseDoes`, `TypeDoes`, `ConTypeDoes`) by what they do to the set of
codes and to the modifiers; the steps of the loop need no more than that.

- `NothingStuck` and `HeldChordStays` speak of the report the host got. They are not
  inductive without the same facts about the report being edited, which the next send
  passes on: `Explained` and `Keeps` are claimed of both (`ChordInv`).
- When a key is released, what stays in the report has another code and other
  modifiers, so a control other than the released one accounts for it. When a binding is
  replaced, the reports are empty. These are the two places where a key could get stuck.
- `EdgesAccounted` says nothing of a control that is in its window. There, `EdgeInv` says
  it of the pin, which is about to be recorded, and before it, that an edge being
  confirmed is one against the record. What `StableInputHandled` exempts is then no more
  than the window it names. The invariant is proved and listed in no run.
- The consumer report is a separate part (`ConInv`): it is empty between two steps.
  `NothingStaysStuck` therefore has the hypothesis `ByteUsages`, that the usages of the
  consumer bindings fit into one byte; the run `con_kbd_wide` shows why it is needed.
  The keyboard's half, `ChordInv`, needs no hypothesis (`Invariance`).

*How long it takes* (`Watchdog`). For every clock, every number of steps of a binding and
of reports of a step, and every host that polls within `bInterval`, or stops and goes on.
That a round fits is not inductive: at any point of it, what matters is what is still to
come. `Due(todo, turn)` is the longest that what is left of the present handler and of the
round can take: the delays, ten milliseconds for every report, and 22 for every step
(`Cost`, `Rest`). `BudgetInv`: as long as the host has not stopped since the watchdog was
reset, the time since then, the wait for the report an endpoint still holds and `Due`
together are at most `LongestRound`. Each step moves time from one of these to
another and adds to none: a delay from `Due` to the time gone by; a report from `Due` to
the wait; a wait, at most ten milliseconds, to the time gone by; a step of a binding is
replaced by the operations it consists of, which cost no more (`StepFits`). At
`WDT_reset` the rest of the round and the whole next one are within the budget.

`NoRestartWhilePolled` has the hypothesis that `LongestRound`, 161 ms and 176 ms for each
step of the longest binding, is less than `Period`. For the device that is 1041 ms against
1044, and `RoundAssumption` has TLC compute it. So the theorem leaves 3 ms for what the
model counts as none, the rest of a rendering included. The bound is not tight: by TLC
the rounds of six steps still fit, because part of what a report waits is gone by when
the next is sent, but `Due` counts it in full. A step more is worth far more than a
rendering, so what the run shows does not depend on that millisecond.

### NativeFlasherProofs

For every word, chunk and sector size, set of images and number of runs. The difficulty
are the replies that come too late: a run may read the reply of an earlier one. `LagInv`
says how far the replies may be behind: until the key, what is in the pipes only asks, and
from the erase on the program reads its own replies. Together with `BoardInv`, `ModeInv`,
`CommandInv` and `ProgressInv` (what is blank and what is written so far, at each step)
that gives the three safety properties.

The proof attempt found what they depend on. The pipes have to be as short as USB makes
them: the OUT endpoint holds one packet, so a command is not accepted while an earlier
one waits, and the IN endpoint has one or two buffers (`MaxReplies \in 1..2`). With four,
TLC finds `EraseFitsImage` violated: a flash run can then read a stale reply in place of
the answer to its erase. The model had left the length of the OUT pipe open. It also
needs the names of images to differ from the marks for words that are blank, bad or
untouched (`ImageAssumption`).

### LedControlProofs

For every set of packets with any byte values, every tick wrap and every supported clock.
The invariant is that the chain shows the picture of the present configuration and tick,
and the types. `RenderExact` follows a frame through the bits, the pulses and the
forwarding of the chain. `ShapeHolds` is about all periods and brightnesses a packet can
set: `Climbs` and `Falls` bound the step of an integer quotient from one tick to the next.
Three facts about tables (`PulsesKeepLimits`, `BitsMakeTheByte`, `GammaShape`) are
assumptions that speak of no parameter: TLC decides them by evaluating every case.

### What stays with TLC

- Liveness under fairness, and anything that mentions `ENABLED`, which the prover does
  not support: `SendReturns`, `ReportReachesHost`, `TakenInIsHandled`,
  `StableInputHandled`, `StatusAnswered`, `LoopComesRound`, `ControlEnds`, `RunEnds`.
- What a driver reads out of the configuration and the two report descriptors, in the
  hypothesis of `DriverUnderstands`: it is computed by recursion.

## 6. Findings

The first two are the counterexamples of the violation runs; the others are shown by the
configurations named. The first two, `HidOutCutIn`, `DeviceControlForgets` and
`KeyScanEdge` contradict a sentence of a comment or document, which `PROJECT.json` quotes.

| Run or configuration | What happens | Where |
|---|---|---|
| `hid_in_descr` | The copy loop turns a length of 0 into 256: the end of every descriptor read overwrites all endpoint buffers, a report that waits for the host among them | `usb_handler.c:35` |
| `con_kbd_wide` | `==` binds tighter than `&`: consumer keys of 256 and more are never released | `usb_conkbd.c:222` |
| `HidOutCutIn` | The endpoint is opened again before `HID_ack`: a packet in between is acknowledged and forgotten | `usb_hid.c:101` |
| `DeviceControlUnanswered` | So a status request may never be answered, without any reset | `usb_hid.c:101` |
| `DeviceControlForgets` | RELEASE_ALL and a restart clear the mask while controls are held down: `PROTOCOL.md:46` and `58` say "current visible pressed-control mask" | `device_control.c:105`, `20` |
| `KeyScanEdge` | A release between the second and third reading of a pin is never handled | `macropad_test.c:39` |
| `HidInReady` | A bus reset between the busy flag and arming leaves the endpoint armed and not busy; the next send overwrites it | `usb_hid.c:43` |
| `HidInStale` | A press copied before a bus reset is delivered after it, while the firmware's report is cleared | `usb_hid.c:113` |
| `HidInHalt` | CLEAR_FEATURE(ENDPOINT_HALT) disarms the endpoint and leaves the busy flag set; the next send waits until the watchdog fires | `usb_handler.c:197` |
| `ConKbdModifier` | A modifier pressed by itself is not sent | `usb_conkbd.c:62` |
| `LedWrap` | The 16-bit tick wraps in the middle of a period | `led_control.c:31` |

More are exceptions that a passing property had to name. Each was found when the
property without it failed:

- `HeldChordStays`: a chord whose key is down already, or that finds no empty slot (six
  slots, seven controls that can hold a chord), is not sent, so its modifiers are
  missing until the next report (`usb_conkbd.c:148-159`), and the release or tap of
  another chord takes a shared key or modifier away (`usb_conkbd.c:173-180`).
- `HostBeliefTrue`: a second SET_CONFIGURATION resets the host's data toggle and not the
  endpoint's (`usb_handler.c:145-147`); and both ends of a reading answer ACK whatever
  the response was (`usb_hid.c:92`, `:102`), so a halt set in between is taken back while
  host and endpoint are on different toggles.
- `StatusAnswered`: as above, and a request that comes over another in an endpoint that
  was opened too early.

Observations made while modelling that no run depends on:

- `RoundFitsWatchdog` holds with little room: it still does with six steps per binding,
  and no longer with seven, or with a pause of 20 ms between steps.
- When no program reads the Raw HID interface, and the host's driver does not poll it
  either, the second key event waits until the watchdog restarts the device
  (`usb_hid.c:50`). Bindings set by the host are then gone.
- A request for a text the device does not have (index 3, say) is not refused but
  answered with the list of languages (`usb_handler.c:100`, `usb_descr.h:84`). The model
  keeps this, and `MeantBy` expects nothing of it.
- `LED_tick20ms` runs every twentieth round (`macropad_test.c:108-112`). A round takes a
  millisecond and whatever its reports take, so a tick is at least 20 ms.
- The keyboard interface uses report identifiers while its subclass says "boot interface"
  (`usb_descr.c:55`).

## 7. Not modelled

- **`NEO_writeHue`, `NEO_init`**: the first has no caller, the second sets up a pin.
- **Cycle counts of the delay loops, clock switch, pin macros, `ch554.h`**: no state of
  their own; most of the macros are not used by this firmware.
- **Constant bytes and the checksum's sum** of the control packets: a checksum is right
  or wrong.
- **`HID_EP1_OUT` and `KBD_getState`**: they keep keyboard LEDs that nothing reads.
- **A bus reset in the middle of a call of the keyboard library**: in `KeyScan` it comes
  between two calls. `HidIn` has it between any two steps of the send.
- **`chprog.py`**: a vendored client of the same boot loader, kept beside the project's
  own. It is sequential and has no state beyond a run. Its commands are those of
  `NativeFlasher`, but it does not compare a reply with its command, and what the codes
  it accepts mean is not in this repository, so a model of it would rest on guesses. Its
  first-generation path cannot run as written (`chprog.py:136` and `200-201`: a reply of two
  bytes becomes a number, which has no length).
- **The IOKit probes and the wrappers**: straight-line operating-system I/O without
  state.
- **Suspend**: the handler only clears flags. A host that stops polling is in `Watchdog`.

## 8. Plan

Done, in this order: the IN endpoints and their pipe; the OUT endpoint; the keyboard
library; actions and scan; endpoint 0; LEDs; the flasher; the proofs about `HidIn`; the
NeoPixel driver under the LEDs; the descriptors under endpoint 0; the device-control
protocol with its host program; the watchdog; the proofs about `DeviceControl`; the
refinement of `ReportPipe`; the proofs about `HidOut`, `ConKbd`, `Ep0Control`,
`NativeFlasher`, `LedControl` and `KeyScan`; `EventsAddUp`; the proofs about `Watchdog`
and `Enumeration`, with which every safety property is proved.

Next, for the models: `Submit` and `Deliver` of `DeviceControl` as those of an instance
of `ReportPipe`, so that the composition with `HidIn` is checked and not only argued.
