--------------------------- MODULE DeviceControl ----------------------------
(***************************************************************************)
(* The device-control protocol over Raw HID: the events and status packets *)
(* of device_control.c on their way through endpoint 2 to a program on the *)
(* host, and that program's commands.                                      *)
(*                                                                         *)
(* Endpoint 2 is the pipe of ReportPipe, which holds one packet: a call of *)
(* HID_sendRawReport blocks the main loop while an earlier packet waits.   *)
(* Whatever waits is lost when the bus is reset; when nobody polls, the    *)
(* watchdog restarts the firmware.  The sequence number and the mask are   *)
(* what lets the host notice and repair a loss.                            *)
(*                                                                         *)
(* A command on its way can be lost although the device acknowledged it:   *)
(* HID_read opens the endpoint again with the last byte, and HID_ack, which *)
(* comes after it, drops what has arrived by then (HidOut has every access *)
(* to the counters; here are the outcomes).                                *)
(*                                                                         *)
(* The edges come from HANDLE_INPUT in any order, a press after a press    *)
(* included: KeyScan shows that an edge can be passed over.                *)
(***************************************************************************)
EXTENDS Integers, Sequences

CONSTANTS Keys,     \* the controls that are pressed and released
          Turns,    \* the two directions of the encoder
          Commands, \* what the host writes to endpoint 2
          SeqWrap,  \* 256: `sequence` is one byte
          MaxLost,  \* bound: events lost in a row
          Unknown   \* what a program knows before the first packet

NoPacket == [type |-> "none"]

\* What is read when one packet comes over another: bytes of both.
Torn == [count |-> 32, magic |-> "CP", version |-> 2, type |-> "STATUS", checksum |-> "wrong"]

ASSUME ControlsAssumption == Keys \subseteq 0..8 /\ Turns \subseteq 0..8
ASSUME BoundsAssumption   == SeqWrap \in Nat \ {0} /\ MaxLost \in Nat
ASSUME UnknownAssumption  == /\ Unknown \notin 0..(SeqWrap - 1)
                            /\ \A mask \in SUBSET (0..8) : Unknown # mask

VARIABLES
  sequence, pressedMask, \* of device_control.c; the mask as a set of bits
  sending,    \* the packet HID_sendRawReport waits to copy
  endpoint,   \* the packet in EP2_SEND_buffer
  command,    \* the packet in EP2_buffer
  opened,     \* the endpoint takes in a packet although one waits to be read
  open,       \* whether a program on the host reads the device's packets
  view, seen, \* its last mask and sequence number
  asked,      \* it waits for a status packet
  missed,     \* history: since then a request was acknowledged and not read
  held,       \* history: controls whose last event was a press
  forgotten,  \* history: those of them that the mask was cleared of since
  stale,      \* history: a packet was lost since the last it read
  lostEvents  \* history: events lost since the last it read

firmware == <<sequence, pressedMask, held, forgotten>>
inbox    == <<command, opened>>
asking   == <<asked, missed>>
host     == <<open, view, seen, asking>>
losses   == <<stale, lostEvents>>
vars     == <<firmware, sending, endpoint, inbox, host, losses>>

Init == /\ sequence = 0 /\ pressedMask = {} /\ held = {} /\ forgotten = {}
        /\ sending = NoPacket /\ endpoint = NoPacket
        /\ command = NoPacket /\ opened = FALSE
        /\ open = FALSE /\ view = Unknown /\ seen = Unknown
        /\ asked = FALSE /\ missed = FALSE
        /\ stale = FALSE /\ lostEvents = 0

-----------------------------------------------------------------------------
(* The packets.                                                            *)

\* Mutant: two keys share a bit.
VisibleTwice  == <<2, 1, 2, 5, 4, 3, 6, 7, 8>>
\* The keys are wired in mirrored order.
visibleControl == <<2, 1, 0, 5, 4, 3, 6, 7, 8>>
Visible(c)     == visibleControl[c + 1]

Status(mask) == [type |-> "status", mask |-> mask]
Event(seq, c, phase, mask) ==
  [type |-> "event", seq |-> seq, control |-> Visible(c), phase |-> phase, mask |-> mask]

Packets == [type : {"status"}, mask : SUBSET (0..8)] \cup
           [type : {"event"}, seq : 0..(SeqWrap - 1), control : 0..8,
            phase : {"release", "press", "turn"}, mask : SUBSET (0..8)]

\* Mutant: the number does not wrap.
SuccPast(n) == n + 1
Succ(n)     == (n + 1) % SeqWrap

-----------------------------------------------------------------------------
(* The main loop, which does nothing else while a packet waits.            *)

Idle == sending = NoPacket

\* CONTROL_emitInput.
EmitInput(c, phase) == /\ Idle
                       /\ pressedMask' = IF phase = "press" THEN pressedMask \cup {Visible(c)}
                                         ELSE pressedMask \ {Visible(c)}
                       /\ sequence' = Succ(sequence)
                       /\ sending' = Event(sequence', c, phase, pressedMask')
                       /\ held' = IF phase = "press" THEN held \cup {c} ELSE held \ {c}
                       /\ forgotten' = forgotten \ {c}
                       /\ UNCHANGED <<endpoint, inbox, host, losses>>

\* Mutant: rotations are not counted.
TurnSequenceKept == UNCHANGED sequence
TurnSequence     == sequence' = Succ(sequence)

\* CONTROL_emitRotation.
EmitRotation(c) == /\ Idle
                   /\ TurnSequence
                   /\ sending' = Event(sequence', c, "turn", pressedMask)
                   /\ UNCHANGED <<pressedMask, held, forgotten, endpoint, inbox, host, losses>>

\* CONTROL_handleUSB.  A command that does not pass is read and forgotten.
Valid(p) == /\ p.count = 32
            /\ p.magic = "CP" /\ p.version \in {1, 2} /\ p.checksum = "right"

\* HID_read to the last byte, and HID_ack.
ReadCommand == Idle /\ command # NoPacket /\ command' = NoPacket /\ opened' = FALSE

\* Mutant: nothing is answered.
AnswerNot(mask) == UNCHANGED sending
Answer(mask)    == sending' = Status(mask)

StatusCommand == /\ ReadCommand
                 /\ Valid(command) /\ command.type = "STATUS"
                 /\ Answer(pressedMask)
                 /\ UNCHANGED <<firmware, endpoint, host, losses>>

\* The keyboard reports it clears are in KeyScan.  A control may still be down.
ReleaseAllCommand == /\ ReadCommand
                     /\ Valid(command) /\ command.type = "RELEASE_ALL"
                     /\ pressedMask' = {} /\ forgotten' = held
                     /\ Answer({})
                     /\ UNCHANGED <<sequence, held, endpoint, host, losses>>

\* What LED commands do is in LedControl, what SET_BINDING does in KeyScan.
OtherCommand == /\ ReadCommand
                /\ Valid(command) => command.type \notin {"STATUS", "RELEASE_ALL"}
                /\ UNCHANGED <<firmware, sending, endpoint, host, losses>>

HandleUSB == StatusCommand \/ ReleaseAllCommand \/ OtherCommand

Room == endpoint = NoPacket

\* The wait of HID_sendRawReport is over (Submit of ReportPipe).
Submit == /\ ~Idle /\ Room
          /\ endpoint' = sending
          /\ sending' = NoPacket
          /\ UNCHANGED <<firmware, inbox, host, losses>>

-----------------------------------------------------------------------------
(* The host.                                                               *)

\* The program reads a packet: every packet has the whole mask.
Deliver == /\ open /\ endpoint # NoPacket
           /\ endpoint' = NoPacket
           /\ view' = endpoint.mask /\ stale' = FALSE
           /\ IF endpoint.type = "event"
              THEN seen' = endpoint.seq /\ lostEvents' = 0 /\ UNCHANGED asking
              ELSE asked' = FALSE /\ missed' = FALSE /\ UNCHANGED <<seen, lostEvents>>
           /\ UNCHANGED <<firmware, sending, inbox, open>>

\* The host's driver polls, and no program reads.
Discard == /\ ~open /\ endpoint # NoPacket
           /\ endpoint' = NoPacket
           /\ UNCHANGED <<firmware, sending, inbox, host, losses>>

NoSession == /\ open' = FALSE /\ view' = Unknown /\ seen' = Unknown
             /\ asked' = FALSE /\ missed' = FALSE /\ stale' = FALSE /\ lostEvents' = 0

Open  == /\ ~open /\ open' = TRUE
         /\ UNCHANGED <<firmware, sending, endpoint, inbox, view, seen, asking, losses>>
Close == open /\ NoSession /\ UNCHANGED <<firmware, sending, endpoint, inbox>>

\* The packets that are answered.
IsRequest(p) == Valid(p) /\ p.type \in {"STATUS", "RELEASE_ALL"}

Written(p) == /\ open /\ asked' = (asked \/ IsRequest(p))
              /\ UNCHANGED <<firmware, sending, endpoint, open, view, seen, losses>>

\* HID_EP2_OUT takes in one packet and has the endpoint refuse the next, unless it
\* comes while HID_ack is about to open it (usb_hid.c:90-92).
Send(p) == /\ command = NoPacket
           /\ command' = p /\ opened' \in BOOLEAN
           /\ Written(p) /\ UNCHANGED missed

\* The packet comes between the last byte of the one that is read, with which the
\* endpoint is open again, and HID_ack, which sets its count to 0 (usb_hid.c:89-103).
SendForgotten(p) == /\ Idle /\ command # NoPacket
                    /\ UNCHANGED inbox
                    /\ Written(p) /\ missed' = (missed \/ IsRequest(p))

\* It comes over a packet that is not read to the end: one of the two is read, or
\* bytes of both.
Overwrite(p) == /\ command # NoPacket /\ opened
                /\ command' \in {command, p, Torn} /\ opened' = FALSE
                /\ Written(p)
                /\ missed' = (missed \/ IsRequest(p) \/ (asked /\ IsRequest(command)))

\* HID_reset: the packet in the endpoint is gone and the one that waits is not; the
\* command in EP2_buffer stays, and the endpoint takes in another.  The program, if its
\* connection outlives the reset, asks again.
BusReset == /\ lostEvents < MaxLost
            /\ endpoint' = NoPacket
            /\ opened' = (command # NoPacket)
            /\ asked' = FALSE /\ missed' = FALSE
            /\ IF open /\ endpoint # NoPacket
               THEN /\ stale' = TRUE
                    /\ lostEvents' = lostEvents + (IF endpoint.type = "event" THEN 1 ELSE 0)
               ELSE UNCHANGED losses
            /\ UNCHANGED <<firmware, sending, command, open, view, seen>>

-----------------------------------------------------------------------------
Watchdog == ~Idle /\ ~Room

\* Nobody took the packet for the watchdog's second: the firmware starts again and
\* the device attaches anew.
Restart == /\ Watchdog
           /\ sequence' = 0 /\ pressedMask' = {} /\ forgotten' = held
           /\ sending' = NoPacket /\ endpoint' = NoPacket
           /\ command' = NoPacket /\ opened' = FALSE
           /\ NoSession
           /\ UNCHANGED held

Next == \/ \E c \in Keys, phase \in {"press", "release"} : EmitInput(c, phase)
        \/ \E c \in Turns : EmitRotation(c)
        \/ StatusCommand \/ ReleaseAllCommand \/ OtherCommand
        \/ Submit \/ Deliver \/ Discard \/ Open \/ Close
        \/ \E p \in Commands : Send(p) \/ SendForgotten(p) \/ Overwrite(p)
        \/ BusReset \/ Restart

Spec == Init /\ [][Next]_vars

\* Each round of the main loop calls CONTROL_handleUSB; the wait of a send ends when
\* there is room; a program that is open reads; and when nothing takes the packet
\* that is waited for, the watchdog runs out.
FairSpec == /\ Spec
            /\ SF_vars(HandleUSB) /\ WF_vars(Submit)
            /\ WF_vars(Deliver) /\ WF_vars(Restart)

-----------------------------------------------------------------------------
TypeOK == /\ sequence \in 0..(SeqWrap - 1) /\ pressedMask \subseteq 0..8
          /\ held \subseteq Keys /\ forgotten \subseteq held
          /\ sending \in Packets \cup {NoPacket} /\ endpoint \in Packets \cup {NoPacket}
          /\ command \in Commands \cup {Torn, NoPacket} /\ opened \in BOOLEAN
          /\ {open, asked, missed, stale} \subseteq BOOLEAN
          /\ view \in {Unknown} \cup SUBSET (0..8)
          /\ seen \in {Unknown} \cup 0..(SeqWrap - 1)
          /\ lostEvents \in 0..MaxLost

\* Once nothing is on its way, a program that lost no packet since the last one it read
\* sees pressed exactly the controls whose last event was a press, through any bus
\* resets and connections (device_control.c:47-61).  The exception: controls that were
\* down at a RELEASE_ALL command or a restart, which clear the mask (:105 and :20),
\* and that have sent no event since.
NothingOnItsWay == sending = NoPacket /\ endpoint = NoPacket /\ ~stale /\ view # Unknown
HostKnowsHeld   == NothingOnItsWay => view = {Visible(c) : c \in held \ forgotten}

\* "current visible pressed-control mask" (PROTOCOL.md:46, 58), without the exception.
\* It does not hold: configuration DeviceControlForgets.
MaskIsCurrent == NothingOnItsWay => view = {Visible(c) : c \in held}

\* "wrapping sequence number" (PROTOCOL.md:55): when a program reads the event that
\* follows the one it read last, it missed none, or a multiple of 256 of them
\* (here SeqWrap); and unless a status was lost its mask changes by just that event.
Applied(mask, e) == CASE e.phase = "press"   -> mask \cup {e.control}
                      [] e.phase = "release" -> mask \ {e.control}
                      [] OTHER               -> mask
EventsAddUp ==
  [][(Deliver /\ endpoint.type = "event" /\ seen # Unknown)
       => /\ (seen' = Succ(seen)) = (lostEvents % SeqWrap = 0)
          /\ ~stale => view' = Applied(view, endpoint)]_vars

\* A program that asks for the status, or to release all, gets its status packet,
\* or the bus or the connection is reset: no packet that waits before it, and no
\* event, holds the answer up for good (device_control.c:75-108, usb_hid.c:50-51).
\* The exception: a request was lost to the one before it or after it, which the
\* endpoint took in too early (usb_hid.c:89-103).
StatusAnswered == asked ~> (~asked \/ missed)

\* The same without the exception.  It does not hold: configuration
\* DeviceControlUnanswered.
EveryRequestAnswered == asked ~> ~asked
=============================================================================
