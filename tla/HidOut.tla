------------------------------- MODULE HidOut -------------------------------
(***************************************************************************)
(* The interrupt-OUT endpoint 2 and its reader: HID_EP2_OUT in the USB     *)
(* interrupt, HID_available, HID_read and HID_ack in the main program, and *)
(* the loops of CONTROL_handleUSB that take a command packet out of the    *)
(* endpoint buffer byte by byte.                                           *)
(*                                                                         *)
(* The two sides share the byte count, the read pointer, the buffer and    *)
(* the endpoint's response: after a packet the interrupt answers NAK, and  *)
(* the main program answers ACK again when it has read it.  The response   *)
(* is changed by one instruction; the count and the pointer lie in         *)
(* external RAM, where an increment is a load and a store.                 *)
(***************************************************************************)
EXTENDS Integers, Sequences

CONSTANTS Size,        \* bytes of a command packet (CONTROL_PACKET_SIZE)
          Wrap,        \* values of a uint8_t (256 in the code)
          Lengths,     \* packet lengths the host sends
          MaxPackets,  \* bound: packets the host sends in all
          Losses,      \* whether a handshake may be lost, and the packet retried
          Halts,       \* endpoint feature requests the host may issue
          Resets,      \* whether the host may reset the bus
          Reconfigs,   \* whether the host may repeat SET_CONFIGURATION
          Descriptors  \* whether the host may read descriptors meanwhile

ASSUME SizeAssumption    == /\ Size \in Nat \ {0} /\ MaxPackets \in Nat
                            /\ Wrap \in Nat /\ Wrap > Size
ASSUME LengthsAssumption == Lengths \subseteq 0 .. Size
ASSUME FaultsAssumption  == /\ Halts \subseteq {"CLEAR", "SET"}
                            /\ {Losses, Resets, Reconfigs, Descriptors} \subseteq BOOLEAN

Ids == 1 .. MaxPackets

\* Byte i of packet k, and a byte of no packet.
Byte(k, i) == <<k, i>>
NoByte     == <<0, 0>>
Bytes      == {Byte(k, i) : k \in Ids, i \in 0 .. Size - 1} \cup {NoByte}

\* All the bytes of packet k, in order.
Whole(k) == [i \in 1 .. Size |-> Byte(k, i - 1)]

VARIABLES
  pc, draining, packet, reg,  \* main: step, which loop, bytes read, a register
  count, point,               \* USBByteCountEP2, USBBufOutPointEP2
  rRes, rTog, buffer,         \* endpoint: response, expected toggle, EP2_buffer
  token, togOK, rxLen,        \* pending transfer: token, U_TOG_OK, USB_RX_LEN
  busReset,                   \* pending UIF_BUS_RST
  configured, hTog, id, hLen, \* host: toggle, packet under way and its length
  sent, accepted, dispatched, \* history: packets completed, taken in, handled
  cutIn, desynced             \* history: see Overwrites; SetConfiguration, TakeAgain

mainVars == <<pc, draining, packet, reg>>
shared   == <<count, point, rRes>>
sieVars  == <<rTog, buffer, token, togOK, rxLen, busReset>>
hostVars == <<configured, hTog, id, hLen>>
history  == <<sent, accepted, dispatched, cutIn, desynced>>
vars     == <<mainVars, shared, sieVars, hostVars, history>>

NoPacket == -1  \* the host has no packet under way

Init == /\ pc = "poll" /\ draining = FALSE /\ packet = <<>> /\ reg = 0
        /\ count = 0 /\ point = 0
        /\ rRes = "ACK" /\ rTog = 0 /\ buffer = [i \in 0 .. Size - 1 |-> NoByte]
        /\ token = "none" /\ togOK = FALSE /\ rxLen = 0 /\ busReset = FALSE
        /\ configured = FALSE /\ hTog = 0 /\ id = 1 /\ hLen = NoPacket
        /\ sent = {} /\ accepted = <<>> /\ dispatched = <<>>
        /\ cutIn = FALSE /\ desynced = FALSE

-----------------------------------------------------------------------------
(* CONTROL_handleUSB and the functions it reads the endpoint with.         *)

Step(from, to) == pc = from /\ pc' = to

mainOnly == <<sieVars, hostVars, history>>

\* Mutant: full packets are drained.
WrongSizeOff == count >= Size
WrongSize    == count # Size

Poll == /\ pc = "poll"
        /\ count # 0
        /\ draining' = WrongSize
        /\ packet' = <<>>
        /\ pc' = "loop"
        /\ UNCHANGED <<reg, shared, mainOnly>>

\* The head of either loop: while HID_available(), or for i < Size.
LoopNext == /\ Step("loop", "test")
            /\ IF draining THEN count # 0 ELSE Len(packet) < Size
            /\ UNCHANGED <<draining, packet, reg, shared, mainOnly>>

LoopDone == /\ Step("loop", "ackCount")
            /\ IF draining THEN count = 0 ELSE Len(packet) = Size
            /\ UNCHANGED <<draining, packet, reg, shared, mainOnly>>

\* The loop body gets a byte; the draining loop drops it.
Got(byte) == packet' = IF draining THEN packet ELSE Append(packet, byte)

ReadNothing == /\ Step("test", "loop")
               /\ count = 0
               /\ Got(NoByte)
               /\ UNCHANGED <<draining, reg, shared, mainOnly>>

ReadTest == /\ Step("test", "fetch")
            /\ count # 0
            /\ UNCHANGED <<draining, packet, reg, shared, mainOnly>>

ReadFetch == /\ Step("fetch", "loadPoint")
             /\ Got(IF point \in DOMAIN buffer THEN buffer[point] ELSE NoByte)
             /\ UNCHANGED <<draining, reg, shared, mainOnly>>

LoadPoint == /\ Step("loadPoint", "storePoint")
             /\ reg' = point
             /\ UNCHANGED <<draining, packet, shared, mainOnly>>

\* Mutant: the pointer is not advanced.
NextPointMissing == reg
NextPoint        == (reg + 1) % Wrap

StorePoint == /\ Step("storePoint", "loadCount")
              /\ point' = NextPoint
              /\ UNCHANGED <<draining, packet, reg, count, rRes, mainOnly>>

LoadCount == /\ Step("loadCount", "storeCount")
             /\ reg' = count
             /\ UNCHANGED <<draining, packet, shared, mainOnly>>

\* Mutant: the count is signed.
NextCountSigned == reg - 1
NextCount       == (reg - 1) % Wrap

StoreCount == /\ Step("storeCount", "last")
              /\ count' = NextCount
              /\ UNCHANGED <<draining, packet, reg, point, rRes, mainOnly>>

ReadMore == /\ Step("last", "loop")
            /\ count # 0
            /\ UNCHANGED <<draining, packet, reg, shared, mainOnly>>

ReadLast == /\ Step("last", "accept")
            /\ count = 0
            /\ UNCHANGED <<draining, packet, reg, shared, mainOnly>>

\* The endpoint takes packets again, also when the host had halted it: the host is
\* not told, and its toggle may not be the one SET_FEATURE left.
TakeAgain == /\ rRes' = "ACK"
             /\ desynced' = (desynced \/ (configured /\ rRes = "STALL" /\ hTog # rTog))
             /\ UNCHANGED <<count, point, sieVars, hostVars, sent, accepted, dispatched, cutIn>>

ReadAccept == /\ Step("accept", "loop")
              /\ TakeAgain
              /\ UNCHANGED <<draining, packet, reg>>

AckCount == /\ Step("ackCount", "ackPoint")
            /\ count' = 0
            /\ UNCHANGED <<draining, packet, reg, point, rRes, mainOnly>>

AckPoint == /\ Step("ackPoint", "ack")
            /\ point' = 0
            /\ UNCHANGED <<draining, packet, reg, count, rRes, mainOnly>>

AfterAck == IF draining THEN "poll" ELSE "check"

Ack == /\ Step("ack", AfterAck)
       /\ TakeAgain
       /\ UNCHANGED <<draining, packet, reg>>

\* The magic, version and XOR tests pass every whole packet; a mixture of two
\* packets may pass too.
Dispatch == /\ Step("check", "poll")
            /\ \/ dispatched' = Append(dispatched, packet)
               \/ /\ \A k \in Ids : packet # Whole(k)
                  /\ UNCHANGED dispatched
            /\ UNCHANGED <<draining, packet, reg, shared, sieVars, hostVars>>
            /\ UNCHANGED <<sent, accepted, cutIn, desynced>>

Main == \/ Poll \/ LoopNext \/ LoopDone
        \/ ReadNothing \/ ReadTest \/ ReadFetch
        \/ LoadPoint \/ StorePoint \/ LoadCount \/ StoreCount
        \/ ReadMore \/ ReadLast \/ ReadAccept
        \/ AckCount \/ AckPoint \/ Ack \/ Dispatch

-----------------------------------------------------------------------------
(* The USB interrupt.                                                      *)

\* Mutant: a repeated packet is not told from a new one.
TogOKIgnored == TRUE
TogOK        == togOK

TakeIn == /\ count' = rxLen
          /\ point' = 0
          /\ rRes' = IF rxLen # 0 THEN "NAK" ELSE rRes
          /\ accepted' = IF rxLen = Size THEN Append(accepted, buffer[0][1]) ELSE accepted
          /\ UNCHANGED <<sent, dispatched, cutIn, desynced>>

\* Nothing reads U_TOG_OK and USB_RX_LEN after the interrupt of their transfer: here
\* they end with it.
HID_EP2_OUT == /\ token = "OUT"
               /\ token' = "none"
               /\ \/ TogOK /\ TakeIn
                  \/ ~TogOK /\ UNCHANGED <<shared, history>>
               /\ togOK' = FALSE /\ rxLen' = 0
               /\ UNCHANGED <<mainVars, rTog, buffer, busReset, hostVars>>

\* CLEAR_FEATURE and SET_FEATURE(ENDPOINT_HALT) on the OUT endpoint.
USB_EP0_SETUP == /\ token \in {"CLEAR", "SET"}
                 /\ token' = "none"
                 /\ rTog' = 0
                 /\ rRes' = IF token = "CLEAR" THEN "ACK" ELSE "STALL"
                 /\ UNCHANGED <<mainVars, count, point, buffer, togOK, rxLen, busReset>>
                 /\ UNCHANGED <<hostVars, history>>

\* The main program has not finished with the packet before.
Reading == pc \notin {"poll", "check"} \/ count # 0

\* The buffer is overwritten while the main program reads it.
Overwrites == cutIn' = (cutIn \/ Reading)

\* At the end of a descriptor USB_EP0_copyDescr(0) copies 256 bytes, over EP2_buffer
\* too (usb_handler.h:28).
USB_EP0_copyDescr == /\ token = "DESCR"
                     /\ token' = "none"
                     /\ buffer' = [i \in DOMAIN buffer |-> NoByte]
                     /\ Overwrites
                     /\ UNCHANGED <<mainVars, shared, rTog, togOK, rxLen, busReset, hostVars>>
                     /\ UNCHANGED <<sent, accepted, dispatched, desynced>>

\* Mutant: the reset leaves the expected toggle.
TogAfterResetKept == rTog
TogAfterReset     == 0

\* The count and the pointer are not touched: a packet not yet read stays.
HID_reset == /\ busReset /\ token = "none"
             /\ busReset' = FALSE
             /\ rTog' = TogAfterReset
             /\ rRes' = "ACK"
             /\ UNCHANGED <<mainVars, count, point, buffer, token, togOK, rxLen>>
             /\ UNCHANGED <<hostVars, history>>

USB_interrupt == HID_EP2_OUT \/ USB_EP0_SETUP \/ USB_EP0_copyDescr \/ HID_reset

-----------------------------------------------------------------------------
(* The host and the serial interface engine.                               *)

Quiet == token = "none" /\ ~busReset

HostStart(n) == /\ configured /\ hLen = NoPacket /\ id \in Ids
                /\ hLen' = n
                /\ UNCHANGED <<mainVars, shared, sieVars, configured, hTog, id, history>>

\* The host is done with its packet: the next one takes the other toggle.
HostDone == /\ hLen' = NoPacket
            /\ id' = id + 1
            /\ hTog' = 1 - hTog
            /\ sent' = IF hLen = Size THEN sent \cup {id} ELSE sent

\* An OUT transaction the endpoint acknowledges: the bytes are in the buffer
\* before the interrupt, and the toggle flips only if it was the expected one.
\* A host that misses the handshake repeats the packet.
OutTransaction(lost) ==
  /\ configured /\ Quiet /\ hLen # NoPacket /\ rRes = "ACK"
  /\ buffer' = [i \in DOMAIN buffer |-> IF i < hLen THEN Byte(id, i) ELSE buffer[i]]
  /\ token' = "OUT" /\ rxLen' = hLen
  /\ togOK' = (hTog = rTog)
  /\ rTog' = IF hTog = rTog THEN 1 - rTog ELSE rTog
  /\ IF lost THEN UNCHANGED <<hLen, id, hTog, sent>> ELSE HostDone
  /\ IF hTog = rTog THEN Overwrites ELSE UNCHANGED cutIn
  /\ UNCHANGED <<mainVars, shared, busReset, configured, accepted, dispatched, desynced>>

\* The host gives up the packet under way.
Abandon == /\ hLen' = NoPacket
           /\ id' = IF hLen = NoPacket THEN id ELSE id + 1

\* The host starts again from DATA0 when it clears a halt, not when it sets one; the
\* firmware does on both.
HostHalt(req) == /\ configured /\ Quiet
                 /\ token' = req
                 /\ Abandon
                 /\ hTog' = IF req = "CLEAR" THEN 0 ELSE hTog
                 /\ UNCHANGED <<mainVars, shared, rTog, buffer, togOK, rxLen, busReset>>
                 /\ UNCHANGED <<configured, history>>

\* The last IN transaction of a descriptor read.
HostDescriptor == /\ Descriptors /\ Quiet
                  /\ token' = "DESCR"
                  /\ UNCHANGED <<mainVars, shared, rTog, buffer, togOK, rxLen, busReset>>
                  /\ UNCHANGED <<hostVars, history>>

BusReset == /\ Resets /\ ~busReset
            /\ busReset' = TRUE
            /\ configured' = FALSE
            /\ Abandon
            /\ UNCHANGED <<mainVars, shared, rTog, buffer, token, togOK, rxLen, hTog, history>>

\* The first SET_CONFIGURATION after a reset, or, where Reconfigs, another one:
\* the host expects DATA0 from then on, and the firmware stores the number only.
SetConfiguration == /\ Quiet
                    /\ configured => Reconfigs
                    /\ configured' = TRUE
                    /\ Abandon
                    /\ hTog' = 0
                    /\ desynced' = (desynced \/ (configured /\ rTog # 0))
                    /\ UNCHANGED <<mainVars, shared, sieVars, sent, accepted, dispatched, cutIn>>

Next == \/ Poll \/ LoopNext \/ LoopDone
        \/ ReadNothing \/ ReadTest \/ ReadFetch
        \/ LoadPoint \/ StorePoint \/ LoadCount \/ StoreCount
        \/ ReadMore \/ ReadLast \/ ReadAccept
        \/ AckCount \/ AckPoint \/ Ack \/ Dispatch
        \/ HID_EP2_OUT \/ USB_EP0_SETUP \/ USB_EP0_copyDescr \/ HID_reset
        \/ \E n \in Lengths : HostStart(n)
        \/ OutTransaction(FALSE)
        \/ Losses /\ OutTransaction(TRUE)
        \/ \E req \in Halts : HostHalt(req)
        \/ HostDescriptor
        \/ BusReset
        \/ SetConfiguration

Spec == Init /\ [][Next]_vars

\* The main loop comes back to CONTROL_handleUSB and interrupts are served.
FairSpec == Spec /\ WF_vars(Main) /\ WF_vars(USB_interrupt)

-----------------------------------------------------------------------------
MainType   == /\ pc \in {"poll", "loop", "test", "fetch", "loadPoint", "storePoint",
                         "loadCount", "storeCount", "last", "accept", "ackCount",
                         "ackPoint", "ack", "check"}
              /\ draining \in BOOLEAN /\ packet \in Seq(Bytes) /\ Len(packet) <= Size
              /\ reg \in 0 .. Wrap - 1
SharedType == /\ count \in 0 .. Wrap - 1 /\ point \in 0 .. Wrap - 1
              /\ rRes \in {"ACK", "NAK", "STALL"}
SieType    == /\ rTog \in 0 .. 1 /\ buffer \in [0 .. Size - 1 -> Bytes]
              /\ token \in {"none", "OUT", "CLEAR", "SET", "DESCR"}
              /\ togOK \in BOOLEAN /\ rxLen \in 0 .. Size /\ busReset \in BOOLEAN
HostType   == /\ configured \in BOOLEAN /\ hTog \in 0 .. 1
              /\ id \in 1 .. MaxPackets + 1 /\ hLen \in {NoPacket} \cup 0 .. Size
PastType   == /\ sent \subseteq Ids /\ accepted \in Seq(Ids)
              /\ dispatched \in Seq(Seq(Bytes))
              /\ cutIn \in BOOLEAN /\ desynced \in BOOLEAN

TypeOK == MainType /\ SharedType /\ SieType /\ HostType /\ PastType

\* The commands carried out are the packets taken in, each whole and in the order
\* they came (CONTROL_handleUSB, device_control.c:81-90), as long as no packet
\* arrives, and no descriptor copy runs over the buffer, while one is being read.
ReaderExact == ~cutIn => /\ Len(dispatched) <= Len(accepted)
                         /\ \A n \in DOMAIN dispatched : dispatched[n] = Whole(accepted[n])

\* No packet taken in is forgotten: when the main loop finds nothing to read, every
\* one has been carried out (same exception).
Idle == pc = "poll" /\ count = 0
NothingForgotten == ~cutIn /\ Idle => Len(dispatched) = Len(accepted)

\* "Respond NAK after a packet. Let main code change response after handling."
\* (usb_hid.c:143-144): so no packet taken in is lost, without exception.
NoPacketLost == Idle => Len(dispatched) = Len(accepted)

\* A packet the host repeats because it missed the handshake is not carried out
\* twice, and the order is the host's (U_TOG_OK, usb_hid.c:137).
TakenInOnce == \A m, n \in DOMAIN accepted : m < n => accepted[m] < accepted[n]

\* What the host believes delivered was taken in, unless it repeated
\* SET_CONFIGURATION while the endpoint expected DATA1 (usb_handler.c:145-147), or the
\* main program took back a halt the host had set (usb_hid.c:92, :102).
HostBeliefTrue == token # "OUT" /\ ~desynced =>
                    \A k \in sent : \E n \in DOMAIN accepted : accepted[n] = k

\* Every packet taken in is carried out in the end, unless another cuts in
\* (CONTROL_handleUSB is called on every turn of the main loop).
TakenInIsHandled ==
  \A k \in Ids : (\E n \in DOMAIN accepted : accepted[n] = k)
                 ~> (cutIn \/ \E n \in DOMAIN dispatched : dispatched[n] = Whole(k))
=============================================================================
