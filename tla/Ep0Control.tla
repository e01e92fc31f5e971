----------------------------- MODULE Ep0Control -----------------------------
(***************************************************************************)
(* Control transfers of endpoint 0: USB_EP0_SETUP, USB_EP0_IN, USB_EP0_OUT *)
(* and the endpoint-0 part of a bus reset, against a host that may miss    *)
(* handshakes, abandon a transfer for a new one, and reset the bus.        *)
(*                                                                         *)
(* The state of a transfer lives in globals that outlive it: SetupReq,     *)
(* SetupLen (bytes left, or the address to take), pDescr.  One interrupt   *)
(* is handled at a time; while it is pending the engine answers NAK.       *)
(*                                                                         *)
(* A packet is a run of bytes [of, from, len] of a descriptor; the module  *)
(* Descriptors has the bytes.  What requests do to endpoints 1 and 2 is in *)
(* HidIn and HidOut; here they are requests without data.                  *)
(***************************************************************************)
EXTENDS Integers, Sequences

CONSTANTS Packet,     \* EP0_SIZE
          Descrs,     \* the descriptors
          DescrLen,   \* their lengths
          Asked,      \* what descriptor requests ask for
          Choice,     \* the descriptor chosen for each of them, or Unknown
          Meant,      \* the one the host means
          Lengths,    \* wLength of descriptor requests
          Addresses,  \* addresses the host assigns
          Losses,     \* whether a handshake may be lost
          Aborts,     \* whether the host may abandon a transfer
          Resets,     \* whether the host may reset the bus
          Unknown     \* no descriptor; a configuration not set

ASSUME PacketAssumption == Packet \in Nat /\ Packet > 2
ASSUME DescrAssumption  == /\ DescrLen \in [Descrs -> Nat] /\ Unknown \notin Descrs
                           /\ {Choice, Meant} \subseteq [Asked -> Descrs \cup {Unknown}]
ASSUME HostAssumption   == /\ Lengths \subseteq Nat /\ Addresses \subseteq Nat \ {0}
                           /\ {Losses, Aborts, Resets} \subseteq BOOLEAN

Request(req, of, want) == [req |-> req, of |-> of, want |-> want]

Requests ==
  {Request("GET_DESCRIPTOR", w, n) : w \in Asked, n \in Lengths}
  \cup {Request("SET_ADDRESS", a, 0) : a \in Addresses}
  \cup {Request("SET_CONFIGURATION", 1, 0), Request("GET_CONFIGURATION", Unknown, 1),
        Request("GET_STATUS", Unknown, 2), Request("NO_DATA", Unknown, 0),
        Request("CLASS", Unknown, 0)}

VARIABLES
  SetupReq, SetupLen, pDescr,     \* pDescr: descriptor and offset
  loaded, tRes, rRes, tTog,       \* EP0_buffer up to UEP0_T_LEN; UEP0_CTRL
  USB_DEV_AD, UsbConfig,
  token, setup, busReset,         \* pending interrupt, the SETUP packet
  stage, asked, hTog,             \* host: transfer under way
  received, count,                \* its packets with data and their bytes in all
  hAddr, hConfig,                 \* host: address and configuration it believes
  missed                          \* history: the end of a SET_ADDRESS got lost

progress == <<SetupReq, SetupLen, pDescr>>
ep0      == <<loaded, tRes, rRes, tTog>>
device   == <<USB_DEV_AD, UsbConfig>>
intVars  == <<token, setup, busReset>>
transfer == <<stage, asked, hTog, received, count>>
belief   == <<hAddr, hConfig, missed>>
vars     == <<progress, ep0, device, intVars, transfer, belief>>

Least(m, n) == IF m < n THEN m ELSE n

\* len bytes of descriptor d from offset on, and the answers that are no descriptor.
Empty == [of |-> Unknown, from |-> 0, len |-> 0]
Copy(d, from, len) == IF len = 0 THEN Empty ELSE [of |-> d, from |-> from, len |-> len]
ConfigByte(n)  == Copy("CONFIGURATION", n, 1)
StatusBytes(n) == Copy("STATUS", 0, n)

Init == /\ SetupReq = "NONE" /\ SetupLen = 0 /\ pDescr = <<Unknown, 0>>
        /\ loaded = Empty /\ tRes = "NAK" /\ rRes = "ACK" /\ tTog = 0
        /\ USB_DEV_AD = 0 /\ UsbConfig = 0
        /\ token = "none" /\ setup = Request("NO_DATA", Unknown, 0) /\ busReset = FALSE
        /\ stage = "idle" /\ asked = setup /\ hTog = 0 /\ received = <<>> /\ count = 0
        /\ hAddr = 0 /\ hConfig = Unknown /\ missed = FALSE

-----------------------------------------------------------------------------
(* USB_EP0_SETUP.                                                          *)

Serve(t) == token = t /\ token' = "none"

Setup(req) == /\ Serve("SETUP")
              /\ setup.req = req
              /\ UNCHANGED <<USB_DEV_AD, setup, busReset, transfer, belief>>

\* "Expect DATA1, Answer ACK" with these bytes.
Accept(bytes) == /\ loaded' = bytes
                 /\ tRes' = "ACK" /\ rRes' = "ACK"
                 /\ tTog' = 1
                 /\ SetupReq' = setup.req

Stall == /\ SetupReq' = "NONE" /\ SetupLen' = setup.want
         /\ tRes' = "STALL" /\ rRes' = "STALL" /\ tTog' = 1
         /\ UNCHANGED <<loaded, pDescr, UsbConfig>>

\* Mutant: the length asked for is not limited to the descriptor's.
TotalUnlimited(d) == setup.want

\* Bytes the data stage will transfer.
Total(d) == Least(setup.want, DescrLen[d])

GetDescriptor == /\ Setup("GET_DESCRIPTOR")
                 /\ LET d   == Choice[setup.of]
                        len == Least(Total(d), Packet)
                    IN  \/ /\ d \in Descrs
                           /\ Accept(Copy(d, 0, len))
                           /\ SetupLen' = Total(d) - len
                           /\ pDescr' = <<d, len>>
                           /\ UNCHANGED UsbConfig
                        \/ d \notin Descrs /\ Stall

\* Mutant: the address takes effect before the status stage.
AddressAtSetup == setup.of
AddressAfterSetup == USB_DEV_AD

SetAddress == /\ Serve("SETUP")
              /\ setup.req = "SET_ADDRESS"
              /\ Accept(Empty)
              /\ SetupLen' = setup.of
              /\ USB_DEV_AD' = AddressAfterSetup
              /\ UNCHANGED <<pDescr, UsbConfig, setup, busReset, transfer, belief>>

GetConfiguration == /\ Setup("GET_CONFIGURATION")
                    /\ Accept(IF setup.want >= 1 THEN ConfigByte(UsbConfig) ELSE Empty)
                    /\ SetupLen' = setup.want
                    /\ UNCHANGED <<pDescr, UsbConfig>>

SetConfiguration == /\ Setup("SET_CONFIGURATION")
                    /\ Accept(Empty)
                    /\ SetupLen' = setup.want
                    /\ UsbConfig' = setup.of
                    /\ UNCHANGED pDescr

GetStatus == /\ Setup("GET_STATUS")
             /\ Accept(StatusBytes(Least(setup.want, 2)))
             /\ SetupLen' = setup.want
             /\ UNCHANGED <<pDescr, UsbConfig>>

\* GET_INTERFACE, SET_INTERFACE and the endpoint features: success, no data.
NoData == /\ Setup("NO_DATA")
          /\ Accept(Empty)
          /\ SetupLen' = setup.want
          /\ UNCHANGED <<pDescr, UsbConfig>>

\* Class and vendor requests, and standard ones the switch does not name.
Unsupported == Setup("CLASS") /\ Stall

USB_EP0_SETUP == \/ GetDescriptor \/ SetAddress \/ GetConfiguration \/ SetConfiguration
                 \/ GetStatus \/ NoData \/ Unsupported

-----------------------------------------------------------------------------
(* USB_EP0_IN, USB_EP0_OUT, bus reset.                                     *)

\* Mutants: the toggle stays, or is counted up.
NextToggleMissing   == tTog
NextToggleAdded     == tTog + 1

Advance(len) == <<pDescr[1], pDescr[2] + len>>
NextToggle   == 1 - tTog

\* The next packet of a descriptor; when none is left, an empty one.
NextPacket == /\ SetupReq = "GET_DESCRIPTOR"
              /\ LET len == Least(SetupLen, Packet)
                 IN  /\ loaded' = Copy(pDescr[1], pDescr[2], len)
                     /\ SetupLen' = SetupLen - len
                     /\ pDescr' = Advance(len)
              /\ tTog' = NextToggle
              /\ UNCHANGED <<SetupReq, tRes, rRes, device>>

NakIn == /\ rRes' = "ACK" /\ tRes' = "NAK" /\ tTog' = 0
         /\ UNCHANGED <<progress, UsbConfig>>

TakeAddress == /\ SetupReq = "SET_ADDRESS"
               /\ USB_DEV_AD' = SetupLen
               /\ NakIn
               /\ UNCHANGED loaded

EndIn == /\ SetupReq \notin {"GET_DESCRIPTOR", "SET_ADDRESS"}
         /\ loaded' = Empty
         /\ NakIn
         /\ UNCHANGED USB_DEV_AD

USB_EP0_IN == /\ Serve("IN")
              /\ NextPacket \/ TakeAddress \/ EndIn
              /\ UNCHANGED <<setup, busReset, transfer, belief>>

\* The response bits are or-ed in: a stalled endpoint stays stalled.
USB_EP0_OUT == /\ Serve("OUT")
               /\ loaded' = Empty
               /\ tRes' = IF tRes = "STALL" THEN "STALL" ELSE "NAK"
               /\ UNCHANGED <<progress, rRes, tTog, device, setup, busReset>>
               /\ UNCHANGED <<transfer, belief>>

\* A transfer pending with the reset is handled before it; the globals stay.
ResetEp0 == /\ busReset /\ token = "none"
            /\ busReset' = FALSE
            /\ rRes' = "ACK" /\ tRes' = "NAK" /\ tTog' = 0
            /\ USB_DEV_AD' = 0
            /\ UNCHANGED <<progress, loaded, UsbConfig, token, setup, transfer, belief>>

USB_interrupt == USB_EP0_SETUP \/ USB_EP0_IN \/ USB_EP0_OUT \/ ResetEp0

-----------------------------------------------------------------------------
(* The host and the serial interface engine.                               *)

Quiet   == token = "none" /\ ~busReset
Reaches == Quiet /\ hAddr = USB_DEV_AD

hostOnly == <<progress, ep0, device, busReset>>

\* A SETUP transaction is accepted in any state of the endpoint.
HostSetup(r) == /\ Reaches
                /\ stage = "idle" \/ Aborts
                /\ token' = "SETUP" /\ setup' = r
                /\ asked' = r /\ received' = <<>> /\ count' = 0 /\ hTog' = 1
                /\ stage' = IF r.want > 0 THEN "data" ELSE "statusIn"
                /\ hConfig' = IF r.req = "SET_CONFIGURATION" THEN Unknown ELSE hConfig
                /\ UNCHANGED <<hostOnly, hAddr, missed>>

\* An IN transaction: a packet with the toggle of the last one is a repetition.
\* When the handshake is lost the device is not told.
HostIn(lost) ==
  /\ Reaches /\ stage = "data" /\ tRes = "ACK"
  /\ token' = IF lost THEN "none" ELSE "IN"
  /\ \/ /\ tTog = hTog
        /\ hTog' = 1 - hTog
        /\ received' = IF loaded = Empty THEN received ELSE Append(received, loaded)
        /\ count' = count + loaded.len
        /\ stage' = IF loaded.len < Packet \/ count' >= asked.want THEN "statusOut" ELSE "data"
     \/ tTog # hTog /\ UNCHANGED <<hTog, received, count, stage>>
  /\ UNCHANGED <<hostOnly, setup, asked, belief>>

HostStatusOut(lost) == /\ Reaches /\ stage = "statusOut" /\ rRes = "ACK"
                       /\ token' = "OUT"
                       /\ stage' = IF lost THEN stage ELSE "idle"
                       /\ UNCHANGED <<hostOnly, setup, asked, hTog, received, count, belief>>

HostStatusIn(lost) ==
  /\ Reaches /\ stage = "statusIn" /\ tRes = "ACK"
  /\ loaded = Empty /\ tTog = hTog
  /\ token' = IF lost THEN "none" ELSE "IN"
  /\ stage' = "idle"
  /\ hAddr' = IF asked.req = "SET_ADDRESS" THEN asked.of ELSE hAddr
  /\ hConfig' = IF asked.req = "SET_CONFIGURATION" THEN asked.of ELSE hConfig
  /\ missed' = (missed \/ (lost /\ asked.req = "SET_ADDRESS"))
  /\ UNCHANGED <<hostOnly, setup, asked, hTog, received, count>>

HostStalled == /\ Reaches
               /\ \/ stage \in {"data", "statusIn"} /\ tRes = "STALL"
                  \/ stage = "statusOut" /\ rRes = "STALL"
               /\ stage' = "idle"
               /\ UNCHANGED <<hostOnly, token, setup, asked, hTog, received, count, belief>>

BusReset == /\ Resets /\ ~busReset
            /\ busReset' = TRUE
            /\ stage' = "idle" /\ hAddr' = 0 /\ hConfig' = Unknown /\ missed' = FALSE
            /\ UNCHANGED <<progress, ep0, device, token, setup, asked, hTog, received, count>>

HostProgress == HostIn(FALSE) \/ HostStatusOut(FALSE) \/ HostStatusIn(FALSE) \/ HostStalled

Next == \/ GetDescriptor \/ SetAddress \/ GetConfiguration \/ SetConfiguration
        \/ GetStatus \/ NoData \/ Unsupported
        \/ USB_EP0_IN \/ USB_EP0_OUT \/ ResetEp0
        \/ \E r \in Requests : HostSetup(r)
        \/ HostIn(FALSE) \/ HostStatusOut(FALSE) \/ HostStatusIn(FALSE)
        \/ Losses /\ (HostIn(TRUE) \/ HostStatusOut(TRUE) \/ HostStatusIn(TRUE))
        \/ HostStalled
        \/ BusReset

Spec == Init /\ [][Next]_vars

\* Interrupts are served, and the host goes on with a transfer it has begun; not
\* every handshake is lost.
FairSpec == Spec /\ WF_vars(USB_interrupt) /\ SF_vars(HostProgress)

-----------------------------------------------------------------------------
Run == [of : Descrs \cup {"STATUS", "CONFIGURATION", Unknown}, from : Nat, len : 0 .. Packet]

ProgressType == /\ SetupReq \in {r.req : r \in Requests} \cup {"NONE"}
                /\ SetupLen \in Nat /\ pDescr \in (Descrs \cup {Unknown}) \X Nat
Ep0Type      == /\ loaded \in Run /\ tRes \in {"ACK", "NAK", "STALL"}
                /\ rRes \in {"ACK", "NAK", "STALL"} /\ tTog \in 0 .. 1
DeviceType   == USB_DEV_AD \in Addresses \cup {0} /\ UsbConfig \in 0 .. 1
IntType      == /\ token \in {"none", "SETUP", "IN", "OUT"} /\ setup \in Requests
                /\ busReset \in BOOLEAN
TransferType == /\ stage \in {"idle", "data", "statusIn", "statusOut"} /\ asked \in Requests
                /\ hTog \in 0 .. 1 /\ received \in Seq(Run) /\ count \in Nat
BeliefType   == /\ hAddr \in Addresses \cup {0} /\ hConfig \in {Unknown, 0, 1}
                /\ missed \in BOOLEAN

TypeOK == ProgressType /\ Ep0Type /\ DeviceType /\ IntType /\ TransferType /\ BeliefType

\* What the host asked for in the transfer under way: whose bytes, from where, how many.
Expected == CASE asked.req = "GET_DESCRIPTOR" ->
                   Copy(Meant[asked.of], 0, DescrLen[Meant[asked.of]])
              [] asked.req = "GET_STATUS" -> StatusBytes(2)
              [] asked.req = "GET_CONFIGURATION" -> ConfigByte(hConfig)

Known == \/ asked.req = "GET_DESCRIPTOR" /\ Meant[asked.of] # Unknown
         \/ asked.req = "GET_STATUS"
         \/ asked.req = "GET_CONFIGURATION" /\ hConfig # Unknown

\* The data stage delivers the bytes of the request in order, none twice, none
\* skipped and none of an earlier transfer or another descriptor, whatever is lost or
\* abandoned, and when the host takes it for finished it has all it asked for of what
\* there is (usb_handler.c:61-134, 308-315).
DataExact == stage # "idle" /\ Known =>
  /\ \A n \in DOMAIN received :
       /\ received[n].of = Expected.of
       /\ received[n].from = IF n = 1 THEN Expected.from
                                      ELSE received[n - 1].from + received[n - 1].len
  /\ count <= Expected.len
  /\ stage = "statusOut" => count = Least(asked.want, Expected.len)

\* Host and device agree on the address at every point where a token may be sent:
\* the new one is taken after the status stage, not before (usb_handler.c:136-138,
\* 317-320), unless the handshake that ends it was lost.
AddressAgrees == Quiet /\ ~missed => hAddr = USB_DEV_AD

\* Every control transfer ends: with its status stage, a stall, or a bus reset, unless
\* the host itself abandons it for another (usb_handler.c:290-332).
ControlEnds == stage # "idle" /\ token # "SETUP" ~> stage = "idle" \/ token = "SETUP"
=============================================================================
