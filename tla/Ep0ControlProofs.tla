-------------------------- MODULE Ep0ControlProofs --------------------------
(***************************************************************************)
(* Proofs about Ep0Control, for every packet size, every set of            *)
(* descriptors and requests and every host: type correctness, agreement on *)
(* the address, and, when the firmware chooses the descriptor the host     *)
(* means, exact data stages.  And about Enumeration: with the descriptors  *)
(* of the device that is what it chooses, and a driver agrees with it.     *)
(***************************************************************************)
EXTENDS Enumeration, SequenceTheorems, TLAPS

\* The request a SETUP interrupt handles is the one the host waits for; a reset the
\* device has not handled yet has ended every transfer.
LinkInv == /\ setup = asked
           /\ busReset => stage = "idle" /\ hAddr = 0 /\ ~missed

\* An address waits in SetupLen; while the end of its transfer is pending, and only
\* then, the host is ahead.
AddressInv == /\ SetupReq = "SET_ADDRESS" => SetupLen \in Addresses
              /\ ~busReset /\ ~missed =>
                   hAddr = IF token = "IN" /\ SetupReq = "SET_ADDRESS" THEN SetupLen
                                                                       ELSE USB_DEV_AD

ConfigInv == /\ hConfig # Unknown => hConfig = UsbConfig
             /\ token = "SETUP" /\ setup.req = "SET_CONFIGURATION" => hConfig = Unknown

\* At the status stage of a request without data, the device has served it.
StatusInv == stage = "statusIn" =>
  /\ token \in {"none", "SETUP"}
  /\ token = "none" /\ tRes = "ACK" =>
       /\ SetupReq = asked.req
       /\ asked.req = "SET_ADDRESS" => SetupLen = asked.of
       /\ asked.req = "SET_CONFIGURATION" => UsbConfig = asked.of

\* The descriptor chosen for the request under way and the bytes there are to send.
Chosen == Choice[asked.of]
All    == Least(asked.want, DescrLen[Chosen])

\* A descriptor in transfer: the packet in the buffer ends at the offset, and the host
\* has all the bytes before it, or before its end.
DescrInv ==
  /\ Chosen \in Descrs /\ pDescr[1] = Chosen
  /\ SetupLen + pDescr[2] = All
  /\ loaded.len <= pDescr[2] /\ loaded = Copy(Chosen, pDescr[2] - loaded.len, loaded.len)
  /\ loaded.len = Packet \/ pDescr[2] = All
  /\ tTog = hTog => token = "none" /\ count + loaded.len = pDescr[2]
  /\ tTog # hTog => count = pDescr[2] /\ loaded.len = Packet /\ count < asked.want

\* The one packet of the other requests with data.
Answer == IF asked.req = "GET_STATUS" THEN StatusBytes(2) ELSE ConfigByte(UsbConfig)

AnswerInv == /\ token = "none" /\ tTog = hTog /\ count = 0
             /\ loaded = Answer

DataInv == stage = "data" =>
  /\ asked.want > 0
  /\ token \in {"none", "SETUP", "IN"}
  /\ token = "SETUP" => count = 0 /\ hTog = 1
  /\ token # "SETUP" /\ tRes = "ACK" =>
       /\ SetupReq = asked.req
       /\ IF asked.req = "GET_DESCRIPTOR" THEN DescrInv ELSE AnswerInv
  /\ token # "SETUP" => tRes = "ACK" \/ (tRes = "STALL" /\ count = 0)
  /\ token = "IN" => tRes = "ACK"

\* What the host has, packet after packet.
Chain(from) ==
  /\ \A n \in DOMAIN received :
       received[n].from = IF n = 1 THEN from ELSE received[n - 1].from + received[n - 1].len
  /\ received # <<>> => received[Len(received)].from + received[Len(received)].len = from + count

ReceivedInv ==
  /\ received = <<>> => count = 0
  /\ count = 0 => received = <<>>
  /\ stage # "idle" /\ asked.req = "GET_DESCRIPTOR" =>
       Chain(0) /\ \A n \in DOMAIN received : received[n].of = Chosen

\* What it has at the end.
EndInv == stage = "statusOut" =>
  /\ token # "SETUP"
  /\ asked.want > 0
  /\ asked.req = "GET_DESCRIPTOR" => Chosen \in Descrs /\ count = All
  /\ asked.req # "GET_DESCRIPTOR" => received = <<Answer>> /\ count = Answer.len

Early == stage = "statusIn" => received = <<>> /\ count = 0

IInv == /\ TypeOK
        /\ LinkInv /\ AddressInv /\ ConfigInv /\ StatusInv
        /\ DataInv /\ ReceivedInv /\ EndInv /\ Early

-----------------------------------------------------------------------------
(* Requests and packets.                                                   *)

\* What the host may ask for.
LEMMA RequestFacts ==
  ASSUME NEW r \in Requests
  PROVE  /\ r.req \in {"GET_DESCRIPTOR", "SET_ADDRESS", "SET_CONFIGURATION",
                       "GET_CONFIGURATION", "GET_STATUS", "NO_DATA", "CLASS"}
         /\ r.want \in Nat
         /\ r.req = "GET_DESCRIPTOR" => r.of \in Asked
         /\ r.req = "SET_ADDRESS" => r.of \in Addresses /\ r.want = 0
         /\ r.req = "SET_CONFIGURATION" => r.of = 1 /\ r.want = 0
         /\ r.req = "GET_CONFIGURATION" => r.want = 1
         /\ r.req = "GET_STATUS" => r.want = 2
         /\ r.req \in {"NO_DATA", "CLASS"} => r.want = 0
<1>1. CASE \E w \in Asked, n \in Lengths : r = Request("GET_DESCRIPTOR", w, n)
  BY <1>1, HostAssumption DEF Request
<1>2. CASE \E a \in Addresses : r = Request("SET_ADDRESS", a, 0)
  BY <1>2 DEF Request
<1>3. CASE r \in {Request("SET_CONFIGURATION", 1, 0), Request("GET_CONFIGURATION", Unknown, 1),
                  Request("GET_STATUS", Unknown, 2), Request("NO_DATA", Unknown, 0),
                  Request("CLASS", Unknown, 0)}
  BY <1>3 DEF Request
<1> QED
  BY <1>1, <1>2, <1>3 DEF Requests

\* A part of a descriptor that fits into a packet.
LEMMA CopyType ==
  ASSUME NEW d \in Descrs \cup {"STATUS", "CONFIGURATION", Unknown},
         NEW from \in Nat, NEW n \in 0 .. Packet
  PROVE  Copy(d, from, n) \in Run /\ Copy(d, from, n).len = n
         /\ (Copy(d, from, n) = Empty <=> n = 0)
         /\ (n # 0 => Copy(d, from, n).of = d /\ Copy(d, from, n).from = from)
BY PacketAssumption DEF Copy, Empty, Run

\* The smaller of two.
LEMMA LeastFacts ==
  ASSUME NEW m \in Nat, NEW n \in Nat
  PROVE  /\ Least(m, n) \in Nat /\ Least(m, n) <= m /\ Least(m, n) <= n
         /\ Least(m, n) = m \/ Least(m, n) = n
BY DEF Least

\* The answers that are no descriptor.
LEMMA AnswerType ==
  /\ Empty \in Run
  /\ \A n \in 0 .. 1 : ConfigByte(n) \in Run /\ ConfigByte(n).len = 1
  /\ \A n \in 0 .. 2 : StatusBytes(n) \in Run /\ StatusBytes(n).len = n
<1>1. Empty \in Run
  BY PacketAssumption DEF Empty, Run
<1>2. ASSUME NEW n \in 0 .. 1 PROVE ConfigByte(n) \in Run /\ ConfigByte(n).len = 1
  BY PacketAssumption, CopyType DEF ConfigByte
<1>3. ASSUME NEW n \in 0 .. 2 PROVE StatusBytes(n) \in Run /\ StatusBytes(n).len = n
  BY PacketAssumption, CopyType DEF StatusBytes
<1> QED
  BY <1>1, <1>2, <1>3

\* What an untouched group of variables keeps.
LEMMA Frames ==
  /\ UNCHANGED progress /\ ProgressType => ProgressType'
  /\ UNCHANGED ep0 /\ Ep0Type => Ep0Type'
  /\ UNCHANGED device /\ DeviceType => DeviceType'
  /\ UNCHANGED intVars /\ IntType => IntType'
  /\ UNCHANGED transfer /\ TransferType => TransferType'
  /\ UNCHANGED belief /\ BeliefType => BeliefType'
BY DEF progress, ProgressType, ep0, Ep0Type, device, DeviceType, intVars, IntType,
       transfer, TransferType, belief, BeliefType

\* Initially.
LEMMA InitInv == Init => IInv
<1> SUFFICES ASSUME Init PROVE IInv
  OBVIOUS
<1>1. Request("NO_DATA", Unknown, 0) \in Requests
  BY DEF Requests
<1>2. TypeOK
  <2>1. ProgressType /\ DeviceType
    BY DEF Init, ProgressType, DeviceType
  <2>2. Ep0Type
    BY AnswerType DEF Init, Ep0Type
  <2>3. IntType /\ BeliefType
    BY <1>1 DEF Init, IntType, BeliefType
  <2>4. TransferType
    BY <1>1 DEF Init, TransferType
  <2> QED
    BY <2>1, <2>2, <2>3, <2>4 DEF TypeOK
<1>3. LinkInv /\ AddressInv /\ ConfigInv
  BY DEF Init, LinkInv, AddressInv, ConfigInv
<1>4. StatusInv /\ DataInv /\ ReceivedInv /\ EndInv /\ Early
  BY DEF Init, StatusInv, DataInv, ReceivedInv, EndInv, Early
<1> QED
  BY <1>2, <1>3, <1>4 DEF IInv

-----------------------------------------------------------------------------
(* Types.                                                                  *)

\* A SETUP interrupt keeps the types.
LEMMA SetupType == TypeOK /\ USB_EP0_SETUP => TypeOK'
<1> SUFFICES ASSUME TypeOK, USB_EP0_SETUP PROVE TypeOK'
  OBVIOUS
<1> USE RequestFacts, PacketAssumption, DescrAssumption
<1>0. setup \in Requests /\ SetupLen \in Nat /\ loaded \in Run
      /\ pDescr \in (Descrs \cup {Unknown}) \X Nat /\ UsbConfig \in 0 .. 1
  BY DEF TypeOK, IntType, ProgressType, Ep0Type, DeviceType
<1>1. ASSUME NEW bytes \in Run, Accept(bytes)
      PROVE  Ep0Type' /\ SetupReq' \in {r.req : r \in Requests} \cup {"NONE"}
  BY <1>0, <1>1 DEF Accept, Ep0Type
<1>2. Stall => Ep0Type' /\ ProgressType' /\ UNCHANGED UsbConfig
  BY <1>0 DEF Stall, Ep0Type, ProgressType
<1>3. IntType' /\ TransferType' /\ BeliefType'
  BY Frames DEF TypeOK, USB_EP0_SETUP, GetDescriptor, SetAddress, GetConfiguration,
     SetConfiguration, GetStatus, NoData, Unsupported, Setup, Serve, IntType
<1>4. CASE GetDescriptor
  <2> DEFINE c   == Choice[setup.of]
             len == Least(Total(c), Packet)
  <2>1. ASSUME c \in Descrs, Accept(Copy(c, 0, len)), SetupLen' = Total(c) - len,
               pDescr' = <<c, len>>, UNCHANGED UsbConfig
        PROVE  Ep0Type' /\ ProgressType'
    <3>1. Total(c) \in Nat /\ len \in 0 .. Packet /\ len <= Total(c)
      <4>1. DescrLen[c] \in Nat /\ setup.want \in Nat /\ Packet \in Nat
        BY <1>0, <2>1
      <4>2. Total(c) \in Nat
        BY <4>1 DEF Total, Least
      <4> QED
        BY <4>1, <4>2 DEF Least
    <3>2. Copy(c, 0, len) \in Run
      BY <2>1, <3>1, CopyType
    <3>3. Ep0Type' /\ SetupReq' \in {r.req : r \in Requests} \cup {"NONE"}
      BY <1>1, <2>1, <3>2
    <3> HIDE DEF len
    <3> QED
      BY <2>1, <3>1, <3>3 DEF ProgressType
  <2>2. Ep0Type' /\ ProgressType' /\ UNCHANGED <<USB_DEV_AD, UsbConfig>>
    BY <1>2, <1>4, <2>1 DEF GetDescriptor, Setup
  <2> QED
    BY <1>3, <2>2 DEF TypeOK, DeviceType
<1>5. CASE SetAddress
  <2>1. setup.of \in Addresses /\ setup.of \in Nat
    BY <1>0, <1>5, HostAssumption DEF SetAddress
  <2>2. Ep0Type' /\ ProgressType'
    BY <1>0, <1>1, <1>5, <2>1, AnswerType DEF SetAddress, ProgressType
  <2> QED
    BY <1>3, <1>5, <2>2 DEF TypeOK, DeviceType, SetAddress, AddressAfterSetup
<1>6. CASE GetConfiguration
  <2>1. (IF setup.want >= 1 THEN ConfigByte(UsbConfig) ELSE Empty) \in Run
    BY <1>0, AnswerType
  <2>2. Ep0Type' /\ ProgressType'
    BY <1>0, <1>1, <1>6, <2>1 DEF GetConfiguration, ProgressType
  <2> QED
    BY <1>3, <1>6, <2>2 DEF TypeOK, DeviceType, GetConfiguration, Setup
<1>7. CASE SetConfiguration
  <2>1. Ep0Type' /\ ProgressType'
    BY <1>0, <1>1, <1>7, AnswerType DEF SetConfiguration, ProgressType
  <2>2. UsbConfig' \in 0 .. 1
    BY <1>0, <1>7 DEF SetConfiguration, Setup
  <2> QED
    BY <1>3, <1>7, <2>1, <2>2 DEF TypeOK, DeviceType, SetConfiguration, Setup
<1>8. CASE GetStatus
  <2>1. Least(setup.want, 2) \in 0 .. 2
    BY <1>0, LeastFacts
  <2>2. Ep0Type' /\ ProgressType'
    BY <1>0, <1>1, <1>8, <2>1, AnswerType DEF GetStatus, ProgressType
  <2> QED
    BY <1>3, <1>8, <2>2 DEF TypeOK, DeviceType, GetStatus, Setup
<1>9. CASE NoData
  <2>1. Ep0Type' /\ ProgressType'
    BY <1>0, <1>1, <1>9, AnswerType DEF NoData, ProgressType
  <2> QED
    BY <1>3, <1>9, <2>1 DEF TypeOK, DeviceType, NoData, Setup
<1>10. CASE Unsupported
  BY <1>2, <1>3, <1>10 DEF TypeOK, DeviceType, Unsupported, Setup
<1> QED
  BY <1>4, <1>5, <1>6, <1>7, <1>8, <1>9, <1>10 DEF USB_EP0_SETUP

\* The other interrupts do.
LEMMA InterruptType == TypeOK /\ AddressInv /\ (USB_EP0_IN \/ USB_EP0_OUT \/ ResetEp0) => TypeOK'
<1> SUFFICES ASSUME TypeOK, AddressInv, USB_EP0_IN \/ USB_EP0_OUT \/ ResetEp0 PROVE TypeOK'
  OBVIOUS
<1>0. setup \in Requests /\ SetupLen \in Nat /\ loaded \in Run
      /\ pDescr \in (Descrs \cup {Unknown}) \X Nat /\ UsbConfig \in 0 .. 1 /\ tTog \in 0 .. 1
  BY DEF TypeOK, IntType, ProgressType, Ep0Type, DeviceType
<1>1. IntType' /\ TransferType' /\ BeliefType'
  BY Frames DEF TypeOK, USB_EP0_IN, USB_EP0_OUT, ResetEp0, Serve, IntType
<1>2. CASE USB_EP0_IN
  <2>1. CASE NextPacket
    <3> DEFINE len == Least(SetupLen, Packet)
    <3>1. len \in 0 .. Packet /\ len <= SetupLen
      <4>1. SetupLen \in Nat /\ Packet \in Nat
        BY <1>0, PacketAssumption
      <4> QED
        BY <4>1 DEF Least
    <3> HIDE DEF len
    <3>2. /\ loaded' = Copy(pDescr[1], pDescr[2], len) /\ SetupLen' = SetupLen - len
          /\ pDescr' = <<pDescr[1], pDescr[2] + len>> /\ tTog' = 1 - tTog
          /\ UNCHANGED <<SetupReq, tRes, rRes, device>>
      BY <2>1 DEF NextPacket, Advance, NextToggle, len
    <3>3. loaded' \in Run
      BY <1>0, <3>1, <3>2, CopyType
    <3>4. ProgressType' /\ Ep0Type'
      BY <1>0, <3>1, <3>2, <3>3 DEF TypeOK, ProgressType, Ep0Type
    <3> QED
      BY <1>1, <3>2, <3>4, Frames DEF TypeOK
  <2>2. CASE TakeAddress
    BY <1>1, <2>2, Frames DEF TypeOK, TakeAddress, NakIn, AddressInv, DeviceType, Ep0Type
  <2>3. CASE EndIn
    BY <1>1, <2>3, Frames, AnswerType DEF TypeOK, EndIn, NakIn, DeviceType, Ep0Type
  <2> QED
    BY <1>2, <2>1, <2>2, <2>3 DEF USB_EP0_IN
<1>3. CASE USB_EP0_OUT
  BY <1>1, <1>3, Frames, AnswerType DEF TypeOK, USB_EP0_OUT, Ep0Type
<1>4. CASE ResetEp0
  BY <1>1, <1>4, Frames DEF TypeOK, ResetEp0, Ep0Type, DeviceType
<1> QED
  BY <1>2, <1>3, <1>4

\* What the host does keeps the types.
LEMMA HostType ==
  /\ TypeOK
  /\ \/ \E r \in Requests : HostSetup(r)
     \/ \E lost \in BOOLEAN : HostIn(lost) \/ HostStatusOut(lost) \/ HostStatusIn(lost)
     \/ HostStalled \/ BusReset
  => TypeOK'
<1> SUFFICES ASSUME TypeOK,
                    \/ \E r \in Requests : HostSetup(r)
                    \/ \E lost \in BOOLEAN : HostIn(lost) \/ HostStatusOut(lost) \/ HostStatusIn(lost)
                    \/ HostStalled \/ BusReset
             PROVE  TypeOK'
  OBVIOUS
<1>0. /\ asked \in Requests /\ loaded \in Run /\ received \in Seq(Run) /\ count \in Nat
      /\ hTog \in 0 .. 1 /\ tTog \in 0 .. 1 /\ loaded.len \in Nat
  BY DEF TypeOK, TransferType, Ep0Type, Run
<1>1. ProgressType' /\ Ep0Type' /\ DeviceType'
  BY Frames DEF TypeOK, HostSetup, HostIn, HostStatusOut, HostStatusIn, HostStalled, BusReset,
     hostOnly
<1>2. ASSUME NEW r \in Requests, HostSetup(r) PROVE IntType' /\ TransferType' /\ BeliefType'
  <2>1. IntType'
    BY <1>2 DEF TypeOK, HostSetup, hostOnly, IntType
  <2>2. TransferType'
    BY <1>2 DEF TypeOK, HostSetup, TransferType
  <2>3. BeliefType'
    BY <1>2 DEF TypeOK, HostSetup, BeliefType
  <2> QED
    BY <2>1, <2>2, <2>3
<1>3. ASSUME NEW lost \in BOOLEAN, HostIn(lost) PROVE IntType' /\ TransferType' /\ BeliefType'
  <2>1. IntType' /\ BeliefType'
    BY <1>3, Frames DEF TypeOK, HostIn, hostOnly, IntType
  <2>2. TransferType'
    <3>1. Append(received, loaded) \in Seq(Run)
      BY <1>0
    <3> QED
      BY <1>0, <1>3, <3>1 DEF TypeOK, HostIn, TransferType
  <2> QED
    BY <2>1, <2>2
<1>4. ASSUME NEW lost \in BOOLEAN, HostStatusOut(lost)
      PROVE  IntType' /\ TransferType' /\ BeliefType'
  BY <1>4, Frames DEF TypeOK, HostStatusOut, hostOnly, IntType, TransferType
<1>5. ASSUME NEW lost \in BOOLEAN, HostStatusIn(lost)
      PROVE  IntType' /\ TransferType' /\ BeliefType'
  <2>1. IntType' /\ TransferType'
    BY <1>5 DEF TypeOK, HostStatusIn, hostOnly, IntType, TransferType
  <2>2. BeliefType'
    BY <1>0, <1>5, RequestFacts DEF TypeOK, HostStatusIn, BeliefType
  <2> QED
    BY <2>1, <2>2
<1>6. CASE HostStalled
  BY <1>1, <1>6, Frames DEF TypeOK, HostStalled, hostOnly, IntType, TransferType
<1>7. CASE BusReset
  BY <1>1, <1>7, Frames DEF TypeOK, BusReset, IntType, TransferType, BeliefType
<1> QED
  BY <1>1, <1>2, <1>3, <1>4, <1>5, <1>6, <1>7 DEF TypeOK

-----------------------------------------------------------------------------
(* The interrupts and what the host believes.                              *)

\* A SETUP interrupt touches nothing of the host's.
LEMMA SetupFrame ==
  ASSUME IInv, USB_EP0_SETUP
  PROVE  /\ token = "SETUP" /\ token' = "none" /\ stage # "statusOut"
         /\ UNCHANGED <<setup, busReset, transfer, belief>>
         /\ LinkInv' /\ ReceivedInv' /\ EndInv' /\ Early'
<1>1. /\ token = "SETUP" /\ token' = "none" /\ UNCHANGED <<setup, busReset, transfer, belief>>
  BY DEF USB_EP0_SETUP, GetDescriptor, SetAddress, GetConfiguration, SetConfiguration,
         GetStatus, NoData, Unsupported, Setup, Serve
<1>2. stage # "statusOut"
  BY <1>1 DEF IInv, EndInv
<1>3. LinkInv' /\ EndInv' /\ Early'
  BY <1>1, <1>2 DEF IInv, LinkInv, EndInv, Early, transfer, belief
<1>4. ReceivedInv'
  BY <1>1 DEF IInv, ReceivedInv, Chain, Chosen, transfer
<1> QED
  BY <1>1, <1>2, <1>3, <1>4

\* The answers that keep address and configuration, and begin no descriptor.
LEMMA PlainSetup ==
  ASSUME IInv, USB_EP0_SETUP, UNCHANGED <<USB_DEV_AD, UsbConfig>>,
         setup.req \notin {"SET_ADDRESS", "SET_CONFIGURATION", "GET_DESCRIPTOR"},
         \/ Stall
         \/ \E bytes \in Run : Accept(bytes) /\ (stage = "data" => bytes = Answer)
  PROVE  AddressInv' /\ ConfigInv' /\ StatusInv' /\ DataInv'
<1>1. /\ token = "SETUP" /\ token' = "none" /\ UNCHANGED <<setup, busReset, transfer, belief>>
  BY SetupFrame
<1>2. AddressInv' /\ ConfigInv'
  BY <1>1 DEF IInv, AddressInv, ConfigInv, Stall, Accept, belief
<1>3. StatusInv'
  BY <1>1 DEF IInv, StatusInv, LinkInv, Stall, Accept, transfer
<1>4. DataInv'
  BY <1>1 DEF IInv, DataInv, AnswerInv, Answer, LinkInv, Stall, Accept, transfer
<1> QED
  BY <1>2, <1>3, <1>4

\* The first packet of a descriptor.
LEMMA GetDescriptorInv ==
  ASSUME IInv, GetDescriptor
  PROVE  AddressInv' /\ ConfigInv' /\ StatusInv' /\ DataInv'
<1> DEFINE c   == Choice[setup.of]
           len == Least(Total(c), Packet)
<1>1. /\ token = "SETUP" /\ token' = "none" /\ stage # "statusOut"
      /\ UNCHANGED <<setup, busReset, transfer, belief>>
  BY SetupFrame DEF USB_EP0_SETUP
<1>2. /\ setup = asked /\ setup \in Requests /\ setup.req = "GET_DESCRIPTOR"
      /\ UNCHANGED <<USB_DEV_AD, UsbConfig>>
  BY DEF IInv, LinkInv, TypeOK, IntType, GetDescriptor, Setup, Stall
<1>3. /\ SetupReq' \in {"GET_DESCRIPTOR", "NONE"}
      /\ tRes' = "ACK" => SetupReq' = "GET_DESCRIPTOR"
      /\ tRes' \in {"ACK", "STALL"}
  BY <1>2 DEF GetDescriptor, Accept, Stall
<1>4. AddressInv' /\ ConfigInv'
  BY <1>1, <1>2, <1>3 DEF IInv, AddressInv, ConfigInv, belief
<1>5. StatusInv'
  BY <1>1, <1>2, <1>3 DEF StatusInv, transfer
<1>6. ASSUME stage = "data", tRes' = "ACK" PROVE DescrInv'
  <2>1. /\ c \in Descrs /\ Accept(Copy(c, 0, len)) /\ SetupLen' = Total(c) - len
        /\ pDescr' = <<c, len>>
    BY <1>6 DEF GetDescriptor, Stall
  <2>2. DescrLen[c] \in Nat /\ setup.want \in Nat /\ Packet \in Nat
    BY <1>2, <2>1, RequestFacts, DescrAssumption, PacketAssumption
  <2>3. Total(c) \in Nat /\ len \in 0 .. Packet /\ (len = Packet \/ len = Total(c))
    BY <2>2 DEF Total, Least
  <2>4. Copy(c, 0, len).len = len
    BY <2>1, <2>3, CopyType
  <2>5. Total(c) = All' /\ c = Chosen'
    BY <1>1, <1>2 DEF Total, All, Chosen, transfer
  <2>6. count' = 0 /\ hTog' = 1
    BY <1>1, <1>6 DEF IInv, DataInv, transfer
  <2> HIDE DEF c, len
  <2>7. loaded' = Copy(c, 0, len) /\ tTog' = 1 /\ pDescr'[1] = c /\ pDescr'[2] = len
        /\ SetupLen' = Total(c) - len
    BY <2>1 DEF Accept
  <2>8. pDescr'[2] - len = 0
    BY <2>3, <2>7
  <2> QED
    BY <1>1, <2>1, <2>3, <2>4, <2>5, <2>6, <2>7, <2>8 DEF DescrInv
<1>7. DataInv'
  BY <1>1, <1>2, <1>3, <1>6 DEF IInv, DataInv, transfer
<1> QED
  BY <1>4, <1>5, <1>7

\* A SETUP interrupt leads to a state the next tokens are ready for.
LEMMA SetupInv ==
  ASSUME IInv, USB_EP0_SETUP
  PROVE  AddressInv' /\ ConfigInv' /\ StatusInv' /\ DataInv'
<1>1. /\ token = "SETUP" /\ token' = "none" /\ UNCHANGED <<setup, busReset, transfer, belief>>
  BY SetupFrame
<1>2. /\ setup = asked /\ setup \in Requests /\ UsbConfig \in 0 .. 1
      /\ stage = "data" => setup.want > 0
  BY DEF IInv, LinkInv, DataInv, TypeOK, IntType, DeviceType
<1>3. CASE GetDescriptor
  BY <1>3, GetDescriptorInv
<1>4. CASE SetAddress
  <2>1. /\ setup.req = "SET_ADDRESS" /\ setup.of \in Addresses /\ stage # "data"
        /\ SetupReq' = "SET_ADDRESS" /\ SetupLen' = setup.of /\ UNCHANGED <<USB_DEV_AD, UsbConfig>>
    BY <1>2, <1>4, RequestFacts DEF SetAddress, Accept, AddressAfterSetup
  <2>2. AddressInv' /\ ConfigInv'
    BY <1>1, <2>1 DEF IInv, AddressInv, ConfigInv, belief
  <2>3. StatusInv' /\ DataInv'
    BY <1>1, <1>2, <2>1 DEF StatusInv, DataInv, transfer
  <2> QED
    BY <2>2, <2>3
<1>5. CASE GetConfiguration
  <2>1. setup.req = "GET_CONFIGURATION" /\ setup.want = 1
    BY <1>2, <1>5, RequestFacts DEF GetConfiguration, Setup
  <2>2. Accept(ConfigByte(UsbConfig)) /\ UNCHANGED <<USB_DEV_AD, UsbConfig>>
    BY <1>5, <2>1 DEF GetConfiguration, Setup
  <2>3. ConfigByte(UsbConfig) \in Run /\ Answer = ConfigByte(UsbConfig)
    BY <1>2, <2>1, AnswerType DEF Answer
  <2> QED
    BY <2>1, <2>2, <2>3, PlainSetup
<1>6. CASE SetConfiguration
  <2>1. /\ setup.req = "SET_CONFIGURATION" /\ stage # "data"
        /\ SetupReq' = "SET_CONFIGURATION" /\ UsbConfig' = setup.of /\ UNCHANGED USB_DEV_AD
        /\ hConfig = Unknown
    BY <1>1, <1>2, <1>6, RequestFacts DEF SetConfiguration, Setup, Accept, IInv, ConfigInv
  <2>2. AddressInv' /\ ConfigInv'
    BY <1>1, <2>1 DEF IInv, AddressInv, ConfigInv, belief
  <2>3. StatusInv' /\ DataInv'
    BY <1>1, <1>2, <2>1 DEF StatusInv, DataInv, transfer
  <2> QED
    BY <2>2, <2>3
<1>7. CASE GetStatus
  <2>1. setup.req = "GET_STATUS" /\ setup.want = 2
    BY <1>2, <1>7, RequestFacts DEF GetStatus, Setup
  <2>2. Least(setup.want, 2) = 2
    BY <2>1 DEF Least
  <2>3. Accept(StatusBytes(2)) /\ UNCHANGED <<USB_DEV_AD, UsbConfig>>
    BY <1>7, <2>2 DEF GetStatus, Setup
  <2>4. StatusBytes(2) \in Run /\ Answer = StatusBytes(2)
    BY <1>2, <2>1, AnswerType DEF Answer
  <2> QED
    BY <2>1, <2>3, <2>4, PlainSetup
<1>8. CASE NoData
  <2>1. /\ setup.req = "NO_DATA" /\ stage # "data" /\ Accept(Empty) /\ Empty \in Run
        /\ UNCHANGED <<USB_DEV_AD, UsbConfig>>
    BY <1>2, <1>8, RequestFacts, AnswerType DEF NoData, Setup
  <2> QED
    BY <2>1, PlainSetup
<1>9. CASE Unsupported
  <2>1. setup.req = "CLASS" /\ Stall /\ UNCHANGED <<USB_DEV_AD, UsbConfig>>
    BY <1>9 DEF Unsupported, Setup, Stall
  <2> QED
    BY <2>1, PlainSetup
<1> QED
  BY <1>3, <1>4, <1>5, <1>6, <1>7, <1>8, <1>9 DEF USB_EP0_SETUP

\* An IN interrupt puts the next packet behind the last, takes the address, or ends.
LEMMA InInv ==
  ASSUME IInv, USB_EP0_IN
  PROVE  /\ LinkInv' /\ AddressInv' /\ ConfigInv' /\ StatusInv'
         /\ DataInv' /\ ReceivedInv' /\ EndInv' /\ Early'
<1>1. /\ token = "IN" /\ token' = "none" /\ stage # "statusIn"
      /\ UNCHANGED <<setup, busReset, transfer, belief, UsbConfig, SetupReq>>
  BY DEF USB_EP0_IN, Serve, NextPacket, TakeAddress, EndIn, NakIn, device, progress,
         IInv, StatusInv
<1>2. LinkInv' /\ ConfigInv' /\ StatusInv' /\ Early'
  BY <1>1 DEF IInv, LinkInv, ConfigInv, StatusInv, Early, transfer, belief
<1>3. ReceivedInv'
  BY <1>1 DEF IInv, ReceivedInv, Chain, Chosen, transfer
<1>4. EndInv'
  BY <1>1 DEF IInv, EndInv, Chosen, All, Answer, transfer
<1>5. AddressInv'
  <2>1. CASE TakeAddress
    BY <1>1, <2>1 DEF IInv, AddressInv, TakeAddress, NakIn, progress, belief
  <2>2. CASE SetupReq # "SET_ADDRESS" /\ UNCHANGED USB_DEV_AD
    BY <1>1, <2>2 DEF IInv, AddressInv, belief
  <2> QED
    BY <2>1, <2>2 DEF USB_EP0_IN, NextPacket, EndIn, device
<1>6. ASSUME stage = "data" PROVE DescrInv' /\ tRes' = "ACK" /\ asked.req = "GET_DESCRIPTOR"
  <2>1. tRes = "ACK" /\ SetupReq = asked.req /\ asked.req = "GET_DESCRIPTOR" /\ DescrInv
    BY <1>1, <1>6 DEF IInv, DataInv, AnswerInv
  <2> DEFINE n == Least(SetupLen, Packet)
  <2>2. /\ loaded' = Copy(pDescr[1], pDescr[2], n) /\ SetupLen' = SetupLen - n
        /\ pDescr' = <<pDescr[1], pDescr[2] + n>> /\ tTog' = 1 - tTog
        /\ tRes' = tRes
    BY <2>1 DEF USB_EP0_IN, NextPacket, TakeAddress, EndIn, Advance, NextToggle
  <2>3. /\ SetupLen \in Nat /\ Packet \in Nat /\ pDescr[2] \in Nat
        /\ tTog \in 0 .. 1 /\ hTog \in 0 .. 1
    BY PacketAssumption DEF IInv, TypeOK, ProgressType, Ep0Type, TransferType
  <2>4. n \in 0 .. Packet /\ n <= SetupLen /\ (n = Packet \/ n = SetupLen)
    BY <2>3 DEF Least
  <2> HIDE DEF n
  <2>5. /\ pDescr[1] = Chosen /\ Chosen \in Descrs /\ SetupLen + pDescr[2] = All
        /\ tTog # hTog /\ count = pDescr[2]
    BY <1>1, <2>1 DEF DescrInv
  <2>6. Chosen' = Chosen /\ All' = All /\ hTog' = hTog /\ count' = count
    BY <1>1 DEF Chosen, All, transfer
  <2>7. loaded' = Copy(Chosen, pDescr[2], n) /\ loaded'.len = n
    BY <2>2, <2>3, <2>4, <2>5, CopyType
  <2>8. pDescr'[1] = Chosen /\ pDescr'[2] = pDescr[2] + n /\ tTog' = hTog
        /\ pDescr'[2] - n = pDescr[2]
    BY <2>2, <2>3, <2>4, <2>5
  <2>9. DescrInv'
    BY <1>1, <2>2, <2>3, <2>4, <2>5, <2>6, <2>7, <2>8 DEF DescrInv
  <2> QED
    BY <2>1, <2>2, <2>9
<1>7. DataInv'
  BY <1>1, <1>6 DEF IInv, DataInv, transfer
<1> QED
  BY <1>2, <1>3, <1>4, <1>5, <1>7

\* An OUT interrupt ends a transfer the host has ended, a reset none.
LEMMA OutInv ==
  ASSUME IInv, USB_EP0_OUT \/ ResetEp0
  PROVE  /\ LinkInv' /\ AddressInv' /\ ConfigInv' /\ StatusInv'
         /\ DataInv' /\ ReceivedInv' /\ EndInv' /\ Early'
<1>1. /\ token' = "none" /\ stage \notin {"data", "statusIn"}
      /\ UNCHANGED <<progress, setup, transfer, belief, UsbConfig>>
  BY DEF USB_EP0_OUT, ResetEp0, Serve, device, IInv, LinkInv, DataInv, StatusInv
<1>2. LinkInv' /\ AddressInv'
  <2>1. CASE USB_EP0_OUT
    BY <1>1, <2>1 DEF USB_EP0_OUT, Serve, IInv, LinkInv, AddressInv, transfer, belief, progress, device
  <2>2. CASE ResetEp0
    BY <1>1, <2>2 DEF ResetEp0, IInv, LinkInv, AddressInv, transfer, belief, progress
  <2> QED
    BY <2>1, <2>2
<1>3. ConfigInv' /\ StatusInv' /\ DataInv' /\ Early'
  BY <1>1 DEF IInv, ConfigInv, StatusInv, DataInv, Early, transfer, belief
<1>4. ReceivedInv'
  BY <1>1 DEF IInv, ReceivedInv, Chain, Chosen, transfer
<1>5. EndInv'
  BY <1>1 DEF IInv, EndInv, Chosen, All, Answer, transfer
<1> QED
  BY <1>2, <1>3, <1>4, <1>5

-----------------------------------------------------------------------------
(* The host.                                                               *)

\* A new transfer begins with nothing received.
LEMMA HostSetupInv ==
  ASSUME IInv, NEW r \in Requests, HostSetup(r)
  PROVE  /\ LinkInv' /\ AddressInv' /\ ConfigInv' /\ StatusInv'
         /\ DataInv' /\ ReceivedInv' /\ EndInv' /\ Early'
<1>1. /\ token = "none" /\ ~busReset /\ token' = "SETUP" /\ setup' = r /\ asked' = r
      /\ received' = <<>> /\ count' = 0 /\ hTog' = 1
      /\ stage' = IF r.want > 0 THEN "data" ELSE "statusIn"
      /\ hConfig' = IF r.req = "SET_CONFIGURATION" THEN Unknown ELSE hConfig
      /\ UNCHANGED <<progress, ep0, device, busReset, hAddr, missed>>
  BY DEF HostSetup, Reaches, Quiet, hostOnly
<1>2. LinkInv' /\ AddressInv' /\ ConfigInv'
  BY <1>1 DEF IInv, LinkInv, AddressInv, ConfigInv, progress, device
<1>3. StatusInv' /\ DataInv' /\ EndInv' /\ Early'
  BY <1>1 DEF StatusInv, DataInv, EndInv, Early
<1>4. ReceivedInv'
  <2>1. DOMAIN received' = {}
    BY <1>1
  <2> QED
    BY <1>1, <2>1 DEF ReceivedInv, Chain
<1> QED
  BY <1>2, <1>3, <1>4

\* What the host takes in continues what it has.
LEMMA HostInInv ==
  ASSUME IInv, NEW lost \in BOOLEAN, HostIn(lost)
  PROVE  /\ LinkInv' /\ AddressInv' /\ ConfigInv' /\ StatusInv'
         /\ DataInv' /\ ReceivedInv' /\ EndInv' /\ Early'
<1>1. /\ token = "none" /\ ~busReset /\ stage = "data" /\ tRes = "ACK"
      /\ token' \in {"none", "IN"}
      /\ UNCHANGED <<progress, ep0, device, busReset, setup, asked, belief>>
  BY DEF HostIn, Reaches, Quiet, hostOnly
<1>2. /\ asked.want > 0 /\ SetupReq = asked.req /\ asked.req # "SET_ADDRESS"
      /\ asked \in Requests
      /\ IF asked.req = "GET_DESCRIPTOR" THEN DescrInv ELSE AnswerInv
  <2>1. /\ asked.want > 0 /\ SetupReq = asked.req
        /\ IF asked.req = "GET_DESCRIPTOR" THEN DescrInv ELSE AnswerInv
    BY <1>1 DEF IInv, DataInv
  <2>2. asked \in Requests
    BY DEF IInv, TypeOK, TransferType
  <2> QED
    BY <2>1, <2>2, RequestFacts
<1>3. stage' \in {"data", "statusOut"}
  BY <1>1 DEF HostIn
<1>4. LinkInv' /\ AddressInv' /\ ConfigInv' /\ StatusInv' /\ Early'
  BY <1>1, <1>2, <1>3
    DEF IInv, LinkInv, AddressInv, ConfigInv, StatusInv, Early, progress, device, belief
<1>5. /\ count \in Nat /\ loaded.len \in 0 .. Packet /\ received \in Seq(Run)
      /\ Packet \in Nat /\ Packet > 2 /\ SetupLen \in Nat /\ pDescr[2] \in Nat
      /\ tTog \in 0 .. 1 /\ hTog \in 0 .. 1 /\ asked.want \in Nat /\ UsbConfig \in 0 .. 1
      /\ loaded \in Run
  BY <1>2, RequestFacts, PacketAssumption
    DEF IInv, TypeOK, TransferType, ProgressType, Ep0Type, DeviceType, Run
<1>6. CASE tTog # hTog
  <2>1. UNCHANGED <<hTog, received, count, stage>>
    BY <1>6 DEF HostIn
  <2>2. asked.req = "GET_DESCRIPTOR" /\ DescrInv
    BY <1>2, <1>6 DEF AnswerInv
  <2>3. DescrInv'
    BY <1>1, <1>6, <2>1, <2>2 DEF DescrInv, Chosen, All, progress, ep0
  <2>4. DataInv' /\ EndInv'
    BY <1>1, <1>2, <2>1, <2>2, <2>3 DEF DataInv, EndInv, progress, ep0
  <2>5. ReceivedInv'
    BY <1>1, <2>1 DEF IInv, ReceivedInv, Chain, Chosen
  <2> QED
    BY <1>4, <2>4, <2>5
<1>7. CASE tTog = hTog
  <2>1. /\ hTog' = 1 - hTog /\ count' = count + loaded.len
        /\ received' = IF loaded = Empty THEN received ELSE Append(received, loaded)
        /\ stage' = IF loaded.len < Packet \/ count' >= asked.want THEN "statusOut" ELSE "data"
    BY <1>7 DEF HostIn
  <2>2. CASE asked.req = "GET_DESCRIPTOR"
    <3>1. /\ Chosen \in Descrs /\ pDescr[1] = Chosen /\ SetupLen + pDescr[2] = All
          /\ loaded.len <= pDescr[2]
          /\ loaded = Copy(Chosen, pDescr[2] - loaded.len, loaded.len)
          /\ loaded.len = Packet \/ pDescr[2] = All
          /\ count + loaded.len = pDescr[2]
      BY <1>2, <1>7, <2>2 DEF DescrInv
    <3>2. All \in Nat /\ All <= asked.want
      BY <1>5, <3>1, DescrAssumption DEF All, Least
    <3>3. count' = pDescr[2] /\ hTog' # tTog
      BY <1>5, <1>7, <2>1, <3>1
    <3>4. DataInv'
      <4>1. ASSUME stage' = "data" PROVE DescrInv'
        BY <1>1, <1>5, <2>1, <3>1, <3>3, <4>1 DEF DescrInv, Chosen, All, progress, ep0
      <4> QED
        BY <1>1, <1>2, <2>2, <4>1 DEF DataInv, progress, ep0
    <3>5. EndInv'
      <4>1. stage' = "statusOut" => count' = All
        <5>1. CASE loaded.len < Packet
          BY <1>5, <3>1, <3>3, <5>1
        <5>2. CASE count' >= asked.want
          <6>1. pDescr[2] <= All
            BY <1>5, <3>1, <3>2
          <6> QED
            BY <1>5, <3>2, <3>3, <5>2, <6>1
        <5> QED
          BY <2>1, <5>1, <5>2
      <4> QED
        BY <1>1, <1>2, <2>2, <3>1, <4>1 DEF EndInv, Chosen, All
    <3>6. ReceivedInv'
      <4>1. /\ (received = <<>> <=> count = 0) /\ Chain(0)
            /\ \A n \in DOMAIN received : received[n].of = Chosen
        BY <1>1, <2>2 DEF IInv, ReceivedInv
      <4>2. pDescr[2] - loaded.len = count
        BY <1>5, <3>1
      <4>3. CASE loaded.len = 0
        <5>1. received' = received /\ count' = count
          BY <1>5, <2>1, <3>1, <4>2, <4>3 DEF Copy
        <5> QED
          BY <1>1, <4>1, <5>1 DEF ReceivedInv, Chain, Chosen
      <4>4. CASE loaded.len # 0
        <5>1. loaded # Empty /\ loaded.of = Chosen /\ loaded.from = count
          BY <1>5, <3>1, <4>2, <4>4, CopyType
        <5>2. received' = Append(received, loaded) /\ Len(received) \in Nat
          BY <1>5, <2>1, <5>1
        <5>3. /\ Len(received') = Len(received) + 1
              /\ received'[Len(received) + 1] = loaded
              /\ \A n \in 1 .. Len(received) : received'[n] = received[n]
              /\ DOMAIN received' = 1 .. Len(received) + 1 /\ DOMAIN received = 1 .. Len(received)
          BY <1>5, <5>2
        <5>4. received' # <<>> /\ count' # 0 /\ received'[Len(received')] = loaded
          BY <1>5, <2>1, <4>4, <5>3
        <5>5. \A n \in DOMAIN received' : received'[n].of = Chosen
          BY <4>1, <5>1, <5>3
        <5>6. loaded.from = IF Len(received) + 1 = 1 THEN 0
                 ELSE received[Len(received)].from + received[Len(received)].len
          BY <1>5, <4>1, <5>1, <5>2, <5>3 DEF Chain
        <5>7. ASSUME NEW n \in DOMAIN received'
              PROVE  received'[n].from =
                       IF n = 1 THEN 0 ELSE received'[n - 1].from + received'[n - 1].len
          <6>1. CASE n = Len(received) + 1
            <7>1. received'[n] = loaded /\ n - 1 = Len(received)
              BY <5>2, <5>3, <6>1
            <7>2. n # 1 => received'[n - 1] = received[n - 1]
              BY <5>2, <5>3, <7>1
            <7> QED
              BY <5>6, <6>1, <7>1, <7>2
          <6>2. CASE n \in DOMAIN received
            <7>1. received'[n] = received[n]
              BY <5>3, <6>2
            <7>2. n # 1 => received'[n - 1] = received[n - 1]
              BY <5>2, <5>3, <6>2
            <7>3. received[n].from =
                    IF n = 1 THEN 0 ELSE received[n - 1].from + received[n - 1].len
              BY <4>1, <6>2 DEF Chain
            <7> QED
              BY <7>1, <7>2, <7>3
          <6> QED
            BY <5>2, <5>3, <6>1, <6>2
        <5>8. Chain(0)'
          BY <1>5, <2>1, <5>1, <5>4, <5>7 DEF Chain
        <5> QED
          BY <1>1, <5>4, <5>5, <5>8 DEF ReceivedInv, Chosen
      <4> QED
        BY <4>3, <4>4
    <3> QED
      BY <1>4, <3>4, <3>5, <3>6
  <2>3. CASE asked.req # "GET_DESCRIPTOR"
    <3>1. count = 0 /\ loaded = Answer /\ Answer.len \in 1 .. 2
      BY <1>2, <1>5, <2>3, AnswerType DEF AnswerInv, Answer
    <3>2. received = <<>>
      BY <3>1 DEF IInv, ReceivedInv
    <3>3. stage' = "statusOut" /\ count' = Answer.len
      BY <1>5, <2>1, <3>1
    <3>4. received' = <<Answer>>
      BY <2>1, <3>1, <3>2 DEF Empty
    <3>5. Answer' = Answer
      BY <1>1 DEF Answer, device
    <3>6. EndInv' /\ DataInv'
      BY <1>1, <1>2, <2>3, <3>3, <3>4, <3>5 DEF EndInv, DataInv
    <3>7. ReceivedInv'
      BY <1>1, <2>3, <3>1, <3>3, <3>4 DEF ReceivedInv
    <3> QED
      BY <1>4, <3>6, <3>7
  <2> QED
    BY <2>2, <2>3
<1> QED
  BY <1>6, <1>7

\* The end of a transfer with data.
LEMMA HostStatusOutInv ==
  ASSUME IInv, NEW lost \in BOOLEAN, HostStatusOut(lost)
  PROVE  /\ LinkInv' /\ AddressInv' /\ ConfigInv' /\ StatusInv'
         /\ DataInv' /\ ReceivedInv' /\ EndInv' /\ Early'
<1>1. /\ token = "none" /\ ~busReset /\ stage = "statusOut" /\ token' = "OUT"
      /\ stage' \in {"statusOut", "idle"}
      /\ UNCHANGED <<progress, ep0, device, busReset, setup, asked, hTog, received, count, belief>>
  BY DEF HostStatusOut, Reaches, Quiet, hostOnly
<1>2. LinkInv' /\ AddressInv' /\ ConfigInv' /\ StatusInv' /\ DataInv' /\ Early'
  BY <1>1 DEF IInv, LinkInv, AddressInv, ConfigInv, StatusInv, DataInv, Early,
              progress, device, belief
<1>3. EndInv' /\ ReceivedInv'
  BY <1>1 DEF IInv, EndInv, ReceivedInv, Chain, Chosen, All, Answer, device
<1> QED
  BY <1>2, <1>3

\* The end of a transfer without: the host believes what the device has done or, for
\* an address, is about to do.
LEMMA HostStatusInInv ==
  ASSUME IInv, NEW lost \in BOOLEAN, HostStatusIn(lost)
  PROVE  /\ LinkInv' /\ AddressInv' /\ ConfigInv' /\ StatusInv'
         /\ DataInv' /\ ReceivedInv' /\ EndInv' /\ Early'
<1>1. /\ token = "none" /\ ~busReset /\ stage = "statusIn" /\ tRes = "ACK"
      /\ token' = IF lost THEN "none" ELSE "IN"
      /\ stage' = "idle"
      /\ hAddr' = IF asked.req = "SET_ADDRESS" THEN asked.of ELSE hAddr
      /\ hConfig' = IF asked.req = "SET_CONFIGURATION" THEN asked.of ELSE hConfig
      /\ missed' = (missed \/ (lost /\ asked.req = "SET_ADDRESS"))
      /\ UNCHANGED <<progress, ep0, device, busReset, setup, asked, hTog, received, count>>
  BY DEF HostStatusIn, Reaches, Quiet, hostOnly
<1>2. /\ SetupReq = asked.req
      /\ asked.req = "SET_ADDRESS" => SetupLen = asked.of
      /\ asked.req = "SET_CONFIGURATION" => UsbConfig = asked.of
  BY <1>1 DEF IInv, StatusInv
<1>3. LinkInv' /\ ConfigInv' /\ StatusInv' /\ DataInv' /\ EndInv' /\ Early'
  BY <1>1, <1>2 DEF IInv, LinkInv, ConfigInv, StatusInv, DataInv, EndInv, Early, device
<1>4. AddressInv'
  BY <1>1, <1>2 DEF IInv, AddressInv, progress, device
<1>5. ReceivedInv'
  BY <1>1 DEF IInv, ReceivedInv
<1> QED
  BY <1>3, <1>4, <1>5

\* A stall and a bus reset end the transfer without data or belief.
LEMMA HostGivesUpInv ==
  ASSUME IInv, HostStalled \/ BusReset
  PROVE  /\ LinkInv' /\ AddressInv' /\ ConfigInv' /\ StatusInv'
         /\ DataInv' /\ ReceivedInv' /\ EndInv' /\ Early'
<1>1. /\ stage' = "idle"
      /\ UNCHANGED <<progress, ep0, device, token, setup, asked, hTog, received, count>>
  BY DEF HostStalled, BusReset, hostOnly
<1>2. StatusInv' /\ DataInv' /\ EndInv' /\ Early'
  BY <1>1 DEF StatusInv, DataInv, EndInv, Early
<1>3. ReceivedInv'
  BY <1>1 DEF IInv, ReceivedInv
<1>4. LinkInv' /\ AddressInv' /\ ConfigInv'
  <2>1. CASE HostStalled
    BY <1>1, <2>1 DEF HostStalled, Reaches, Quiet, hostOnly, IInv, LinkInv, AddressInv, ConfigInv,
                      progress, device, belief
  <2>2. CASE BusReset
    BY <1>1, <2>2 DEF BusReset, IInv, LinkInv, AddressInv, ConfigInv, progress, device
  <2> QED
    BY <2>1, <2>2
<1> QED
  BY <1>2, <1>3, <1>4

-----------------------------------------------------------------------------
(* The theorems.                                                           *)

\* IInv is an invariant.
THEOREM Invariance == Spec => []IInv
<1>1. ASSUME IInv, Next PROVE IInv'
  <2>1. CASE USB_EP0_SETUP
    BY <1>1, <2>1, SetupType, SetupFrame, SetupInv DEF IInv
  <2>2. CASE USB_EP0_IN
    BY <1>1, <2>2, InterruptType, InInv DEF IInv
  <2>3. CASE USB_EP0_OUT \/ ResetEp0
    BY <1>1, <2>3, InterruptType, OutInv DEF IInv
  <2>4. ASSUME NEW r \in Requests, HostSetup(r) PROVE IInv'
    BY <1>1, <2>4, HostType, HostSetupInv DEF IInv
  <2>5. ASSUME NEW lost \in BOOLEAN, HostIn(lost) PROVE IInv'
    BY <1>1, <2>5, HostType, HostInInv DEF IInv
  <2>6. ASSUME NEW lost \in BOOLEAN, HostStatusOut(lost) PROVE IInv'
    BY <1>1, <2>6, HostType, HostStatusOutInv DEF IInv
  <2>7. ASSUME NEW lost \in BOOLEAN, HostStatusIn(lost) PROVE IInv'
    BY <1>1, <2>7, HostType, HostStatusInInv DEF IInv
  <2>8. CASE HostStalled \/ BusReset
    BY <1>1, <2>8, HostType, HostGivesUpInv DEF IInv
  <2> QED
    BY <1>1, <2>1, <2>2, <2>3, <2>4, <2>5, <2>6, <2>7, <2>8 DEF Next, USB_EP0_SETUP
<1>2. IInv /\ UNCHANGED vars => IInv'
  BY Frames DEF IInv, TypeOK, vars, progress, ep0, device, intVars, transfer, belief,
     LinkInv, AddressInv, ConfigInv, StatusInv, DataInv, DescrInv, AnswerInv, Answer,
     ReceivedInv, Chain, Chosen, All, EndInv, Early
<1> QED
  BY <1>1, <1>2, InitInv, PTL DEF Spec

\* The globals of the transfer and the registers of endpoint 0 keep their types:
\* TypeOK, with the address in range (usb_handler.c:44-60, 304-332).
THEOREM TypeCorrect == Spec => []TypeOK
<1>1. IInv => TypeOK
  BY DEF IInv
<1> QED
  BY <1>1, Invariance, PTL

\* Host and device agree on the address whenever a token may be sent, unless the
\* handshake that ends a SET_ADDRESS was lost (AddressAgrees; usb_handler.c:136-138,
\* 317-320).
THEOREM AddressShared == Spec => []AddressAgrees
<1>1. IInv => AddressAgrees
  BY DEF IInv, AddressInv, AddressAgrees, Quiet
<1> QED
  BY <1>1, Invariance, PTL

\* When the firmware chooses, for every descriptor a host can mean, that descriptor,
\* each data stage delivers its bytes in order and as many as there are and were asked
\* for, whatever is lost, abandoned or reset (DataExact; usb_handler.c:61-134, 308-315).
THEOREM DataStageExact ==
  ASSUME \A w \in Asked : Meant[w] # Unknown => Choice[w] = Meant[w]
  PROVE  Spec => []DataExact
<1>1. IInv => DataExact
  <2> SUFFICES ASSUME IInv, stage # "idle", Known
               PROVE  /\ \A n \in DOMAIN received :
                           /\ received[n].of = Expected.of
                           /\ received[n].from =
                                IF n = 1 THEN Expected.from
                                         ELSE received[n - 1].from + received[n - 1].len
                      /\ count <= Expected.len
                      /\ stage = "statusOut" => count = Least(asked.want, Expected.len)
    BY DEF DataExact
  <2>1. asked \in Requests /\ count \in Nat /\ stage \in {"data", "statusIn", "statusOut"}
        /\ UsbConfig \in 0 .. 1
    BY DEF IInv, TypeOK, TransferType, DeviceType
  <2>2. CASE asked.req = "GET_DESCRIPTOR"
    <3> DEFINE want == Meant[asked.of]
    <3>1. want = Chosen /\ Chosen \in Descrs /\ DescrLen[Chosen] \in Nat /\ asked.want \in Nat
      BY <2>1, <2>2, RequestFacts, DescrAssumption DEF Known, Chosen
    <3>2. /\ (received = <<>> <=> count = 0) /\ Chain(0)
          /\ \A n \in DOMAIN received : received[n].of = Chosen
      BY <2>2 DEF IInv, ReceivedInv
    <3>3. All \in Nat /\ pDescr[2] \in Nat /\ loaded.len \in Nat /\ SetupLen \in Nat
      BY <3>1 DEF All, Least, IInv, TypeOK, ProgressType, Ep0Type, Run
    <3>4. count <= All /\ (stage = "statusOut" => count = All)
      <4>1. CASE stage = "statusIn"
        BY <3>3, <4>1 DEF IInv, Early
      <4>2. CASE stage = "statusOut"
        BY <2>2, <3>3, <4>2 DEF IInv, EndInv
      <4>3. CASE stage = "data" /\ count = 0
        BY <3>3, <4>3
      <4>4. CASE stage = "data" /\ count # 0
        <5>1. DescrInv
          BY <2>2, <4>4 DEF IInv, DataInv
        <5>2. SetupLen + pDescr[2] = All /\ (count + loaded.len = pDescr[2] \/ count = pDescr[2])
          BY <5>1 DEF DescrInv
        <5> QED
          BY <2>1, <3>3, <4>4, <5>2
      <4> QED
        BY <2>1, <4>1, <4>2, <4>3, <4>4
    <3>5. All = Least(asked.want, DescrLen[Chosen]) /\ All <= DescrLen[Chosen]
      BY <3>1 DEF All, Least
    <3>6. Expected = Copy(Chosen, 0, DescrLen[Chosen])
      BY <2>2, <3>1 DEF Expected
    <3>7. Expected.len = DescrLen[Chosen] /\ Expected.from = 0
      BY <3>1, <3>6 DEF Copy, Empty
    <3>8. received # <<>> => Expected.of = Chosen
      <4>1. received # <<>> => DescrLen[Chosen] # 0
        BY <2>1, <3>1, <3>2, <3>4, <3>5, <3>3
      <4> QED
        BY <3>1, <3>6, <4>1 DEF Copy
    <3>9. ASSUME NEW n \in DOMAIN received PROVE received[n].of = Expected.of
      <4>1. received # <<>>
        BY <3>9
      <4> QED
        BY <3>2, <3>8, <4>1
    <3>10. \A n \in DOMAIN received :
            received[n].from =
              IF n = 1 THEN Expected.from ELSE received[n - 1].from + received[n - 1].len
      BY <3>2, <3>7 DEF Chain
    <3>11. count <= Expected.len /\ (stage = "statusOut" => count = Least(asked.want, Expected.len))
      BY <2>1, <3>1, <3>3, <3>4, <3>5, <3>7
    <3> QED
      BY <3>9, <3>10, <3>11
  <2>3. CASE asked.req # "GET_DESCRIPTOR"
    <3>1. Expected = Answer /\ Answer.len \in 1 .. 2 /\ asked.want = Answer.len
      <4>1. CASE asked.req = "GET_STATUS"
        BY <2>1, <4>1, RequestFacts, AnswerType DEF Expected, Answer
      <4>2. CASE asked.req = "GET_CONFIGURATION" /\ hConfig # Unknown
        BY <2>1, <4>2, RequestFacts, AnswerType DEF Expected, Answer, IInv, ConfigInv
      <4> QED
        BY <2>3, <4>1, <4>2 DEF Known
    <3>2. \/ received = <<>> /\ count = 0 /\ stage # "statusOut"
          \/ received = <<Answer>> /\ count = Answer.len
      <4>1. CASE stage = "statusIn"
        BY <4>1 DEF IInv, Early
      <4>2. CASE stage = "statusOut"
        BY <2>3, <4>2 DEF IInv, EndInv
      <4>3. CASE stage = "data"
        <5>1. count = 0
          BY <2>3, <4>3 DEF IInv, DataInv, AnswerInv
        <5> QED
          BY <4>3, <5>1 DEF IInv, ReceivedInv
      <4> QED
        BY <2>1, <4>1, <4>2, <4>3
    <3>3. CASE received = <<>> /\ count = 0 /\ stage # "statusOut"
      BY <3>1, <3>3
    <3>4. CASE received = <<Answer>> /\ count = Answer.len
      <4>1. DOMAIN received = {1} /\ received[1] = Answer
        BY <3>4
      <4>2. count <= Expected.len /\ count = Least(asked.want, Expected.len)
        BY <3>1, <3>4 DEF Least
      <4> QED
        BY <3>1, <4>1, <4>2
    <3> QED
      BY <3>2, <3>3, <3>4
  <2> QED
    BY <2>2, <2>3
<1> QED
  BY <1>1, Invariance, PTL

-----------------------------------------------------------------------------
(* The descriptors of the device.                                          *)

\* Whenever a host can mean something by a request, that is what is chosen.
LEMMA ChoiceRight ==
  ASSUME OfDevice, NEW w \in Asked, Meant[w] # Unknown
  PROVE  Choice[w] = Meant[w]
<1>1. Meant[w] = MeantBy(w) /\ Choice[w] = ChosenFor(w)
  BY DEF OfDevice
<1>2. MeantBy(w) # Unknown => ChosenFor(w) = MeantBy(w)
  BY DEF MeantBy, ChosenFor, Selected, ReportOf, TextOf
<1> QED
  BY <1>1, <1>2

\* With the descriptors of the device every data stage is exact, for every set of
\* requests: the firmware's switch chooses what is meant (DataExact;
\* usb_handler.c:61-134, 308-315).
THEOREM DeviceDataExact == ASSUME OfDevice PROVE Spec => []DataExact
<1>1. \A w \in Asked : Meant[w] # Unknown => Choice[w] = Meant[w]
  BY ChoiceRight
<1> QED
  BY <1>1, DataStageExact, Zenon

\* A sequence of numbers has v at place i.
At(s, i, v) == s \in Seq(Int) /\ i \in 1 .. Len(s) /\ s[i] = v

\* Places stay when a sequence is continued, and move behind what is put before it.
LEMMA AtFacts ==
  ASSUME NEW s, NEW t \in Seq(Int), NEW i \in Int, NEW v, At(s, i, v)
  PROVE  At(s \o t, i, v) /\ At(t \o s, Len(t) + i, v)
<1>1. s \in Seq(Int) /\ i \in 1 .. Len(s) /\ s[i] = v /\ Len(s) \in Nat /\ Len(t) \in Nat
  BY DEF At
<1>2. /\ s \o t \in Seq(Int) /\ Len(s \o t) = Len(s) + Len(t)
      /\ t \o s \in Seq(Int) /\ Len(t \o s) = Len(t) + Len(s)
  BY <1>1, ConcatProperties
<1>3. (s \o t)[i] = s[i]
  BY <1>1, ConcatProperties
<1>4. (t \o s)[Len(t) + i] = s[i]
  BY <1>1, ConcatProperties
<1> QED
  BY <1>1, <1>2, <1>3, <1>4 DEF At

\* The two bytes of a word.
LEMMA WordType == ASSUME NEW n \in Nat PROVE Word(n) \in Seq(Int) /\ Len(Word(n)) = 2
BY DEF Word

\* A descriptor begins with its length and its type; its fields follow.
LEMMA SizedFacts ==
  ASSUME NEW type \in Int, NEW fields \in Seq(Int)
  PROVE  /\ Sized(type, fields)[1] = Len(Sized(type, fields))
         /\ \A i \in Int, v \in Int : At(fields, i, v) => At(Sized(type, fields), 2 + i, v)
<1> DEFINE front == <<Len(fields) + 2, type>>
<1>1. /\ front \in Seq(Int) /\ Len(front) = 2 /\ At(front, 1, Len(fields) + 2)
      /\ Len(fields) \in Nat
  BY DEF At
<1>2. Sized(type, fields) = front \o fields
  BY DEF Sized
<1> HIDE DEF front
<1>3. Len(front \o fields) = Len(fields) + 2
  <2>1. Len(front \o fields) = Len(front) + Len(fields)
    BY <1>1, ConcatProperties, Zenon
  <2> QED
    BY <1>1, <2>1
<1>4. At(front \o fields, 1, Len(fields) + 2)
  BY <1>1, AtFacts
<1>5. (front \o fields)[1] = Len(front \o fields)
  BY <1>3, <1>4 DEF At
<1>6. ASSUME NEW i \in Int, NEW v \in Int, At(fields, i, v)
      PROVE At(front \o fields, 2 + i, v)
  BY <1>1, <1>6, AtFacts
<1> QED
  <2>1. Sized(type, fields)[1] = Len(Sized(type, fields))
    BY <1>2, <1>5
  <2>2. \A i \in Int, v \in Int : At(fields, i, v) => At(Sized(type, fields), 2 + i, v)
    BY <1>2, <1>6
  <2> QED
    BY <2>1, <2>2

\* The device descriptor names the packet size of endpoint 0.
LEMMA PacketSizeNamed == DevDescr[8] = EP0_SIZE
<1> DEFINE version == Word(272)
           packet  == <<0, 0, 0, EP0_SIZE>>
           vendor  == Word(16969)
           product == Word(17031)
           release == Word(256)
           rest    == <<1, 2, 0, 1>>
           fields  == version \o packet \o vendor \o product \o release \o rest
<1>1. {version, vendor, product, release, rest} \subseteq Seq(Int) /\ Len(version) = 2
  BY WordType
<1>2. At(packet, 4, EP0_SIZE)
  BY DEF EP0_SIZE, At
<1>3. DevDescr = Sized(1, fields)
  BY DEF DevDescr
<1> HIDE DEF version, packet, vendor, product, release, rest
<1>4. At(version \o packet, 6, EP0_SIZE)
  <2>1. At(version \o packet, Len(version) + 4, EP0_SIZE)
    <3>1. version \in Seq(Int) /\ 4 \in Int
      BY <1>1
    <3> QED
      BY <1>2, <3>1, AtFacts, Zenon
  <2>2. Len(version) + 4 = 6
    BY <1>1
  <2> QED
    BY <2>1, <2>2
<1>5. At(version \o packet \o vendor, 6, EP0_SIZE)
  BY <1>1, <1>4, AtFacts
<1>6. At(version \o packet \o vendor \o product, 6, EP0_SIZE)
  BY <1>1, <1>5, AtFacts
<1>7. At(version \o packet \o vendor \o product \o release, 6, EP0_SIZE)
  BY <1>1, <1>6, AtFacts
<1>8. At(fields, 6, EP0_SIZE)
  BY <1>1, <1>7, AtFacts
<1> HIDE DEF fields
<1>9. At(Sized(1, fields), 2 + 6, EP0_SIZE)
  BY <1>8, SizedFacts DEF At
<1> QED
  BY <1>3, <1>9 DEF At

\* A text says its own length.
LEMMA TextSize == ASSUME NEW n \in Nat PROVE Text(n)[1] = Len(Text(n))
<1>1. [c \in 1 .. 2 * n |-> 0] \in Seq(Int)
  OBVIOUS
<1> QED
  BY <1>1, SizedFacts DEF Text

\* The device descriptor and the texts pass their checks; those of the configuration
\* and of the reports are computed by recursion, and TLC evaluates them.
LEMMA AllAgree ==
  ASSUME OfDevice, \A d \in {"CONFIG", "KEYBOARD", "RAW"} : Agrees[d]
  PROVE  \A d \in Descrs : Agrees[d]
<1>1. Descrs = {"DEVICE", "CONFIG", "KEYBOARD", "RAW", "LANG", "MANUF", "PROD", "INTERF"}
  BY DEF OfDevice, Table
<1>2. Agrees["DEVICE"]
  <2>1. Agrees["DEVICE"] = (Table["DEVICE"][8] = Packet)
    BY <1>1 DEF Agrees
  <2>2. Table["DEVICE"] = DevDescr /\ Packet = EP0_SIZE
    BY DEF OfDevice, Table
  <2> QED
    BY <2>1, <2>2, PacketSizeNamed
<1>3. ASSUME NEW d \in {"LANG", "MANUF", "PROD", "INTERF"} PROVE Agrees[d]
  <2>1. Agrees[d] = (Table[d][1] = Len(Table[d]))
    BY <1>1 DEF Agrees
  <2>2. \E n \in Nat : Table[d] = Text(n)
    BY DEF Table
  <2> QED
    BY <2>1, <2>2, TextSize
<1> QED
  BY <1>1, <1>2, <1>3

\* For every set of requests, with the descriptors of the device: a host that has read
\* one in full has read the one it meant, and it agrees with what the firmware sends
\* and takes, through losses, abandoned transfers and resets (DriverAgrees;
\* usb_handler.c:61-134, 308-315; usb_descr.c:13-206).
THEOREM DriverUnderstands ==
  ASSUME OfDevice, \A d \in {"CONFIG", "KEYBOARD", "RAW"} : Agrees[d]
  PROVE  Spec => []DriverAgrees
<1>1. IInv => DriverAgrees
  <2> SUFFICES ASSUME IInv, stage = "statusOut", Known, asked.req = "GET_DESCRIPTOR",
                      received # <<>>
               PROVE  received[1].of = Meant[asked.of] /\ Agrees[received[1].of]
    BY DEF DriverAgrees
  <2>1. asked \in Requests /\ received \in Seq(Run)
    BY DEF IInv, TypeOK, TransferType
  <2>2. asked.of \in Asked /\ Meant[asked.of] # Unknown
    BY <2>1, RequestFacts DEF Known
  <2>3. Chosen = Meant[asked.of]
    BY <2>2, ChoiceRight DEF Chosen
  <2>4. Chosen \in Descrs
    BY DEF IInv, EndInv
  <2>5. 1 \in DOMAIN received
    BY <2>1
  <2>6. received[1].of = Chosen
    BY <2>5 DEF IInv, ReceivedInv
  <2> QED
    BY <2>3, <2>4, <2>6, AllAgree
<1> QED
  BY <1>1, Invariance, PTL
=============================================================================
