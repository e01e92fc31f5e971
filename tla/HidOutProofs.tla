---------------------------- MODULE HidOutProofs ----------------------------
(***************************************************************************)
(* Proofs about HidOut, for every packet size, counter width, set of       *)
(* packet lengths and number of packets, with and without faults: type     *)
(* correctness (TypeOK), no packet taken in twice or out of order          *)
(* (TakenInOnce), nothing the host believes delivered is missing           *)
(* (HostBeliefTrue), and the reader carries out exactly the packets taken  *)
(* in (ReaderExact, NothingForgotten).                                     *)
(***************************************************************************)
EXTENDS HidOut, SequenceTheorems, TLAPS

(* The endpoint's side: toggles, packet numbers and the transfer pending.  *)

\* A packet the interrupt handler is about to take in.
Arriving == token = "OUT" /\ togOK /\ rxLen = Size

\* The packet whose bytes are at the front of the buffer.
Front == buffer[0][1]

\* The pending transfer's bytes are those of one packet.
TransferInv == token = "OUT" /\ rxLen # 0 =>
                 /\ Front \in Ids
                 /\ \A i \in 0 .. rxLen - 1 : buffer[i] = Byte(Front, i)

\* The host's packet, its configuration, and the toggles after a fault.
HostInv == /\ hLen # NoPacket => id \in Ids /\ configured
           /\ busReset => ~configured
           /\ ~configured /\ ~busReset => rTog = 0
           /\ rRes = "STALL" => rTog = 0
           /\ token = "CLEAR" /\ configured => hTog = 0
           /\ token = "OUT" => rRes = "ACK"

\* Packet k cannot be taken in again: the host is past it, or repeats it with the
\* toggle the endpoint no longer expects.
Past(k) == k < id \/ (k = id /\ hLen # NoPacket /\ hTog # rTog)

OrderInv ==
  /\ TakenInOnce
  /\ \A n \in DOMAIN accepted : /\ Past(accepted[n])
                                /\ token \in {"CLEAR", "SET"} => accepted[n] < id
                                /\ Arriving => accepted[n] < Front
  /\ Arriving => Past(Front)

Taken(k) == (\E n \in DOMAIN accepted : accepted[n] = k) \/ (Arriving /\ Front = k)

\* A toggle the endpoint does not expect means that the host repeats a packet which
\* was taken in, unless a halt is set or about to be.
BeliefInv ==
  ~desynced =>
    /\ \A k \in sent : Taken(k)
    /\ configured /\ token # "SET" /\ token # "CLEAR" /\ rRes # "STALL" /\ hTog # rTog =>
         /\ hLen # NoPacket
         /\ hLen = Size => Taken(id)

EndpointInv == TransferInv /\ HostInv /\ OrderInv /\ BeliefInv

\* The packet read never outgrows CONTROL_PACKET_SIZE.
LoopInv == /\ pc \in {"test", "fetch"} /\ ~draining => Len(packet) < Size
           /\ pc = "check" => ~draining

-----------------------------------------------------------------------------
(* The reader's side.                                                      *)

AtRest == pc \in {"poll", "check"}

\* A command packet is in the buffer, or the main program is reading it.
Unread == IF AtRest THEN count = Size ELSE ~draining

\* The packet taken in last, and the one the main program carries out next.
Newest == accepted[Len(accepted)]
Oldest == accepted[Len(dispatched) + 1]

\* The next packet waits, or arrives with the toggle expected and is seen to cut in.
Guarded == rRes # "ACK" \/ (rTog = 0 /\ (configured => hTog = 0))

\* What it has read is the front of the newest packet.
BytesRead == \A i \in 1 .. Len(packet) : packet[i] = Byte(Newest, i - 1)

\* Where in the packet the main program is, at each step of HID_read.
Position ==
  /\ pc \in {"loop", "test", "fetch", "last", "accept"} =>
       point = Len(packet) /\ count + Len(packet) = Size
  /\ pc \in {"loadPoint", "storePoint"} =>
       point = Len(packet) - 1 /\ count + Len(packet) = Size + 1
  /\ pc \in {"loadCount", "storeCount"} =>
       point = Len(packet) /\ count + Len(packet) = Size + 1
  /\ pc = "storePoint" => reg = point
  /\ pc = "storeCount" => reg = count
  /\ pc \in {"accept", "ackCount"} => count = 0
  /\ pc \in {"ackCount", "ackPoint", "ack"} => Len(packet) = Size

\* The packets taken in are those carried out, in order, the one the main program is
\* about to carry out, and the one in the buffer.
LedgerInv ==
  /\ Len(accepted) = Len(dispatched) + (IF pc = "check" THEN 1 ELSE 0)
                                     + (IF Unread THEN 1 ELSE 0)
  /\ \A n \in DOMAIN dispatched : dispatched[n] = Whole(accepted[n])
  /\ pc = "check" => packet = Whole(Oldest)

\* A packet in the buffer stays there until it is read.
BufferInv ==
  /\ token = "OUT" /\ togOK => AtRest /\ count = 0
  /\ Unread /\ count # 0 =>
       Guarded /\ \A i \in 0 .. Size - 1 : buffer[i] = Byte(Newest, i)
  /\ AtRest /\ count = Size => point = 0
  /\ pc \in {"ackPoint", "ack"} => count = 0

\* As long as nothing cut in.
ReaderInv == ~cutIn => /\ LedgerInv
                       /\ BufferInv
                       /\ ~AtRest /\ ~draining => BytesRead /\ Position

IInv == TypeOK /\ LoopInv /\ EndpointInv /\ ReaderInv
-----------------------------------------------------------------------------
(* Facts about the data.                                                   *)

\* A value of the counter stays one, and a small one is not wrapped.
LEMMA WrapFits == ASSUME NEW r \in Int PROVE r % Wrap \in 0 .. Wrap - 1
BY SizeAssumption

\* A number below the width is itself.
LEMMA NotWrapped == ASSUME NEW r \in 0 .. Wrap - 1 PROVE r % Wrap = r
BY SizeAssumption

\* Size bytes read in order are the whole packet.
LEMMA WholePacket ==
  ASSUME NEW k, NEW p \in Seq(Bytes), Len(p) = Size, \A i \in 1 .. Size : p[i] = Byte(k, i - 1)
  PROVE  p = Whole(k)
BY DEF Whole

\* The bytes of packets, and the byte of none.
LEMMA BytesAreBytes == NoByte \in Bytes /\ \A k \in Ids, i \in 0 .. Size - 1 : Byte(k, i) \in Bytes
BY DEF Bytes

\* A byte the main program gets is a byte.
LEMMA FetchedByte ==
  ASSUME SieType
  PROVE  (IF point \in DOMAIN buffer THEN buffer[point] ELSE NoByte) \in Bytes
BY BytesAreBytes DEF SieType

-----------------------------------------------------------------------------
(* Type correctness.                                                       *)

\* Initially nothing was sent and nothing is being read.
LEMMA InitInv == Init => IInv
<1> SUFFICES ASSUME Init PROVE IInv
  OBVIOUS
<1> USE SizeAssumption DEF Init
<1>1. TypeOK /\ LoopInv
  <2>1. /\ draining \in BOOLEAN /\ togOK \in BOOLEAN /\ busReset \in BOOLEAN
        /\ configured \in BOOLEAN /\ cutIn \in BOOLEAN /\ desynced \in BOOLEAN
    BY Zenon
  <2>2. MainType /\ SharedType /\ LoopInv
    BY <2>1 DEF MainType, SharedType, LoopInv
  <2>3. SieType /\ HostType /\ PastType
    BY <2>1, BytesAreBytes DEF SieType, HostType, PastType
  <2> QED
    BY <2>2, <2>3 DEF TypeOK
<1>2. EndpointInv
  BY DEF EndpointInv, TransferInv, HostInv, OrderInv, BeliefInv, TakenInOnce, Arriving,
         Past, Taken, NoPacket
<1>3. ReaderInv
  BY DEF ReaderInv, LedgerInv, BufferInv, Unread, AtRest
<1> QED
  BY <1>1, <1>2, <1>3 DEF IInv

\* What a step leaves alone keeps its type.
LEMMA Frames ==
  ASSUME TypeOK
  PROVE  /\ UNCHANGED mainVars => MainType'
         /\ UNCHANGED shared => SharedType'
         /\ UNCHANGED sieVars => SieType'
         /\ UNCHANGED hostVars => HostType'
         /\ UNCHANGED history => PastType'
<1> USE DEF TypeOK
<1>1. UNCHANGED mainVars => MainType'
  BY DEF mainVars, MainType
<1>2. UNCHANGED shared => SharedType'
  BY DEF shared, SharedType
<1>3. UNCHANGED sieVars => SieType'
  BY DEF sieVars, SieType
<1>4. UNCHANGED hostVars => HostType'
  BY DEF hostVars, HostType
<1>5. UNCHANGED history => PastType'
  BY DEF history, PastType
<1> QED
  BY <1>1, <1>2, <1>3, <1>4, <1>5

\* The pointer and the count, moved on by one, stay numbers of their width.
LEMMA NextFits ==
  ASSUME TypeOK
  PROVE  NextPoint \in 0 .. Wrap - 1 /\ NextCount \in 0 .. Wrap - 1
<1>1. reg + 1 \in Int /\ reg - 1 \in Int
  <2>1. reg \in 0 .. Wrap - 1
    BY DEF TypeOK, MainType
  <2> QED
    BY <2>1, SizeAssumption
<1>2. (reg + 1) % Wrap \in 0 .. Wrap - 1
  BY <1>1, WrapFits, Zenon
<1>3. (reg - 1) % Wrap \in 0 .. Wrap - 1
  BY <1>1, WrapFits, Zenon
<1> QED
  BY <1>2, <1>3, Zenon DEF NextPoint, NextCount

\* The main program keeps the types (HID_read, HID_ack, CONTROL_handleUSB).
LEMMA MainTypeStep ==
  ASSUME TypeOK, LoopInv, Main
  PROVE  TypeOK' /\ LoopInv'
<1> USE SizeAssumption DEF Step
<1>1. CASE ~Dispatch
  <2>1. /\ SieType' /\ HostType'
        /\ UNCHANGED <<sent, accepted, dispatched, cutIn>> /\ desynced' \in BOOLEAN
    BY <1>1, Frames
       DEF Main, TypeOK, PastType, TakeAgain, history, Poll, LoopNext, LoopDone, ReadNothing, ReadTest, ReadFetch, LoadPoint,
           StorePoint, LoadCount, StoreCount, ReadMore, ReadLast, ReadAccept, AckCount,
           AckPoint, Ack, mainOnly
  <2> SUFFICES MainType' /\ SharedType' /\ LoopInv'
    BY <2>1 DEF TypeOK, PastType
  <2> USE DEF TypeOK, MainType, SharedType, LoopInv, shared
  <2>2. CASE Poll
    BY <2>2 DEF Poll, WrongSize
  <2>3. CASE LoopNext \/ LoopDone
    BY <2>3 DEF LoopNext, LoopDone
  <2>4. CASE ReadNothing
    BY <2>4, BytesAreBytes DEF ReadNothing, Got
  <2>5. CASE ReadTest \/ ReadMore \/ ReadLast
    BY <2>5 DEF ReadTest, ReadMore, ReadLast
  <2>6. CASE ReadFetch
    <3> DEFINE byte == IF point \in DOMAIN buffer THEN buffer[point] ELSE NoByte
    <3>1. byte \in Bytes
      BY FetchedByte
    <3>2. /\ pc = "fetch" /\ pc' = "loadPoint" /\ UNCHANGED <<draining, reg, shared>>
          /\ packet' = IF draining THEN packet ELSE Append(packet, byte)
      BY <2>6 DEF ReadFetch, Got
    <3> HIDE DEF byte
    <3> QED
      BY <3>1, <3>2
  <2>7. CASE LoadPoint \/ LoadCount \/ ReadAccept
    BY <2>7 DEF LoadPoint, LoadCount, ReadAccept, TakeAgain
  <2>8. CASE StorePoint
    BY <2>8, NextFits DEF StorePoint
  <2>9. CASE StoreCount
    BY <2>9, NextFits DEF StoreCount
  <2>10. CASE AckCount \/ AckPoint \/ Ack
    <3>1. MainType' /\ LoopInv'
      BY <2>10 DEF AckCount, AckPoint, Ack, AfterAck
    <3>2. SharedType'
      BY <2>10 DEF AckCount, AckPoint, Ack, TakeAgain
    <3> QED
      BY <3>1, <3>2
  <2> QED
    BY <1>1, <2>2, <2>3, <2>4, <2>5, <2>6, <2>7, <2>8, <2>9, <2>10 DEF Main
<1>2. CASE Dispatch
  <2>1. SharedType' /\ SieType' /\ HostType'
    BY <1>2, Frames DEF Dispatch
  <2>2. MainType' /\ LoopInv'
    BY <1>2 DEF Dispatch, TypeOK, MainType, LoopInv
  <2>3. PastType'
    <3>1. Append(dispatched, packet) \in Seq(Seq(Bytes))
      BY AppendProperties, Zenon DEF TypeOK, MainType, PastType
    <3> QED
      BY <1>2, <3>1 DEF Dispatch, TypeOK, PastType
  <2> QED
    BY <2>1, <2>2, <2>3 DEF TypeOK
<1> QED
  BY <1>1, <1>2

\* The interrupt keeps the types (HID_EP2_OUT, HID_reset, the control requests).
LEMMA InterruptType ==
  ASSUME TypeOK, LoopInv, TransferInv, USB_interrupt
  PROVE  TypeOK' /\ LoopInv'
<1> USE SizeAssumption
<1>1. MainType' /\ LoopInv' /\ HostType'
  BY Frames DEF USB_interrupt, HID_EP2_OUT, USB_EP0_SETUP, USB_EP0_copyDescr, HID_reset,
                LoopInv, mainVars
<1> SUFFICES SharedType' /\ SieType' /\ PastType'
  BY <1>1 DEF TypeOK
<1>2. CASE HID_EP2_OUT
  <2>1. SieType'
    <3>1. 0 \in 0 .. Size
      OBVIOUS
    <3> QED
      BY <1>2, <3>1 DEF HID_EP2_OUT, TypeOK, SieType
  <2>2. CASE TakeIn
    <3>1. rxLen = Size => Front \in Ids
      BY <1>2 DEF HID_EP2_OUT, TransferInv
    <3>2. accepted' \in Seq(Ids)
      BY <2>2, <3>1 DEF TakeIn, Front, TypeOK, PastType
    <3> QED
      BY <2>1, <2>2, <3>2 DEF TakeIn, TypeOK, SharedType, SieType, PastType
  <2>3. CASE UNCHANGED <<shared, history>>
    BY <2>1, <2>3, Frames
  <2> QED
    BY <1>2, <2>2, <2>3 DEF HID_EP2_OUT
<1>3. CASE USB_EP0_SETUP
  <2>1. PastType'
    BY <1>3, Frames DEF USB_EP0_SETUP
  <2> QED
    BY <1>3, <2>1 DEF USB_EP0_SETUP, TypeOK, SharedType, SieType
<1>4. CASE USB_EP0_copyDescr
  <2>1. SharedType'
    BY <1>4, Frames DEF USB_EP0_copyDescr
  <2>2. SieType'
    BY <1>4, BytesAreBytes DEF USB_EP0_copyDescr, TypeOK, SieType
  <2>3. PastType'
    BY <1>4 DEF USB_EP0_copyDescr, Overwrites, Reading, TypeOK, PastType
  <2> QED
    BY <2>1, <2>2, <2>3
<1>5. CASE HID_reset
  <2>1. PastType'
    BY <1>5, Frames DEF HID_reset
  <2>2. SharedType'
    BY <1>5 DEF HID_reset, TypeOK, SharedType
  <2>3. SieType'
    <3>1. busReset' \in BOOLEAN
      BY <1>5, Zenon DEF HID_reset
    <3> QED
      BY <1>5, <3>1 DEF HID_reset, TogAfterReset, TypeOK, SieType
  <2> QED
    BY <2>1, <2>2, <2>3
<1> QED
  BY <1>2, <1>3, <1>4, <1>5 DEF USB_interrupt

\* What the host and the serial interface engine do.
HostStep == \/ \E n \in Lengths : HostStart(n)
            \/ \E lost \in BOOLEAN : OutTransaction(lost)
            \/ \E req \in Halts : HostHalt(req)
            \/ HostDescriptor \/ BusReset \/ SetConfiguration

\* A packet the host gives up on is the last with its number.
LEMMA AbandonType ==
  ASSUME TypeOK, HostInv, Abandon
  PROVE  id' \in 1 .. MaxPackets + 1 /\ hLen' \in {NoPacket} \cup 0 .. Size
BY SizeAssumption DEF TypeOK, HostType, HostInv, Abandon, Ids

\* The host keeps the types.
LEMMA HostTypeStep ==
  ASSUME TypeOK, LoopInv, HostInv, HostStep
  PROVE  TypeOK' /\ LoopInv'
<1> USE SizeAssumption
<1>1. MainType' /\ SharedType' /\ LoopInv'
  BY Frames DEF HostStep, HostStart, OutTransaction, HostHalt, HostDescriptor, BusReset,
                SetConfiguration, LoopInv, mainVars
<1> SUFFICES SieType' /\ HostType' /\ PastType'
  BY <1>1 DEF TypeOK
<1>2. ASSUME NEW n \in Lengths, HostStart(n) PROVE SieType' /\ HostType' /\ PastType'
  <2>1. SieType' /\ PastType'
    BY <1>2, Frames DEF HostStart
  <2> QED
    BY <1>2, <2>1, LengthsAssumption DEF HostStart, TypeOK, HostType
<1>3. ASSUME NEW lost \in BOOLEAN, OutTransaction(lost)
      PROVE  SieType' /\ HostType' /\ PastType'
  <2>1. hLen \in 0 .. Size /\ id \in Ids
    BY <1>3 DEF OutTransaction, HostInv, TypeOK, HostType
  <2>2. \A i \in 0 .. Size - 1 : Byte(id, i) \in Bytes
    BY <2>1, BytesAreBytes
  <2>3. buffer' \in [0 .. Size - 1 -> Bytes]
    BY <1>3, <2>2 DEF OutTransaction, TypeOK, SieType
  <2>4. SieType'
    BY <1>3, <2>1, <2>3 DEF OutTransaction, TypeOK, SieType
  <2>5. HostType'
    BY <1>3, <2>1 DEF OutTransaction, HostDone, TypeOK, HostType, Ids
  <2>6. PastType'
    BY <1>3, <2>1 DEF OutTransaction, HostDone, Overwrites, Reading, TypeOK, PastType
  <2> QED
    BY <2>4, <2>5, <2>6
<1>4. ASSUME NEW req \in Halts, HostHalt(req) PROVE SieType' /\ HostType' /\ PastType'
  <2>1. PastType'
    BY <1>4, Frames DEF HostHalt
  <2>2. HostType'
    BY <1>4, AbandonType DEF HostHalt, TypeOK, HostType
  <2> QED
    BY <1>4, <2>1, <2>2, FaultsAssumption DEF HostHalt, TypeOK, SieType
<1>5. CASE HostDescriptor
  <2>1. HostType' /\ PastType'
    BY <1>5, Frames DEF HostDescriptor
  <2> QED
    BY <1>5, <2>1 DEF HostDescriptor, TypeOK, SieType
<1>6. CASE BusReset
  <2>1. PastType'
    BY <1>6, Frames DEF BusReset
  <2>2. HostType'
    BY <1>6, AbandonType DEF BusReset, TypeOK, HostType
  <2> QED
    BY <1>6, <2>1, <2>2 DEF BusReset, TypeOK, SieType
<1>7. CASE SetConfiguration
  <2>1. SieType'
    BY <1>7, Frames DEF SetConfiguration
  <2>2. HostType'
    BY <1>7, AbandonType DEF SetConfiguration, TypeOK, HostType
  <2> QED
    BY <1>7, <2>1, <2>2 DEF SetConfiguration, TypeOK, PastType
<1> QED
  BY <1>2, <1>3, <1>4, <1>5, <1>6, <1>7 DEF HostStep

-----------------------------------------------------------------------------
(* The endpoint's side of the invariant.                                   *)

\* The main program changes nothing it depends on.
LEMMA MainEndpoint ==
  ASSUME EndpointInv, Main
  PROVE  EndpointInv'
<1> USE DEF EndpointInv
<1>1. UNCHANGED <<rTog, buffer, token, togOK, rxLen, busReset>>
      /\ UNCHANGED <<configured, hTog, id, hLen, sent, accepted>>
  BY DEF Main, Poll, LoopNext, LoopDone, ReadNothing, ReadTest, ReadFetch, LoadPoint,
         StorePoint, LoadCount, StoreCount, ReadMore, ReadLast, ReadAccept, AckCount,
         AckPoint, Ack, TakeAgain, Dispatch, mainOnly, sieVars, hostVars, history
<1>2. TransferInv' /\ OrderInv'
  BY <1>1 DEF TransferInv, OrderInv, TakenInOnce, Arriving, Past, Front
<1>3. \/ rRes' = rRes /\ desynced' = desynced
      \/ /\ rRes' = "ACK"
         /\ desynced' = (desynced \/ (configured /\ rRes = "STALL" /\ hTog # rTog))
  BY DEF Main, Poll, LoopNext, LoopDone, ReadNothing, ReadTest, ReadFetch, LoadPoint,
         StorePoint, LoadCount, StoreCount, ReadMore, ReadLast, ReadAccept, AckCount,
         AckPoint, Ack, TakeAgain, Dispatch, mainOnly, history, shared
<1>4. HostInv'
  BY <1>1, <1>3 DEF HostInv
<1>5. \A k : Taken(k)' = Taken(k)
  BY <1>1 DEF Taken, Arriving, Front
<1>6. BeliefInv'
  BY <1>1, <1>3, <1>5 DEF BeliefInv
<1> QED
  BY <1>2, <1>4, <1>6

\* The interrupt takes in only packets it did not take in before.
LEMMA InterruptEndpoint ==
  ASSUME TypeOK, EndpointInv, USB_interrupt
  PROVE  EndpointInv'
<1> USE SizeAssumption DEF EndpointInv
<1>1. CASE HID_EP2_OUT /\ TogOK /\ TakeIn
  <2>1. /\ token = "OUT" /\ togOK /\ token' = "none"
        /\ UNCHANGED <<rTog, buffer, busReset, hostVars, sent, desynced>>
    BY <1>1 DEF HID_EP2_OUT, TogOK, TakeIn
  <2>2. Arriving <=> rxLen = Size
    BY <2>1 DEF Arriving
  <2>3. accepted' = IF Arriving THEN Append(accepted, Front) ELSE accepted
    BY <1>1, <2>2 DEF TakeIn, Front
  <2>4. ~Arriving' /\ Front' = Front
    BY <2>1 DEF Arriving, Front
  <2>5. TransferInv' /\ HostInv'
    BY <1>1, <2>1 DEF TakeIn, TransferInv, HostInv, hostVars
  <2>6. \A k : Past(k)' = Past(k)
    BY <2>1 DEF Past, hostVars
  <2>7. OrderInv'
    <3>1. CASE Arriving
      <4>1. /\ Len(accepted') = Len(accepted) + 1 /\ accepted'[Len(accepted) + 1] = Front
            /\ \A n \in DOMAIN accepted : accepted'[n] = accepted[n]
            /\ DOMAIN accepted = 1 .. Len(accepted) /\ Len(accepted) \in Nat
            /\ DOMAIN accepted' = 1 .. Len(accepted) + 1
        BY <2>3, <3>1 DEF TypeOK, PastType
      <4>2. TakenInOnce'
        BY <3>1, <4>1 DEF OrderInv, TakenInOnce
      <4>3. \A n \in DOMAIN accepted' : Past(accepted'[n])
        BY <3>1, <4>1 DEF OrderInv
      <4> QED
        BY <2>1, <2>4, <2>6, <4>2, <4>3 DEF OrderInv
    <3>2. CASE ~Arriving
      BY <2>1, <2>3, <2>4, <2>6, <3>2 DEF OrderInv, TakenInOnce
    <3> QED
      BY <3>1, <3>2
  <2>8. \A k : Taken(k) => Taken(k)'
    <3> SUFFICES ASSUME NEW k, Taken(k) PROVE \E n \in DOMAIN accepted' : accepted'[n] = k
      BY DEF Taken
    <3>1. CASE Arriving /\ Front = k
      <4>1. accepted' = Append(accepted, k) /\ accepted \in Seq(Ids)
        BY <2>3, <3>1 DEF TypeOK, PastType
      <4>2. Len(accepted') \in DOMAIN accepted' /\ accepted'[Len(accepted')] = k
        BY <4>1
      <4> QED
        BY <4>2
    <3>2. ASSUME NEW n \in DOMAIN accepted, accepted[n] = k
          PROVE  \E m \in DOMAIN accepted' : accepted'[m] = k
      <4>1. n \in DOMAIN accepted' /\ accepted'[n] = k
        BY <2>3, <3>2 DEF TypeOK, PastType
      <4> QED
        BY <4>1
    <3> QED
      BY <3>1, <3>2 DEF Taken
  <2>9. BeliefInv'
    <3>1. rRes # "STALL"
      BY <2>1 DEF HostInv
    <3> QED
      BY <2>1, <2>8, <3>1 DEF BeliefInv, hostVars
  <2> QED
    BY <2>5, <2>7, <2>9
<1>2. CASE HID_EP2_OUT /\ ~TogOK /\ UNCHANGED <<shared, history>>
  BY <1>2 DEF HID_EP2_OUT, TogOK, TransferInv, HostInv, OrderInv, BeliefInv, TakenInOnce,
              Arriving, Past, Taken, Front, shared, hostVars, history
<1>3. CASE USB_EP0_SETUP
  BY <1>3 DEF USB_EP0_SETUP, TransferInv, HostInv, OrderInv, BeliefInv, TakenInOnce,
              Arriving, Past, Taken, Front, TypeOK, SieType, hostVars, history
<1>4. CASE USB_EP0_copyDescr
  BY <1>4 DEF USB_EP0_copyDescr, TransferInv, HostInv, OrderInv, BeliefInv, TakenInOnce,
              Arriving, Past, Taken, Front, shared, hostVars
<1>5. CASE HID_reset
  BY <1>5 DEF HID_reset, TogAfterReset, TransferInv, HostInv, OrderInv, BeliefInv,
              TakenInOnce, Arriving, Past, Taken, Front, hostVars, history
<1> QED
  BY <1>1, <1>2, <1>3, <1>4, <1>5 DEF USB_interrupt, HID_EP2_OUT
\* Packets are numbered.
LEMMA AcceptedInt ==
  ASSUME TypeOK
  PROVE  \A n \in DOMAIN accepted : accepted[n] \in Int
<1>1. accepted \in Seq(Ids)
  BY DEF TypeOK, PastType
<1>2. Ids \subseteq Int
  BY SizeAssumption DEF Ids
<1>3. \A n \in DOMAIN accepted : accepted[n] \in Ids
  BY <1>1, ElementOfSeq
<1> QED
  BY <1>2, <1>3

\* The host gives up its packet: what was taken in stays past.
LEMMA AbandonPast ==
  ASSUME TypeOK, TransferInv, OrderInv, Abandon
  PROVE  /\ id' \in Int /\ id \in Int /\ hLen' = NoPacket
         /\ \A n \in DOMAIN accepted : accepted[n] \in Int /\ accepted[n] < id'
         /\ Arriving => Front < id'
<1>1. id \in Int /\ id' = IF hLen = NoPacket THEN id ELSE id + 1
  BY DEF TypeOK, HostType, Abandon
<1>2. \A n \in DOMAIN accepted : accepted[n] \in Int
  BY AcceptedInt
<1>3. Arriving => Front \in Int
  BY SizeAssumption DEF Arriving, TransferInv, Ids
<1>4. \A k \in Int : Past(k) => k < id'
  BY <1>1 DEF Past
<1> QED
  BY <1>1, <1>2, <1>3, <1>4 DEF OrderInv, Abandon

\* A transaction brings the bytes of the host's packet, with the host's toggle.
LEMMA OutEndpoint ==
  ASSUME TypeOK, EndpointInv, NEW lost \in BOOLEAN, OutTransaction(lost)
  PROVE  EndpointInv'
<1> USE SizeAssumption DEF EndpointInv
<1>1. /\ configured /\ token = "none" /\ ~busReset /\ hLen # NoPacket
      /\ token' = "OUT" /\ rxLen' = hLen /\ togOK' = (hTog = rTog)
      /\ rTog' = IF hTog = rTog THEN 1 - rTog ELSE rTog
      /\ UNCHANGED <<configured, busReset, accepted, desynced>>
      /\ rRes = "ACK" /\ rRes' = rRes
  BY DEF OutTransaction, Quiet, shared
<1>2. /\ id \in Ids /\ id \in Int /\ hLen \in 0 .. Size /\ hTog \in 0 .. 1 /\ rTog \in 0 .. 1
      /\ NoPacket \notin 0 .. Size
  BY <1>1 DEF HostInv, TypeOK, HostType, SieType, NoPacket, Ids
<1>3. \A i \in 0 .. hLen - 1 : buffer'[i] = Byte(id, i)
  BY <1>2 DEF OutTransaction, TypeOK, SieType
<1>4. hLen # 0 => Front' = id
  BY <1>2, <1>3 DEF Front, Byte
<1>5. ~Arriving /\ (Arriving' <=> hTog = rTog /\ hLen = Size)
  BY <1>1 DEF Arriving
<1>6. IF lost THEN UNCHANGED <<hLen, id, hTog, sent>> ELSE HostDone
  BY DEF OutTransaction
<1>7. TransferInv'
  BY <1>1, <1>2, <1>3, <1>4 DEF TransferInv
<1>8. HostInv'
  BY <1>1, <1>2, <1>6 DEF HostInv, HostDone
<1>9. \A n \in DOMAIN accepted : accepted[n] \in Int
  BY AcceptedInt
<1>10. OrderInv'
  <2>1. TakenInOnce'
    BY <1>1 DEF OrderInv, TakenInOnce
  <2>2. ASSUME NEW n \in DOMAIN accepted
        PROVE  Past(accepted[n])' /\ (hTog = rTog => accepted[n] < id)
    <3>1. Past(accepted[n]) /\ accepted[n] \in Int /\ accepted'[n] = accepted[n]
      BY <1>1, <1>9 DEF OrderInv
    <3>2. accepted[n] < id \/ (accepted[n] = id /\ hTog # rTog)
      BY <3>1 DEF Past
    <3> QED
      BY <1>1, <1>2, <1>6, <3>1, <3>2 DEF Past, HostDone
  <2>3. Arriving' => Past(Front)'
    BY <1>1, <1>2, <1>4, <1>5, <1>6 DEF Past, HostDone
  <2> QED
    BY <1>1, <1>2, <1>4, <1>5, <2>1, <2>2, <2>3 DEF OrderInv
<1>11. \A k : Taken(k) => Taken(k)'
  BY <1>1, <1>5 DEF Taken
<1>12. ASSUME ~desynced PROVE BeliefInv'
  <2>1. ASSUME NEW k, k = id, hLen = Size PROVE Taken(k)'
    <3>1. CASE hTog = rTog
      BY <1>2, <1>4, <1>5, <2>1, <3>1 DEF Taken
    <3>2. CASE hTog # rTog
      BY <1>1, <1>11, <1>12, <2>1, <3>2 DEF BeliefInv
    <3> QED
      BY <3>1, <3>2
  <2>2. ASSUME NEW k \in sent' PROVE Taken(k)'
    <3>1. k \in sent \/ (k = id /\ hLen = Size)
      BY <1>6 DEF HostDone
    <3> QED
      BY <1>11, <1>12, <2>1, <3>1 DEF BeliefInv
  <2>3. CASE lost
    <3>1. id' = id /\ hLen' = hLen
      BY <1>6, <2>3
    <3>2. hLen' = Size => Taken(id)'
      BY <2>1, <3>1 DEF Taken
    <3> QED
      BY <1>1, <1>2, <2>2, <3>1, <3>2 DEF BeliefInv
  <2>4. CASE ~lost
    <3>1. hTog' = 1 - hTog
      BY <1>6, <2>4 DEF HostDone
    <3>2. hTog' = rTog'
      BY <1>1, <1>2, <3>1
    <3> QED
      BY <2>2, <3>2 DEF BeliefInv
  <2> QED
    BY <2>3, <2>4
<1> QED
  BY <1>1, <1>7, <1>8, <1>10, <1>12 DEF BeliefInv

\* The host numbers its packets on and repeats only the last.
LEMMA HostEndpoint ==
  ASSUME TypeOK, EndpointInv, HostStep
  PROVE  EndpointInv'
<1> USE DEF EndpointInv
<1>1. ASSUME NEW n \in Lengths, HostStart(n) PROVE EndpointInv'
  <2>1. configured /\ hLen = NoPacket /\ id \in Ids /\ hLen' = n
    BY <1>1 DEF HostStart
  <2>2. UNCHANGED <<token, togOK, rxLen, buffer, busReset, rTog, configured, hTog, id, rRes>>
    BY <1>1 DEF HostStart, sieVars, shared
  <2>3. UNCHANGED <<sent, accepted, desynced>>
    BY <1>1 DEF HostStart, history
  <2>4. TransferInv' /\ HostInv'
    BY <2>1, <2>2 DEF TransferInv, HostInv, Front
  <2>5. OrderInv'
    BY <2>1, <2>2, <2>3 DEF OrderInv, TakenInOnce, Arriving, Past, Front
  <2>6. BeliefInv'
    BY <2>1, <2>2, <2>3 DEF BeliefInv, Taken, Arriving, Front
  <2> QED
    BY <2>4, <2>5, <2>6
<1>2. ASSUME NEW lost \in BOOLEAN, OutTransaction(lost) PROVE EndpointInv'
  BY <1>2, OutEndpoint
<1>3. ASSUME NEW req \in Halts, HostHalt(req) PROVE EndpointInv'
  <2>1. /\ token = "none" /\ token' \in {"CLEAR", "SET"} /\ Abandon
        /\ hTog' = IF token' = "CLEAR" THEN 0 ELSE hTog
    BY <1>3, FaultsAssumption DEF HostHalt, Quiet
  <2>2. /\ UNCHANGED <<togOK, rxLen, buffer, busReset, rTog, rRes>>
        /\ UNCHANGED <<configured, sent, accepted, desynced>>
    BY <1>3 DEF HostHalt, shared, history
  <2>3. TransferInv' /\ HostInv'
    BY <2>1, <2>2, AbandonPast DEF TransferInv, HostInv
  <2>4. OrderInv'
    BY <2>1, <2>2, AbandonPast DEF OrderInv, TakenInOnce, Arriving, Past
  <2>5. BeliefInv'
    BY <2>1, <2>2 DEF BeliefInv, Taken, Arriving, Front
  <2> QED
    BY <2>3, <2>4, <2>5
<1>4. CASE HostDescriptor
  BY <1>4 DEF HostDescriptor, Quiet, TransferInv, HostInv, OrderInv, BeliefInv, TakenInOnce,
              Arriving, Past, Taken, Front, shared, hostVars, history
<1>5. CASE BusReset
  <2>1. busReset' /\ ~configured' /\ Abandon
    BY <1>5 DEF BusReset
  <2>2. UNCHANGED <<token, togOK, rxLen, buffer, rTog, hTog, rRes, sent, accepted, desynced>>
    BY <1>5 DEF BusReset, shared, history
  <2>3. TransferInv' /\ HostInv'
    BY <2>1, <2>2, AbandonPast DEF TransferInv, HostInv, Front
  <2>4. OrderInv'
    BY <2>1, <2>2, AbandonPast DEF OrderInv, TakenInOnce, Arriving, Past, Front
  <2>5. BeliefInv'
    BY <2>1, <2>2 DEF BeliefInv, Taken, Arriving, Front
  <2> QED
    BY <2>3, <2>4, <2>5
<1>6. CASE SetConfiguration
  <2>1. /\ token = "none" /\ ~busReset /\ configured' /\ hTog' = 0 /\ Abandon
        /\ desynced' = (desynced \/ (configured /\ rTog # 0))
    BY <1>6 DEF SetConfiguration, Quiet
  <2>2. UNCHANGED <<token, togOK, rxLen, buffer, busReset, rTog, rRes, sent, accepted>>
    BY <1>6 DEF SetConfiguration, sieVars, shared
  <2>3. TransferInv' /\ HostInv'
    BY <2>1, <2>2, AbandonPast DEF TransferInv, HostInv, Front
  <2>4. OrderInv'
    BY <2>1, <2>2, AbandonPast DEF OrderInv, TakenInOnce, Arriving, Past, Front
  <2>5. BeliefInv'
    <3>1. ~desynced' => rTog' = 0
      BY <2>1, <2>2 DEF HostInv
    <3> QED
      BY <2>1, <2>2, <3>1 DEF BeliefInv, Taken, Arriving, Front
  <2> QED
    BY <2>3, <2>4, <2>5
<1> QED
  BY <1>1, <1>2, <1>3, <1>4, <1>5, <1>6 DEF HostStep

-----------------------------------------------------------------------------
(* The reader's side of the invariant.                                     *)

\* The numbers the reader's lemmas compare.
LEMMA ReaderTypes ==
  ASSUME TypeOK
  PROVE  /\ Size \in Int /\ Size > 0 /\ Wrap \in Int /\ Size < Wrap
         /\ count \in Nat /\ point \in Nat /\ reg \in Nat
         /\ packet \in Seq(Bytes) /\ Len(packet) \in Nat /\ Len(packet) <= Size
         /\ Len(accepted) \in Nat /\ Len(dispatched) \in Nat
<1>1. Size \in Int /\ Size > 0 /\ Wrap \in Int /\ Size < Wrap
  BY SizeAssumption
<1>2. count \in Nat /\ point \in Nat
  BY <1>1 DEF TypeOK, SharedType
<1>3. packet \in Seq(Bytes) /\ Len(packet) <= Size /\ reg \in 0 .. Wrap - 1
  BY DEF TypeOK, MainType
<1>4. Len(packet) \in Nat /\ reg \in Nat
  BY <1>1, <1>3, LenProperties
<1>5. Len(accepted) \in Nat /\ Len(dispatched) \in Nat
  BY LenProperties DEF TypeOK, PastType
<1> QED
  BY <1>1, <1>2, <1>3, <1>4, <1>5

\* What the main program leaves alone while it reads.
LEMMA MainFrame ==
  ASSUME Main, ~Dispatch
  PROVE  /\ UNCHANGED <<buffer, token, togOK, rTog, hTog, configured>>
         /\ UNCHANGED <<accepted, dispatched, cutIn>>
BY DEF Main, Poll, LoopNext, LoopDone, ReadNothing, ReadTest, ReadFetch, LoadPoint,
       StorePoint, LoadCount, StoreCount, ReadMore, ReadLast, ReadAccept, AckCount,
       AckPoint, Ack, TakeAgain, mainOnly, sieVars, hostVars, history

\* The steps of HID_read and HID_ack, between the guard of CONTROL_handleUSB and its
\* dispatch.
ReadStep == \/ LoopNext \/ LoopDone \/ ReadNothing \/ ReadTest \/ ReadFetch
            \/ LoadPoint \/ StorePoint \/ LoadCount \/ StoreCount
            \/ ReadMore \/ ReadLast \/ ReadAccept \/ AckCount \/ AckPoint

\* A step of HID_read keeps count, pointer and bytes read in agreement.
LEMMA PositionStep ==
  ASSUME TypeOK, LoopInv, Position, ~draining, ReadStep
  PROVE  Position'
<1>0. /\ Size \in Int /\ Size > 0 /\ Wrap \in Int /\ Size < Wrap
      /\ count \in Nat /\ point \in Nat /\ reg \in Nat
      /\ packet \in Seq(Bytes) /\ Len(packet) \in Nat /\ Len(packet) <= Size
  BY ReaderTypes
<1> USE DEF Step, Position, shared
<1>1. CASE LoopNext
  BY <1>0, <1>1 DEF LoopNext
<1>2. CASE LoopDone
  BY <1>0, <1>2 DEF LoopDone
<1>3. CASE ReadNothing
  BY <1>0, <1>3 DEF ReadNothing, LoopInv
<1>4. CASE ReadTest
  BY <1>0, <1>4 DEF ReadTest
<1>5. CASE ReadFetch
  <2>1. /\ pc = "fetch" /\ pc' = "loadPoint" /\ UNCHANGED <<count, point>>
        /\ Len(packet') = Len(packet) + 1
    BY <1>0, <1>5 DEF ReadFetch, Got
  <2> QED
    BY <1>0, <2>1
<1>6. CASE LoadPoint
  BY <1>0, <1>6 DEF LoadPoint
<1>7. CASE StorePoint
  <2>1. /\ pc' = "loadCount" /\ reg = Len(packet) - 1 /\ count + Len(packet) = Size + 1
        /\ UNCHANGED <<packet, count>>
    BY <1>7 DEF StorePoint
  <2>2. reg + 1 \in 0 .. Wrap - 1
    BY <1>0, <2>1
  <2>3. (reg + 1) % Wrap = reg + 1
    BY <2>2, NotWrapped, Zenon
  <2>4. point' = reg + 1
    BY <1>7, <2>3, Zenon DEF StorePoint, NextPoint
  <2> QED
    BY <1>0, <2>1, <2>4
<1>8. CASE LoadCount
  BY <1>0, <1>8 DEF LoadCount
<1>9. CASE StoreCount
  <2>1. /\ pc' = "last" /\ reg = count /\ count + Len(packet) = Size + 1
        /\ point = Len(packet) /\ UNCHANGED <<packet, point>>
    BY <1>9 DEF StoreCount
  <2>2. reg - 1 \in 0 .. Wrap - 1
    BY <1>0, <2>1
  <2>3. (reg - 1) % Wrap = reg - 1
    BY <2>2, NotWrapped, Zenon
  <2>4. count' = reg - 1
    BY <1>9, <2>3, Zenon DEF StoreCount, NextCount
  <2> QED
    BY <1>0, <2>1, <2>2, <2>4
<1>10. CASE ReadMore
  BY <1>10 DEF ReadMore
<1>11. CASE ReadLast
  BY <1>11 DEF ReadLast
<1>12. CASE ReadAccept
  BY <1>12 DEF ReadAccept, TakeAgain
<1>13. CASE AckCount
  BY <1>0, <1>13 DEF AckCount
<1>14. CASE AckPoint
  BY <1>0, <1>14 DEF AckPoint
<1> QED
  BY <1>1, <1>2, <1>3, <1>4, <1>5, <1>6, <1>7, <1>8, <1>9, <1>10, <1>11, <1>12, <1>13, <1>14
     DEF ReadStep

\* What the main program reads next is the next byte of the packet.
LEMMA BytesStep ==
  ASSUME TypeOK, LoopInv, Position, BytesRead, BufferInv, ~draining, ReadStep
  PROVE  BytesRead'
<1>0. /\ Size \in Int /\ Size > 0 /\ count \in Nat
      /\ packet \in Seq(Bytes) /\ Len(packet) \in Nat /\ Len(packet) <= Size
  BY ReaderTypes
<1>1. Newest' = Newest
  BY MainFrame DEF Newest, ReadStep, Main, Dispatch, LoopNext, LoopDone, ReadNothing, ReadTest,
         ReadFetch, LoadPoint, StorePoint, LoadCount, StoreCount, ReadMore, ReadLast,
         ReadAccept, AckCount, AckPoint, mainOnly, history
<1>2. CASE ReadFetch
  <2>1. /\ pc = "fetch"
        /\ packet' = Append(packet, IF point \in DOMAIN buffer THEN buffer[point] ELSE NoByte)
    BY <1>2 DEF ReadFetch, Got, Step
  <2>2. point = Len(packet) /\ count + Len(packet) = Size /\ Len(packet) < Size
    BY <2>1 DEF Position, LoopInv
  <2>3. DOMAIN buffer = 0 .. Size - 1 /\ Unread /\ count # 0
    BY <1>0, <2>1, <2>2 DEF TypeOK, SieType, Unread, AtRest
  <2>4. point \in 0 .. Size - 1
    BY <1>0, <2>2
  <2>5. buffer[point] = Byte(Newest, point)
    BY <2>3, <2>4 DEF BufferInv
  <2>6. packet' = Append(packet, Byte(Newest, Len(packet)))
    BY <2>1, <2>2, <2>3, <2>4, <2>5
  <2> QED
    BY <1>0, <1>1, <2>6 DEF BytesRead
<1>3. CASE ReadNothing
  BY <1>0, <1>3 DEF ReadNothing, Step, Position, LoopInv
<1>4. CASE ~ReadFetch /\ ~ReadNothing
  <2>1. packet' = packet
    BY <1>4 DEF ReadStep, LoopNext, LoopDone, ReadTest, LoadPoint, StorePoint, LoadCount,
         StoreCount, ReadMore, ReadLast, ReadAccept, AckCount, AckPoint
  <2> QED
    BY <1>1, <2>1 DEF BytesRead
<1> QED
  BY <1>2, <1>3, <1>4

\* The reader keeps its invariant on its way through a packet.
LEMMA MainReader ==
  ASSUME TypeOK, LoopInv, ReaderInv, Main, ~Dispatch
  PROVE  ReaderInv'
<1> SUFFICES ASSUME ~cutIn'
             PROVE  /\ LedgerInv' /\ BufferInv'
                    /\ ~AtRest' /\ ~draining' => BytesRead' /\ Position'
  BY DEF ReaderInv
<1>0. Size \in Int /\ Size > 0 /\ packet \in Seq(Bytes)
  BY ReaderTypes
<1>1. ~cutIn /\ LedgerInv /\ BufferInv /\ (~AtRest /\ ~draining => BytesRead /\ Position)
  BY MainFrame DEF ReaderInv
<1>2. Newest' = Newest /\ Oldest' = Oldest
  BY MainFrame DEF Newest, Oldest
<1>3. CASE Poll
  <2>1. /\ pc = "poll" /\ count # 0 /\ pc' = "loop" /\ packet' = <<>>
        /\ draining' = (count # Size) /\ UNCHANGED <<count, point, rRes>>
    BY <1>3 DEF Poll, WrongSize, shared
  <2>2. Unread' <=> Unread
    BY <2>1 DEF Unread, AtRest
  <2>3. LedgerInv'
    BY <1>1, <1>2, <2>1, <2>2, MainFrame DEF LedgerInv
  <2>4. BufferInv'
    BY <1>1, <1>2, <2>1, <2>2, MainFrame DEF BufferInv, Guarded, AtRest
  <2>5. ASSUME ~draining' PROVE BytesRead' /\ Position'
    <3>1. count = Size /\ point = 0
      BY <1>1, <2>1, <2>5 DEF BufferInv, AtRest
    <3>2. Len(packet') = 0
      BY <2>1
    <3> QED
      BY <1>0, <2>1, <3>1, <3>2 DEF BytesRead, Position
  <2> QED
    BY <2>3, <2>4, <2>5
<1>4. CASE ReadStep
  <2>1. /\ ~AtRest /\ ~AtRest' /\ draining' = draining
    BY <1>4 DEF ReadStep, LoopNext, LoopDone, ReadNothing, ReadTest, ReadFetch, LoadPoint,
         StorePoint, LoadCount, StoreCount, ReadMore, ReadLast, ReadAccept, AckCount,
         AckPoint, AtRest, Step
  <2>2. (Unread' <=> Unread) /\ pc # "check" /\ pc' # "check"
    BY <2>1 DEF Unread, AtRest
  <2>3. LedgerInv'
    BY <1>1, <1>2, <2>2, MainFrame DEF LedgerInv
  <2>4. ~draining => BytesRead' /\ Position'
    BY <1>1, <1>4, <2>1, BytesStep, PositionStep
  <2>5. pc' \in {"ackPoint", "ack"} => count' = 0
    BY <1>1, <1>4 DEF ReadStep, LoopNext, LoopDone, ReadNothing, ReadTest, ReadFetch, LoadPoint,
         StorePoint, LoadCount, StoreCount, ReadMore, ReadLast, ReadAccept, AckCount,
         AckPoint, BufferInv, Step
  <2>6. ASSUME ~draining, count' # 0 PROVE count # 0 /\ rRes' = rRes
    <3>1. Position
      BY <1>1, <2>1, <2>6
    <3>2. CASE StoreCount
      BY <3>1, <3>2, ReaderTypes DEF StoreCount, Position, Step
    <3>3. CASE ReadAccept
      BY <2>6, <3>1, <3>3 DEF ReadAccept, TakeAgain, Position, Step
    <3> QED
      BY <1>4, <2>6, <3>2, <3>3 DEF ReadStep, LoopNext, LoopDone, ReadNothing, ReadTest,
         ReadFetch, LoadPoint, StorePoint, LoadCount, ReadMore, ReadLast, AckCount,
         AckPoint, Step, shared
  <2>7. BufferInv'
    <3>1. token' = "OUT" /\ togOK' => AtRest' /\ count' = 0
      BY <1>1, <2>1, MainFrame DEF BufferInv
    <3>2. ASSUME Unread', count' # 0
          PROVE  Guarded' /\ \A i \in 0 .. Size - 1 : buffer'[i] = Byte(Newest', i)
      <4>1. ~draining /\ Unread
        BY <2>1, <2>2, <3>2 DEF Unread
      <4> QED
        BY <1>1, <1>2, <2>6, <3>2, <4>1, MainFrame DEF BufferInv, Guarded
    <3> QED
      BY <2>1, <2>5, <3>1, <3>2 DEF BufferInv
  <2> QED
    BY <2>1, <2>3, <2>4, <2>7
<1>5. CASE Ack
  <2>1. /\ pc = "ack" /\ pc' = (IF draining THEN "poll" ELSE "check")
        /\ UNCHANGED <<draining, packet, count, point>>
    BY <1>5 DEF Ack, TakeAgain, AfterAck, Step
  <2>2. count = 0 /\ count' = 0
    BY <1>1, <2>1 DEF BufferInv
  <2>3. AtRest' /\ ~Unread' /\ (Unread <=> ~draining)
    BY <1>0, <2>1, <2>2 DEF AtRest, Unread
  <2>4. BufferInv'
    BY <1>0, <2>1, <2>2, <2>3 DEF BufferInv
  <2>5. ASSUME ~draining PROVE packet' = Whole(Newest)
    <3>1. BytesRead /\ Len(packet) = Size
      BY <1>1, <2>1, <2>5 DEF Position, AtRest
    <3>2. packet = Whole(Newest)
      BY <1>0, <3>1, WholePacket DEF BytesRead
    <3> QED
      BY <2>1, <3>2
  <2>6. ~draining => Oldest = Newest
    BY <1>1, <2>1, <2>3, ReaderTypes DEF LedgerInv, Oldest, Newest
  <2>7. LedgerInv'
    BY <1>1, <1>2, <2>1, <2>3, <2>5, <2>6, MainFrame DEF LedgerInv
  <2> QED
    BY <2>3, <2>4, <2>7
<1> QED
  BY <1>3, <1>4, <1>5 DEF Main, ReadStep

\* The packet carried out is the oldest one taken in, whole.
LEMMA DispatchReader ==
  ASSUME TypeOK, LoopInv, ReaderInv, Dispatch
  PROVE  ReaderInv'
<1> SUFFICES ASSUME ~cutIn'
             PROVE  /\ LedgerInv' /\ BufferInv'
                    /\ ~AtRest' /\ ~draining' => BytesRead' /\ Position'
  BY DEF ReaderInv
<1>1. /\ pc = "check" /\ pc' = "poll"
      /\ UNCHANGED <<count, point, rRes, buffer, token, togOK, rTog, hTog, configured, accepted, cutIn>>
  BY DEF Dispatch, Step, shared, sieVars, hostVars
<1>2. ~cutIn /\ LedgerInv /\ BufferInv
  BY <1>1 DEF ReaderInv
<1>3. AtRest' /\ AtRest /\ Newest' = Newest /\ (Unread' <=> Unread)
  BY <1>1 DEF AtRest, Unread, Newest
<1>4. BufferInv'
  BY <1>1, <1>2, <1>3 DEF BufferInv, Guarded
<1>5. /\ Len(dispatched) \in Nat /\ Len(accepted) \in Nat
      /\ dispatched \in Seq(Seq(Bytes)) /\ accepted \in Seq(Ids)
  BY ReaderTypes DEF TypeOK, PastType
<1>6. packet = Whole(Oldest) /\ Len(dispatched) + 1 \in 1 .. Len(accepted)
  BY <1>1, <1>2, <1>5 DEF LedgerInv
<1>7. Oldest \in Ids
  BY <1>5, <1>6, ElementOfSeq DEF Oldest
<1>8. dispatched' = Append(dispatched, Whole(accepted[Len(dispatched) + 1]))
  BY <1>6, <1>7 DEF Dispatch, Oldest
<1>9. /\ Len(dispatched') = Len(dispatched) + 1
      /\ DOMAIN dispatched' = 1 .. Len(dispatched) + 1
      /\ dispatched'[Len(dispatched) + 1] = Whole(accepted[Len(dispatched) + 1])
      /\ \A n \in DOMAIN dispatched : dispatched'[n] = dispatched[n]
      /\ DOMAIN dispatched = 1 .. Len(dispatched)
  BY <1>5, <1>8
<1>10. \A n \in DOMAIN dispatched' : dispatched'[n] = Whole(accepted'[n])
  BY <1>1, <1>2, <1>5, <1>9 DEF LedgerInv
<1>11. LedgerInv'
  BY <1>1, <1>2, <1>3, <1>5, <1>9, <1>10 DEF LedgerInv
<1> QED
  BY <1>3, <1>4, <1>11

\* An interrupt changes the main program's view only by taking a packet in while the
\* main program rests.
LEMMA InterruptReader ==
  ASSUME TypeOK, EndpointInv, ReaderInv, USB_interrupt
  PROVE  ReaderInv'
<1> SUFFICES ASSUME ~cutIn'
             PROVE  /\ LedgerInv' /\ BufferInv'
                    /\ ~AtRest' /\ ~draining' => BytesRead' /\ Position'
  BY DEF ReaderInv
<1>0. UNCHANGED <<pc, draining, packet, reg, dispatched, hTog, configured>> /\ AtRest' = AtRest
  BY DEF USB_interrupt, HID_EP2_OUT, TakeIn, USB_EP0_SETUP, USB_EP0_copyDescr, HID_reset,
         mainVars, hostVars, history, AtRest
<1>1. ~cutIn
  BY DEF USB_interrupt, HID_EP2_OUT, TakeIn, USB_EP0_SETUP, USB_EP0_copyDescr, Overwrites,
         HID_reset, history
<1>2. LedgerInv /\ BufferInv /\ (~AtRest /\ ~draining => BytesRead /\ Position)
  BY <1>1 DEF ReaderInv
<1>3. /\ Size \in Int /\ Size > 0 /\ rxLen \in 0 .. Size /\ accepted \in Seq(Ids)
      /\ Len(accepted) \in Nat /\ Len(dispatched) \in Nat
  BY ReaderTypes DEF TypeOK, SieType, PastType
\* Everything but the endpoint's response and toggles stays.
<1>4. ASSUME UNCHANGED <<count, point, buffer, accepted>>, ~(token' = "OUT" /\ togOK'),
             Guarded => Guarded'
      PROVE  /\ LedgerInv' /\ BufferInv'
             /\ ~AtRest' /\ ~draining' => BytesRead' /\ Position'
  <2>1. /\ Newest' = Newest /\ Oldest' = Oldest /\ (Unread' <=> Unread)
        /\ Position' = Position /\ BytesRead' = BytesRead
    BY <1>0, <1>4 DEF Newest, Oldest, Unread, Position, BytesRead
  <2>2. LedgerInv'
    BY <1>0, <1>2, <1>4, <2>1 DEF LedgerInv
  <2>3. BufferInv'
    BY <1>0, <1>2, <1>4, <2>1 DEF BufferInv
  <2> QED
    BY <1>0, <1>2, <2>1, <2>2, <2>3
<1>5. CASE HID_EP2_OUT /\ TogOK /\ TakeIn
  <2>1. /\ token = "OUT" /\ togOK /\ token' = "none" /\ count' = rxLen /\ point' = 0
        /\ (rxLen # 0 => rRes' = "NAK") /\ buffer' = buffer
        /\ accepted' = IF rxLen = Size THEN Append(accepted, Front) ELSE accepted
    BY <1>5 DEF HID_EP2_OUT, TogOK, TakeIn, Front
  <2>2. AtRest /\ AtRest' /\ count = 0 /\ ~Unread /\ (Unread' <=> rxLen = Size)
    BY <1>0, <1>2, <1>3, <2>1 DEF BufferInv, Unread
  <2>3. CASE rxLen = Size
    <3>1. /\ Len(accepted') = Len(accepted) + 1 /\ accepted'[Len(accepted) + 1] = Front
          /\ \A n \in 1 .. Len(accepted) : accepted'[n] = accepted[n]
      BY <1>3, <2>1, <2>3
    <3>2. Newest' = Front
      BY <3>1 DEF Newest
    <3>3. \A i \in 0 .. Size - 1 : buffer'[i] = Byte(Newest', i)
      BY <1>3, <2>1, <2>3, <3>2 DEF EndpointInv, TransferInv
    <3>4. BufferInv'
      BY <1>0, <1>3, <2>1, <2>2, <2>3, <3>3 DEF BufferInv, Guarded, AtRest
    <3>5. DOMAIN dispatched = 1 .. Len(dispatched)
      BY DEF TypeOK, PastType
    <3>6. Len(dispatched) <= Len(accepted) /\ (pc = "check" => Len(dispatched) + 1 <= Len(accepted))
      BY <1>2, <1>3, <2>2 DEF LedgerInv
    <3>7. \A n \in DOMAIN dispatched : accepted'[n] = accepted[n]
      BY <1>3, <3>1, <3>5, <3>6
    <3>8. pc = "check" => Oldest' = Oldest
      BY <1>0, <1>3, <3>1, <3>6 DEF Oldest
    <3>9. LedgerInv'
      BY <1>0, <1>2, <1>3, <2>2, <2>3, <3>1, <3>7, <3>8 DEF LedgerInv
    <3> QED
      BY <2>2, <3>4, <3>9
  <2>4. CASE rxLen # Size
    <3>1. BufferInv'
      BY <1>0, <2>1, <2>2, <2>4 DEF BufferInv, AtRest
    <3>2. LedgerInv'
      BY <1>0, <1>2, <2>1, <2>2, <2>4 DEF LedgerInv, Oldest
    <3> QED
      BY <2>2, <3>1, <3>2
  <2> QED
    BY <2>3, <2>4
<1>6. CASE HID_EP2_OUT /\ UNCHANGED <<shared, history>>
  BY <1>0, <1>4, <1>6 DEF HID_EP2_OUT, shared, history, Guarded
<1>7. CASE USB_EP0_SETUP
  BY <1>0, <1>4, <1>7 DEF USB_EP0_SETUP, history, Guarded, EndpointInv, HostInv
<1>8. CASE USB_EP0_copyDescr
  <2>1. AtRest /\ count = 0 /\ token' = "none" /\ UNCHANGED <<count, point, accepted>>
    BY <1>8 DEF USB_EP0_copyDescr, Overwrites, Reading, AtRest, shared
  <2>2. ~Unread /\ ~Unread' /\ Oldest' = Oldest
    BY <1>0, <1>3, <2>1 DEF Unread, Oldest
  <2>3. LedgerInv'
    BY <1>0, <1>2, <2>1, <2>2 DEF LedgerInv
  <2>4. BufferInv'
    BY <1>0, <1>2, <1>3, <2>1, <2>2 DEF BufferInv
  <2> QED
    BY <1>0, <2>1, <2>3, <2>4
<1>9. CASE HID_reset
  BY <1>0, <1>4, <1>9 DEF HID_reset, TogAfterReset, history, Guarded, EndpointInv, HostInv
<1> QED
  BY <1>5, <1>6, <1>7, <1>8, <1>9 DEF USB_interrupt, HID_EP2_OUT

\* The host's packet reaches a buffer the main program is still reading only by
\* cutting in.
LEMMA HostReader ==
  ASSUME TypeOK, EndpointInv, ReaderInv, HostStep
  PROVE  ReaderInv'
<1> SUFFICES ASSUME ~cutIn'
             PROVE  /\ LedgerInv' /\ BufferInv'
                    /\ ~AtRest' /\ ~draining' => BytesRead' /\ Position'
  BY DEF ReaderInv
<1>0. UNCHANGED <<pc, draining, packet, reg, count, point, rRes, accepted, dispatched>>
  BY DEF HostStep, HostStart, OutTransaction, HostHalt, HostDescriptor, BusReset,
         SetConfiguration, mainVars, shared, history
<1>1. ~cutIn
  BY DEF HostStep, HostStart, OutTransaction, Overwrites, HostHalt, HostDescriptor, BusReset,
         SetConfiguration, history
<1>2. LedgerInv /\ BufferInv /\ (~AtRest /\ ~draining => BytesRead /\ Position)
  BY <1>1 DEF ReaderInv
<1>3. /\ Newest' = Newest /\ Oldest' = Oldest /\ (AtRest' <=> AtRest) /\ (Unread' <=> Unread)
      /\ Position' = Position /\ BytesRead' = BytesRead
  BY <1>0 DEF Newest, Oldest, AtRest, Unread, Position, BytesRead
<1>4. LedgerInv'
  BY <1>0, <1>2, <1>3 DEF LedgerInv
<1> SUFFICES BufferInv'
  BY <1>0, <1>2, <1>3, <1>4
<1>5. ASSUME buffer' = buffer, (token' = "OUT" /\ togOK') => (token = "OUT" /\ togOK),
             Guarded => Guarded'
      PROVE  BufferInv'
  BY <1>0, <1>2, <1>3, <1>5 DEF BufferInv
<1>6. ASSUME NEW lost \in BOOLEAN, OutTransaction(lost) PROVE BufferInv'
  <2>1. rRes = "ACK" /\ configured /\ togOK' = (hTog = rTog)
    BY <1>6 DEF OutTransaction
  <2>2. hTog = rTog => AtRest /\ count = 0
    BY <1>6 DEF OutTransaction, Overwrites, Reading, AtRest
  <2>3. ~(Unread /\ count # 0)
    <3> SUFFICES ASSUME Unread, count # 0 PROVE FALSE
      OBVIOUS
    <3>1. Guarded
      BY <1>2 DEF BufferInv
    <3> QED
      BY <2>1, <2>2, <3>1 DEF Guarded
  <2> QED
    BY <1>0, <1>2, <1>3, <2>1, <2>2, <2>3 DEF BufferInv
<1>7. ASSUME NEW n \in Lengths, HostStart(n) PROVE BufferInv'
  BY <1>5, <1>7 DEF HostStart, sieVars, Guarded, shared
<1>8. ASSUME NEW req \in Halts, HostHalt(req) PROVE BufferInv'
  BY <1>0, <1>5, <1>8, FaultsAssumption DEF HostHalt, Guarded
<1>9. CASE HostDescriptor
  BY <1>0, <1>5, <1>9 DEF HostDescriptor, Guarded, hostVars
<1>10. CASE BusReset
  BY <1>0, <1>5, <1>10 DEF BusReset, Guarded
<1>11. CASE SetConfiguration
  BY <1>0, <1>5, <1>11 DEF SetConfiguration, Guarded, sieVars
<1> QED
  BY <1>6, <1>7, <1>8, <1>9, <1>10, <1>11 DEF HostStep

-----------------------------------------------------------------------------
\* Every step keeps the invariant.
LEMMA NextInv == IInv /\ [Next]_vars => IInv'
<1> SUFFICES ASSUME IInv, [Next]_vars PROVE IInv'
  OBVIOUS
<1> USE DEF IInv
<1>1. CASE Main
  <2>1. ReaderInv'
    BY <1>1, MainReader, DispatchReader
  <2> QED
    BY <1>1, <2>1, MainTypeStep, MainEndpoint
<1>2. CASE USB_interrupt
  BY <1>2, InterruptType, InterruptEndpoint, InterruptReader DEF EndpointInv
<1>3. CASE HostStep
  BY <1>3, HostTypeStep, HostEndpoint, HostReader DEF EndpointInv
<1>4. CASE UNCHANGED vars
  <2>1. UNCHANGED <<mainVars, shared, sieVars, hostVars, history>>
    BY <1>4 DEF vars
  <2>2. TypeOK' /\ LoopInv'
    BY <2>1, Frames DEF TypeOK, LoopInv, mainVars
  <2>3. EndpointInv'
    BY <2>1 DEF EndpointInv, TransferInv, HostInv, OrderInv, BeliefInv, TakenInOnce, Arriving,
         Past, Taken, Front, shared, sieVars, hostVars, history
  <2>4. ReaderInv'
    BY <2>1 DEF ReaderInv, LedgerInv, BufferInv, BytesRead, Position, AtRest, Unread, Guarded,
         Newest, Oldest, mainVars, shared, sieVars, hostVars, history
  <2> QED
    BY <2>2, <2>3, <2>4
<1> QED
  BY <1>1, <1>2, <1>3, <1>4 DEF Next, Main, USB_interrupt, HostStep

\* IInv is an invariant.
THEOREM Invariance == Spec => []IInv
<1>1. Init => IInv
  BY InitInv
<1>2. IInv /\ [Next]_vars => IInv'
  BY NextInv
<1> QED
  BY <1>1, <1>2, PTL DEF Spec

\* Every variable of the endpoint and its reader keeps its type in every behaviour: no
\* counter leaves its width, and no byte is read outside the packets.
THEOREM TypeCorrect == Spec => []TypeOK
<1>1. IInv => TypeOK
  BY DEF IInv
<1> QED
  BY <1>1, Invariance, PTL

\* A packet the host repeats is not taken in twice, and packets are taken in in the
\* host's order, whatever handshakes, resets, halts and configurations intervene.
THEOREM NoneTwice == Spec => []TakenInOnce
<1>1. IInv => TakenInOnce
  BY DEF IInv, EndpointInv, OrderInv
<1> QED
  BY <1>1, Invariance, PTL

\* What the host believes delivered was taken in, unless it repeated SET_CONFIGURATION
\* while the endpoint expected DATA1, or the main program took back a halt it had set.
THEOREM NoneMissed == Spec => []HostBeliefTrue
<1>1. IInv => HostBeliefTrue
  BY DEF IInv, EndpointInv, BeliefInv, HostBeliefTrue, Taken, Arriving
<1> QED
  BY <1>1, Invariance, PTL

\* As long as nothing cuts in, the commands carried out are the packets taken in, each
\* whole and in order (ReaderExact; usb_hid.c:89-104, device_control.c:81-92).
THEOREM CommandsAreThePackets == Spec => []ReaderExact
<1>1. IInv => ReaderExact
  <2> SUFFICES ASSUME IInv, ~cutIn
               PROVE  /\ Len(dispatched) <= Len(accepted)
                      /\ \A n \in DOMAIN dispatched : dispatched[n] = Whole(accepted[n])
    BY DEF ReaderExact
  <2>1. LedgerInv /\ Len(dispatched) \in Nat /\ Len(accepted) \in Nat
    BY ReaderTypes DEF IInv, ReaderInv
  <2>2. Len(dispatched) <= Len(accepted)
    <3>1. \E m, n \in Nat : Len(accepted) = Len(dispatched) + m + n
      <4> DEFINE m == IF pc = "check" THEN 1 ELSE 0
                 n == IF Unread THEN 1 ELSE 0
      <4>1. m \in Nat /\ n \in Nat /\ Len(accepted) = Len(dispatched) + m + n
        BY <2>1 DEF LedgerInv
      <4> QED
        BY <4>1
    <3> QED
      BY <2>1, <3>1
  <2> QED
    BY <2>1, <2>2 DEF LedgerInv
<1> QED
  BY <1>1, Invariance, PTL

\* As long as nothing cuts in, no packet that was taken in is forgotten: when the reader
\* has nothing left to read, it has carried out all of them (NothingForgotten).
THEOREM EveryPacketCarriedOut == Spec => []NothingForgotten
<1>1. IInv => NothingForgotten
  <2> SUFFICES ASSUME IInv, ~cutIn, Idle PROVE Len(dispatched) = Len(accepted)
    BY DEF NothingForgotten
  <2>1. LedgerInv /\ Len(dispatched) \in Nat /\ Len(accepted) \in Nat /\ Size > 0
    BY ReaderTypes DEF IInv, ReaderInv
  <2> QED
    BY <2>1, SizeAssumption DEF LedgerInv, Idle, Unread, AtRest
<1> QED
  BY <1>1, Invariance, PTL
=============================================================================
