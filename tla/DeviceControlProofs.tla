------------------------- MODULE DeviceControlProofs -------------------------
(***************************************************************************)
(* Proofs about DeviceControl, for every set of keys and commands, every   *)
(* wrap of the sequence number and any number of packets lost: type        *)
(* correctness; that a program which has read the last packet knows which  *)
(* controls are held, but for those forgotten by a RELEASE_ALL or a        *)
(* restart (HostKnowsHeld); and that the numbers and the masks of the      *)
(* events it reads add up (EventsAddUp).                                   *)
(***************************************************************************)
EXTENDS DeviceControl, TLAPS

\* The mask has the bits of the held controls that it was not cleared of, and no others.
MaskInv == pressedMask = {Visible(c) : c \in held \ forgotten}

\* The newest packet on its way, or else the last one read, has the present mask.
NewestInv ==
  /\ sending # NoPacket => sending.mask = pressedMask
  /\ sending = NoPacket /\ endpoint # NoPacket => endpoint.mask = pressedMask
  /\ sending = NoPacket /\ endpoint = NoPacket /\ ~stale /\ view # Unknown
       => view = pressedMask

\* Without a program there is nothing known.
ClosedInv == ~open => view = Unknown

IInv == TypeOK /\ MaskInv /\ NewestInv /\ ClosedInv

-----------------------------------------------------------------------------
(* The bits of controls.                                                   *)

\* Every control has a bit of its own.
LEMMA VisibleDistinct ==
  ASSUME NEW c \in 0..8, NEW d \in 0..8
  PROVE  Visible(c) \in 0..8 /\ (Visible(c) = Visible(d) => c = d)
<1>1. ASSUME NEW k \in 0..8
      PROVE  /\ k = 0 => Visible(k) = 2
             /\ k = 1 => Visible(k) = 1
             /\ k = 2 => Visible(k) = 0
             /\ k = 3 => Visible(k) = 5
             /\ k = 4 => Visible(k) = 4
             /\ k = 5 => Visible(k) = 3
             /\ k = 6 => Visible(k) = 6
             /\ k = 7 => Visible(k) = 7
             /\ k = 8 => Visible(k) = 8
  BY DEF Visible, visibleControl
<1>2. /\ c = 0 \/ c = 1 \/ c = 2 \/ c = 3 \/ c = 4 \/ c = 5 \/ c = 6 \/ c = 7 \/ c = 8
      /\ d = 0 \/ d = 1 \/ d = 2 \/ d = 3 \/ d = 4 \/ d = 5 \/ d = 6 \/ d = 7 \/ d = 8
  OBVIOUS
<1> QED
  BY <1>1, <1>2

\* A press adds its bit, a release takes its own away and no other (CONTROL_emitInput).
LEMMA BitsOfHeld ==
  ASSUME NEW S \in SUBSET Keys, NEW c \in Keys
  PROVE  /\ {Visible(k) : k \in S} \subseteq 0..8
         /\ {Visible(k) : k \in S \cup {c}} = {Visible(k) : k \in S} \cup {Visible(c)}
         /\ {Visible(k) : k \in S \ {c}} = {Visible(k) : k \in S} \ {Visible(c)}
<1>1. c \in 0..8 /\ \A k \in S : k \in 0..8
  BY ControlsAssumption
<1>2. \A k \in S : Visible(k) \in 0..8 /\ (Visible(k) = Visible(c) => k = c)
  BY <1>1, VisibleDistinct
<1> QED
  BY <1>2

\* The sequence number stays within its byte.
LEMMA SuccInRange ==
  ASSUME NEW n \in 0..(SeqWrap - 1)
  PROVE  Succ(n) \in 0..(SeqWrap - 1)
BY BoundsAssumption DEF Succ

\* What the firmware sends are packets, with the mask they were given.
LEMMA PacketsSent ==
  ASSUME NEW mask \in SUBSET (0..8), NEW c \in 0..8, NEW n \in 0..(SeqWrap - 1),
         NEW phase \in {"press", "release", "turn"}
  PROVE  /\ Status(mask) \in Packets /\ Status(mask).mask = mask
         /\ Event(n, c, phase, mask) \in Packets /\ Event(n, c, phase, mask).mask = mask
<1>1. Visible(c) \in 0..8
  BY VisibleDistinct
<1> QED
  BY <1>1 DEF Status, Event, Packets

-----------------------------------------------------------------------------
(* The invariant holds at first and is kept by every step.                 *)

\* The number and the count of losses can start at zero.
LEMMA ZerosInRange == 0 \in 0..(SeqWrap - 1) /\ 0 \in 0..MaxLost
BY BoundsAssumption

\* No packet, no control, no program.
LEMMA InitIInv == Init => IInv
<1> SUFFICES ASSUME Init PROVE IInv
  OBVIOUS
<1>1. TypeOK
  BY ZerosInRange DEF Init, TypeOK
<1>2. MaskInv
  BY DEF Init, MaskInv
<1>3. NewestInv /\ ClosedInv
  BY DEF Init, NewestInv, ClosedInv
<1> QED
  BY <1>1, <1>2, <1>3 DEF IInv

\* CONTROL_emitInput keeps the invariant.
LEMMA EmitInputKeeps ==
  ASSUME IInv, NEW c \in Keys, NEW phase \in {"press", "release"}, EmitInput(c, phase)
  PROVE  IInv'
<1> USE DEF EmitInput, IInv
<1>1. /\ pressedMask' \subseteq 0..8 /\ held' \subseteq Keys /\ forgotten' \subseteq held'
      /\ MaskInv'
  <2>1. /\ held \ forgotten \in SUBSET Keys
        /\ held' \subseteq Keys /\ forgotten' \subseteq held'
    BY DEF TypeOK
  <2>2. held' \ forgotten' = IF phase = "press" THEN (held \ forgotten) \cup {c}
                             ELSE (held \ forgotten) \ {c}
    OBVIOUS
  <2>3. pressedMask' = {Visible(k) : k \in held' \ forgotten'} /\ pressedMask' \subseteq 0..8
    <3>1. CASE phase = "press"
      BY <2>1, <2>2, <3>1, BitsOfHeld DEF MaskInv
    <3>2. CASE phase # "press"
      BY <2>1, <2>2, <3>2, BitsOfHeld DEF MaskInv
    <3> QED
      BY <3>1, <3>2
  <2> QED
    BY <2>1, <2>3 DEF MaskInv
<1>2. sequence' \in 0..(SeqWrap - 1)
  BY SuccInRange DEF TypeOK
<1>3. sending' \in Packets /\ sending'.mask = pressedMask'
  <2>1. pressedMask' \in SUBSET (0..8) /\ c \in 0..8 /\ phase \in {"press", "release", "turn"}
    BY <1>1, ControlsAssumption
  <2>2. sending' = Event(sequence', c, phase, pressedMask')
    OBVIOUS
  <2> HIDE DEF EmitInput, IInv
  <2>3. /\ Event(sequence', c, phase, pressedMask') \in Packets
        /\ Event(sequence', c, phase, pressedMask').mask = pressedMask'
    BY <1>2, <2>1, PacketsSent
  <2> QED
    BY <2>2, <2>3
<1>4. NoPacket \notin Packets
  BY DEF NoPacket, Packets
<1>5. TypeOK'
  BY <1>1, <1>2, <1>3 DEF TypeOK, inbox, host, asking, losses
<1>6. NewestInv'
  BY <1>3, <1>4 DEF NewestInv
<1>7. ClosedInv'
  BY DEF ClosedInv, host
<1> QED
  BY <1>1, <1>5, <1>6, <1>7

\* CONTROL_emitRotation keeps the invariant.
LEMMA EmitRotationKeeps ==
  ASSUME IInv, NEW c \in Turns, EmitRotation(c)
  PROVE  IInv'
<1> USE DEF EmitRotation, IInv
<1>1. sequence' \in 0..(SeqWrap - 1)
  BY SuccInRange DEF TypeOK, TurnSequence
<1>2. sending' \in Packets /\ sending'.mask = pressedMask'
  BY <1>1, PacketsSent, ControlsAssumption DEF TypeOK
<1>3. NoPacket \notin Packets
  BY DEF NoPacket, Packets
<1>4. TypeOK'
  BY <1>1, <1>2 DEF TypeOK, inbox, host, asking, losses
<1>5. MaskInv' /\ ClosedInv'
  BY DEF MaskInv, ClosedInv, host
<1>6. NewestInv'
  BY <1>2, <1>3 DEF NewestInv
<1> QED
  BY <1>4, <1>5, <1>6

\* CONTROL_handleUSB keeps the invariant.
LEMMA HandleUSBKeeps == IInv /\ HandleUSB => IInv'
<1> SUFFICES ASSUME IInv, HandleUSB PROVE IInv'
  OBVIOUS
<1> USE DEF IInv
<1>1. NoPacket \notin Packets
  BY DEF NoPacket, Packets
<1>2. CASE StatusCommand
  <2>1. sending' \in Packets /\ sending'.mask = pressedMask'
    BY <1>2, PacketsSent, BoundsAssumption
       DEF TypeOK, StatusCommand, ReadCommand, Answer, firmware
  <2> QED
    BY <1>1, <1>2, <2>1
    DEF StatusCommand, ReadCommand, TypeOK, MaskInv, NewestInv, ClosedInv, firmware,
        host, asking, losses
<1>3. CASE ReleaseAllCommand
  <2>1. sending' \in Packets /\ sending'.mask = pressedMask'
    BY <1>3, PacketsSent, BoundsAssumption DEF TypeOK, ReleaseAllCommand, Answer
  <2>2. held' \ forgotten' = {}
    BY <1>3 DEF ReleaseAllCommand
  <2> QED
    BY <1>1, <1>3, <2>1, <2>2
    DEF ReleaseAllCommand, ReadCommand, TypeOK, MaskInv, NewestInv, ClosedInv, host,
        asking, losses
<1>4. CASE OtherCommand
  BY <1>4 DEF OtherCommand, ReadCommand, TypeOK, MaskInv, NewestInv, ClosedInv, firmware,
              host, asking, losses
<1> QED
  BY <1>2, <1>3, <1>4 DEF HandleUSB

\* HID_sendRawReport and the host's polls keep the invariant.
LEMMA TransportKeeps == IInv /\ (Submit \/ Deliver \/ Discard) => IInv'
<1> SUFFICES ASSUME IInv, Submit \/ Deliver \/ Discard PROVE IInv'
  OBVIOUS
<1> USE DEF IInv
<1>1. NoPacket \notin Packets
  BY DEF NoPacket, Packets
<1>2. CASE Submit
  BY <1>1, <1>2 DEF Submit, Idle, Room, TypeOK, MaskInv, NewestInv, ClosedInv, firmware,
                    inbox, host, asking, losses
<1>3. CASE Deliver
  <2>1. endpoint \in Packets /\ endpoint.mask \subseteq 0..8
    BY <1>3 DEF Deliver, TypeOK, Packets
  <2>2. endpoint.type = "event" => endpoint.seq \in 0..(SeqWrap - 1)
    BY <2>1 DEF Packets
  <2>3. TypeOK'
    <3>1. seen' \in {Unknown} \cup 0..(SeqWrap - 1) /\ lostEvents' \in 0..MaxLost
      BY <1>3, <2>2, ZerosInRange DEF Deliver, TypeOK
    <3>2. {open', asked', missed', stale'} \subseteq BOOLEAN
      BY <1>3 DEF Deliver, TypeOK, asking
    <3> QED
      BY <1>3, <2>1, <3>1, <3>2 DEF Deliver, TypeOK, firmware, inbox
  <2>4. MaskInv' /\ ClosedInv'
    BY <1>3 DEF Deliver, MaskInv, ClosedInv, firmware
  <2>5. NewestInv'
    BY <1>3 DEF Deliver, NewestInv, firmware
  <2> QED
    BY <2>3, <2>4, <2>5
<1>4. CASE Discard
  BY <1>4 DEF Discard, TypeOK, MaskInv, NewestInv, ClosedInv, firmware, inbox, host,
              asking, losses
<1> QED
  BY <1>2, <1>3, <1>4

\* The program on the host keeps the invariant.
LEMMA ProgramKeeps ==
  ASSUME IInv,
         Open \/ Close \/ \E p \in Commands : Send(p) \/ SendForgotten(p) \/ Overwrite(p)
  PROVE  IInv'
<1> USE DEF IInv
<1>1. CASE Open
  BY <1>1 DEF Open, TypeOK, MaskInv, NewestInv, ClosedInv, firmware, inbox, asking, losses
<1>2. CASE Close
  <2>1. TypeOK'
    BY <1>2, ZerosInRange DEF Close, NoSession, TypeOK, firmware, inbox
  <2>2. MaskInv' /\ NewestInv' /\ ClosedInv'
    BY <1>2 DEF Close, NoSession, MaskInv, NewestInv, ClosedInv, firmware
  <2> QED
    BY <2>1, <2>2
<1>3. CASE \E p \in Commands : Send(p) \/ SendForgotten(p) \/ Overwrite(p)
  <2>1. PICK p \in Commands : Send(p) \/ SendForgotten(p) \/ Overwrite(p)
    BY <1>3
  <2>2. /\ command' \in Commands \cup {Torn, NoPacket} /\ opened' \in BOOLEAN
        /\ missed' \in BOOLEAN
    BY <2>1 DEF Send, SendForgotten, Overwrite, TypeOK, inbox
  <2>3. asked' \in BOOLEAN /\ UNCHANGED <<firmware, sending, endpoint, open, view, seen, losses>>
    BY <2>1 DEF Send, SendForgotten, Overwrite, Written, TypeOK
  <2> QED
    BY <2>2, <2>3 DEF TypeOK, MaskInv, NewestInv, ClosedInv, firmware, losses
<1> QED
  BY <1>1, <1>2, <1>3

\* A reset of the bus, and a restart of the firmware, keep the invariant.
LEMMA ResetKeeps == IInv /\ (BusReset \/ Restart) => IInv'
<1> SUFFICES ASSUME IInv, BusReset \/ Restart PROVE IInv'
  OBVIOUS
<1> USE DEF IInv
<1>1. CASE BusReset
  <2>1. lostEvents' \in 0..MaxLost /\ stale' \in BOOLEAN
    <3>1. CASE open /\ endpoint # NoPacket
      <4>1. stale' = TRUE /\ (lostEvents' = lostEvents + 1 \/ lostEvents' = lostEvents + 0)
        BY <1>1, <3>1 DEF BusReset
      <4> QED
        BY <1>1, <4>1, BoundsAssumption DEF BusReset, TypeOK
    <3>2. CASE ~(open /\ endpoint # NoPacket)
      BY <1>1, <3>2 DEF BusReset, TypeOK, losses
    <3> QED
      BY <3>1, <3>2
  <2>2. TypeOK'
    BY <1>1, <2>1 DEF BusReset, TypeOK, firmware
  <2>3. MaskInv' /\ ClosedInv'
    BY <1>1 DEF BusReset, MaskInv, ClosedInv, firmware
  <2>4. NewestInv'
    <3>1. CASE open /\ endpoint # NoPacket
      BY <1>1, <3>1 DEF BusReset, NewestInv, firmware
    <3>2. CASE ~(open /\ endpoint # NoPacket)
      BY <1>1, <3>2 DEF BusReset, NewestInv, ClosedInv, firmware, losses
    <3> QED
      BY <3>1, <3>2
  <2> QED
    BY <2>2, <2>3, <2>4
<1>2. CASE Restart
  <2>1. TypeOK'
    BY <1>2, ZerosInRange DEF Restart, NoSession, TypeOK
  <2>2. MaskInv' /\ NewestInv' /\ ClosedInv'
    BY <1>2 DEF Restart, NoSession, MaskInv, NewestInv, ClosedInv
  <2> QED
    BY <2>1, <2>2
<1> QED
  BY <1>1, <1>2

\* Every step keeps the invariant.
LEMMA StepIInv == IInv /\ [Next]_vars => IInv'
<1> SUFFICES ASSUME IInv, [Next]_vars PROVE IInv'
  OBVIOUS
<1>1. CASE \E c \in Keys, phase \in {"press", "release"} : EmitInput(c, phase)
  BY <1>1, EmitInputKeeps
<1>2. CASE \E c \in Turns : EmitRotation(c)
  BY <1>2, EmitRotationKeeps
<1>3. CASE StatusCommand \/ ReleaseAllCommand \/ OtherCommand
  BY <1>3, HandleUSBKeeps DEF HandleUSB
<1>4. CASE Submit \/ Deliver \/ Discard
  BY <1>4, TransportKeeps
<1>5. CASE Open \/ Close
           \/ \E p \in Commands : Send(p) \/ SendForgotten(p) \/ Overwrite(p)
  BY <1>5, ProgramKeeps
<1>6. CASE BusReset \/ Restart
  BY <1>6, ResetKeeps
<1>7. CASE UNCHANGED vars
  BY <1>7 DEF vars, IInv, TypeOK, MaskInv, NewestInv, ClosedInv, firmware, inbox, host, asking,
                losses
<1> QED
  BY <1>1, <1>2, <1>3, <1>4, <1>5, <1>6, <1>7 DEF Next

-----------------------------------------------------------------------------
\* The state of the device-control protocol keeps its types (device_control.c:19-108).
THEOREM TypeCorrect == Spec => []TypeOK
<1>1. IInv => TypeOK
  BY DEF IInv
<1> QED
  BY InitIInv, StepIInv, <1>1, PTL DEF Spec

\* A program that lost no packet since the last one it read, with nothing on its way,
\* sees pressed exactly the controls whose last event was a press, but for those that
\* were down at a RELEASE_ALL or a restart and have sent no event since
\* (device_control.c:47-61).
THEOREM MaskReachesHost == Spec => []HostKnowsHeld
<1>1. IInv => HostKnowsHeld
  BY DEF IInv, NewestInv, MaskInv, NothingOnItsWay, HostKnowsHeld
<1> QED
  BY InitIInv, StepIInv, <1>1, PTL DEF Spec

-----------------------------------------------------------------------------
(* Counting modulo the wrap of the sequence number.                        *)

\* The quotient and the remainder.
LEMMA DivisionParts ==
  ASSUME NEW w \in Nat \ {0}, NEW a \in Int
  PROVE  a = w * (a \div w) + (a % w) /\ a \div w \in Int /\ a % w \in 0..(w - 1)
OBVIOUS

\* There is one quotient and one remainder.
LEMMA DivisionUnique ==
  ASSUME NEW w \in Nat \ {0}, NEW q \in Int, NEW r \in Int,
         NEW m \in 0..(w - 1), NEW n \in 0..(w - 1), w * q + m = w * r + n
  PROVE  q = r /\ m = n
<1>1. w * (q - r) = n - m
  OBVIOUS
<1>2. q - r \in Int /\ n - m \in Int /\ n - m < w /\ n - m > -w
  OBVIOUS
<1>3. \A d, e \in Int : w * d = e /\ e < w /\ e > -w => d = 0
  OBVIOUS
<1>4. q - r = 0
  BY <1>1, <1>2, <1>3
<1> QED
  BY <1>4

\* A number written with a remainder has that remainder.
LEMMA RemainderIs ==
  ASSUME NEW w \in Nat \ {0}, NEW q \in Int, NEW m \in 0..(w - 1), NEW a \in Int,
         a = w * q + m
  PROVE  a % w = m
<1> DEFINE r == a \div w
           n == a % w
<1>1. a = w * r + n /\ r \in Int /\ n \in 0..(w - 1)
  BY DivisionParts
<1> HIDE DEF r, n
<1>2. w * q + m = w * r + n
  BY <1>1
<1>3. m = n
  BY <1>1, <1>2, DivisionUnique
<1> QED
  BY <1>3 DEF n

\* Reducing a summand first changes nothing.
LEMMA RemainderOfSum ==
  ASSUME NEW w \in Nat \ {0}, NEW a \in Int, NEW s \in Int
  PROVE  ((a % w) + s) % w = (a + s) % w
<1> DEFINE q == a \div w
           b == a % w
           r == (b + s) \div w
           m == (b + s) % w
           f == q + r
           c == a + s
<1>1. a = w * q + b /\ q \in Int /\ b \in 0..(w - 1)
  BY DivisionParts
<1> HIDE DEF q, b
<1>2. b + s \in Int
  BY <1>1
<1>3. b + s = w * r + m /\ r \in Int /\ m \in 0..(w - 1)
  BY <1>2, DivisionParts
<1> HIDE DEF r, m
<1>4. w * (q + r) = w * q + w * r
  BY <1>1, <1>3
<1>5. c = w * f + m /\ f \in Int /\ c \in Int
  BY <1>1, <1>3, <1>4
<1> HIDE DEF f, c
<1>6. c % w = m
  BY <1>3, <1>5, RemainderIs
<1> QED
  BY <1>6 DEF c, m, b

\* Two numbers have the same remainder when their difference is a multiple.
LEMMA SameRemainder ==
  ASSUME NEW w \in Nat \ {0}, NEW a \in Int, NEW s \in Int
  PROVE  (a + s) % w = a % w <=> s % w = 0
<1> DEFINE q == a \div w
           b == a % w
           r == s \div w
           m == s % w
           t == (a + s) \div w
           n == (a + s) % w
<1>1. a = w * q + b /\ q \in Int /\ b \in 0..(w - 1)
  BY DivisionParts
<1>2. s = w * r + m /\ r \in Int /\ m \in 0..(w - 1)
  BY DivisionParts
<1>3. a + s \in Int
  OBVIOUS
<1>4. a + s = w * t + n /\ t \in Int /\ n \in 0..(w - 1)
  BY <1>3, DivisionParts
<1> HIDE DEF q, b, r, m, t, n
<1>5. ASSUME n = b PROVE m = 0
  <2>1. w * (t - q) = w * t - w * q
    BY <1>1, <1>4
  <2>2. w * r + m = w * (t - q) + 0
    BY <1>1, <1>2, <1>4, <1>5, <2>1
  <2>3. t - q \in Int /\ 0 \in 0..(w - 1)
    BY <1>1, <1>4
  <2> QED
    BY <1>2, <2>2, <2>3, DivisionUnique
<1>6. ASSUME m = 0 PROVE n = b
  <2> DEFINE f == q + r
  <2>1. w * (q + r) = w * q + w * r
    BY <1>1, <1>2
  <2>2. w * f + b = w * t + n /\ f \in Int
    BY <1>1, <1>2, <1>4, <1>6, <2>1
  <2> HIDE DEF f
  <2> QED
    BY <1>1, <1>4, <2>2, DivisionUnique
<1> QED
  BY <1>5, <1>6 DEF n, b, m

-----------------------------------------------------------------------------
(* The events that are on their way, and those that were lost, add up.     *)

IsEvent(p) == p.type = "event"

\* The number of the k-th event.
Number(k) == k % SeqWrap

\* The events that wait in HID_sendRawReport: one or none.
Waiting == IF IsEvent(sending) THEN 1 ELSE 0

\* Where the last number came from, counted from the last event the program read.
CountInv ==
  /\ IsEvent(sending) => sending.seq = sequence
  /\ IsEvent(endpoint) => sequence = Number(endpoint.seq + Waiting)
  /\ seen # Unknown =>
       /\ IsEvent(endpoint) => endpoint.seq = Number(seen + lostEvents + 1)
       /\ ~IsEvent(endpoint) => sequence = Number(seen + lostEvents + Waiting)

\* Each event's mask is the one before it with the event applied.
ChainInv ==
  /\ IsEvent(sending) /\ endpoint # NoPacket
       => sending.mask = Applied(endpoint.mask, sending)
  /\ IsEvent(sending) /\ endpoint = NoPacket /\ ~stale /\ view # Unknown
       => sending.mask = Applied(view, sending)
  /\ IsEvent(endpoint) /\ ~stale /\ view # Unknown
       => endpoint.mask = Applied(view, endpoint)

\* Who has read an event has a mask.
SeenInv == seen # Unknown => view # Unknown

EventInv == CountInv /\ ChainInv /\ SeenInv

\* Numbers are numbers of the byte, and counting on from one is counting on.
LEMMA Numbers ==
  /\ \A n \in 0..(SeqWrap - 1) : Number(n) = n /\ Succ(n) = Number(n + 1)
  /\ \A a \in Int, s \in Int : Number(Number(a) + s) = Number(a + s)
  /\ \A a \in Int, s \in Int : Number(a + s) = Number(a) <=> s % SeqWrap = 0
<1>1. SeqWrap \in Nat \ {0}
  BY BoundsAssumption
<1>2. ASSUME NEW n \in 0..(SeqWrap - 1) PROVE Number(n) = n /\ Succ(n) = Number(n + 1)
  BY <1>1 DEF Number, Succ
<1>3. ASSUME NEW a \in Int, NEW s \in Int PROVE Number(Number(a) + s) = Number(a + s)
  BY <1>1, RemainderOfSum DEF Number
<1>4. ASSUME NEW a \in Int, NEW s \in Int
      PROVE  Number(a + s) = Number(a) <=> s % SeqWrap = 0
  BY <1>1, SameRemainder DEF Number
<1> QED
  BY <1>2, <1>3, <1>4

\* The types of packets.
LEMMA PacketTypes ==
  /\ ~IsEvent(NoPacket)
  /\ \A mask : ~IsEvent(Status(mask))
  /\ \A n, c, phase, mask : /\ IsEvent(Event(n, c, phase, mask))
                            /\ Event(n, c, phase, mask).seq = n
                            /\ Event(n, c, phase, mask).mask = mask
                            /\ Event(n, c, phase, mask).phase = phase
                            /\ Event(n, c, phase, mask).control = Visible(c)
  /\ \A p \in Packets : IsEvent(p) => p.seq \in 0..(SeqWrap - 1)
BY DEF NoPacket, Status, Event, IsEvent, Packets

\* Nothing on its way, nobody who counts.
LEMMA InitEventInv == Init => EventInv
BY PacketTypes DEF Init, EventInv, CountInv, ChainInv, SeenInv

\* A new event has the next number.
LEMMA EmitCounts ==
  ASSUME IInv, EventInv, Idle, sequence' = Succ(sequence),
         IsEvent(sending'), sending'.seq = sequence',
         UNCHANGED <<endpoint, host, losses>>
  PROVE  CountInv' /\ SeenInv'
<1>1. /\ Waiting = 0 /\ Waiting' = 1
  BY PacketTypes DEF Waiting, Idle
<1>2. sequence' = Number(sequence + 1)
  BY Numbers DEF IInv, TypeOK
<1>3. IsEvent(endpoint) => endpoint.seq \in 0..(SeqWrap - 1)
  BY PacketTypes DEF IInv, TypeOK
<1>4. IsEvent(endpoint) => sequence' = Number(endpoint.seq + 1)
  <2> SUFFICES ASSUME IsEvent(endpoint) PROVE sequence' = Number(endpoint.seq + 1)
    OBVIOUS
  <2>1. endpoint.seq \in Int /\ endpoint.seq + 0 = endpoint.seq
    BY <1>3, BoundsAssumption
  <2>2. sequence = Number(endpoint.seq)
    BY <1>1, <2>1 DEF EventInv, CountInv
  <2>3. 1 \in Int
    OBVIOUS
  <2>4. Number(Number(endpoint.seq) + 1) = Number(endpoint.seq + 1)
    BY <2>1, <2>3, Numbers, Zenon
  <2> QED
    BY <1>2, <2>2, <2>4, Zenon
<1>5. seen # Unknown /\ ~IsEvent(endpoint) => sequence' = Number(seen + lostEvents + 1)
  <2> SUFFICES ASSUME seen # Unknown, ~IsEvent(endpoint)
               PROVE  sequence' = Number(seen + lostEvents + 1)
    OBVIOUS
  <2>1. seen + lostEvents \in Int /\ seen + lostEvents + 0 = seen + lostEvents
    BY BoundsAssumption DEF IInv, TypeOK
  <2>2. sequence = Number(seen + lostEvents)
    BY <1>1, <2>1 DEF EventInv, CountInv
  <2> QED
    BY <1>2, <2>1, <2>2, Numbers
<1> QED
  BY <1>1, <1>4, <1>5 DEF EventInv, CountInv, SeenInv, host, losses

\* A new event's mask is the last packet's, or the program's, with the event applied.
LEMMA EmitChains ==
  ASSUME IInv, EventInv, Idle, sending' # NoPacket,
         sending'.mask = Applied(pressedMask, sending'),
         UNCHANGED <<endpoint, host, losses>>
  PROVE  ChainInv'
<1>1. endpoint # NoPacket => endpoint.mask = pressedMask
  BY DEF IInv, NewestInv, Idle
<1>2. endpoint = NoPacket /\ ~stale /\ view # Unknown => view = pressedMask
  BY DEF IInv, NewestInv, Idle
<1> QED
  BY <1>1, <1>2 DEF ChainInv, EventInv, host, losses

\* CONTROL_emitInput and CONTROL_emitRotation.
LEMMA EmitAddsUp ==
  ASSUME IInv, EventInv,
         \/ \E c \in Keys, phase \in {"press", "release"} : EmitInput(c, phase)
         \/ \E c \in Turns : EmitRotation(c)
  PROVE  EventInv'
<1>1. CASE \E c \in Keys, phase \in {"press", "release"} : EmitInput(c, phase)
  <2> PICK c \in Keys, phase \in {"press", "release"} : EmitInput(c, phase)
    BY <1>1
  <2>1. /\ IsEvent(sending') /\ sending'.seq = sequence' /\ sending' # NoPacket
        /\ sending'.phase = phase /\ sending'.control = Visible(c)
        /\ sending'.mask = pressedMask'
    BY PacketTypes DEF EmitInput
  <2>2. sending'.mask = Applied(pressedMask, sending')
    BY <2>1 DEF EmitInput, Applied
  <2>3. Idle /\ sequence' = Succ(sequence) /\ UNCHANGED <<endpoint, host, losses>>
    BY DEF EmitInput
  <2> QED
    BY <2>1, <2>2, <2>3, EmitCounts, EmitChains DEF EventInv
<1>2. CASE \E c \in Turns : EmitRotation(c)
  <2> PICK c \in Turns : EmitRotation(c)
    BY <1>2
  <2>1. /\ IsEvent(sending') /\ sending'.seq = sequence' /\ sending' # NoPacket
        /\ sending'.phase = "turn" /\ sending'.mask = pressedMask
    BY PacketTypes DEF EmitRotation
  <2>2. sending'.mask = Applied(pressedMask, sending')
    BY <2>1 DEF Applied
  <2>3. Idle /\ sequence' = Succ(sequence) /\ UNCHANGED <<endpoint, host, losses>>
    BY DEF EmitRotation, TurnSequence
  <2> QED
    BY <2>1, <2>2, <2>3, EmitCounts, EmitChains DEF EventInv
<1> QED
  BY <1>1, <1>2

\* A status packet is not counted.
LEMMA AnswerAddsUp ==
  ASSUME IInv, EventInv, HandleUSB
  PROVE  EventInv'
<1>1. /\ Idle
      /\ sending' = sending \/ sending' = Status(pressedMask) \/ sending' = Status({})
      /\ UNCHANGED <<sequence, endpoint, host, losses>>
  BY DEF HandleUSB, StatusCommand, ReleaseAllCommand, OtherCommand, ReadCommand, Answer,
         firmware
<1>2. ~IsEvent(sending) /\ ~IsEvent(sending')
  BY <1>1, PacketTypes DEF Idle
<1>3. Waiting = 0 /\ Waiting' = 0
  BY <1>2 DEF Waiting
<1>4. CountInv'
  BY <1>1, <1>2, <1>3 DEF EventInv, CountInv, host, losses
<1>5. ChainInv' /\ SeenInv'
  BY <1>1, <1>2 DEF EventInv, ChainInv, SeenInv, host, losses
<1> QED
  BY <1>4, <1>5 DEF EventInv

\* The packet that waited is in the endpoint.
LEMMA SubmitAddsUp ==
  ASSUME IInv, EventInv, Submit
  PROVE  EventInv'
<1>1. /\ endpoint = NoPacket /\ endpoint' = sending /\ sending' = NoPacket
      /\ UNCHANGED <<sequence, host, losses>>
  BY DEF Submit, Room, firmware
<1>2. ~IsEvent(endpoint) /\ ~IsEvent(sending') /\ Waiting' = 0
  BY <1>1, PacketTypes DEF Waiting
<1>3. sequence = Number(sequence)
  BY Numbers DEF IInv, TypeOK
<1>4. sequence + 0 = sequence /\ (seen # Unknown => seen + lostEvents \in Int)
  BY BoundsAssumption DEF IInv, TypeOK
<1>5. CountInv'
  <2>1. CASE IsEvent(sending)
    <3>1. Waiting = 1 /\ sending.seq = sequence /\ IsEvent(endpoint')
      BY <1>1, <2>1 DEF Waiting, EventInv, CountInv
    <3> QED
      BY <1>1, <1>2, <1>3, <1>4, <3>1 DEF EventInv, CountInv, host, losses
  <2>2. CASE ~IsEvent(sending)
    <3>1. Waiting = 0 /\ ~IsEvent(endpoint')
      BY <1>1, <2>2 DEF Waiting
    <3> QED
      BY <1>1, <1>2, <3>1 DEF EventInv, CountInv, host, losses
  <2> QED
    BY <2>1, <2>2
<1>6. ChainInv' /\ SeenInv'
  BY <1>1, <1>2 DEF EventInv, ChainInv, SeenInv, host, losses
<1> QED
  BY <1>5, <1>6 DEF EventInv

\* The program has read the packet.
LEMMA DeliverAddsUp ==
  ASSUME IInv, EventInv, Deliver
  PROVE  EventInv'
<1>1. /\ endpoint # NoPacket /\ endpoint' = NoPacket /\ view' = endpoint.mask
      /\ stale' = FALSE /\ UNCHANGED <<sequence, sending>>
  BY DEF Deliver, firmware
<1>2. ~IsEvent(endpoint') /\ Waiting' = Waiting /\ Waiting \in {0, 1}
  BY <1>1, PacketTypes DEF Waiting, IsEvent
<1>3. endpoint.mask \in SUBSET (0..8) /\ endpoint.mask # Unknown
  BY <1>1, UnknownAssumption DEF IInv, TypeOK, Packets
<1>4. CountInv'
  <2>1. CASE IsEvent(endpoint)
    <3>1. seen' = endpoint.seq /\ lostEvents' = 0
      BY <2>1 DEF Deliver, IsEvent
    <3>2. endpoint.seq \in 0..(SeqWrap - 1)
      BY <1>1, <2>1, PacketTypes DEF IInv, TypeOK
    <3>3. endpoint.seq + 0 + Waiting = endpoint.seq + Waiting
      BY <1>2, <3>2, BoundsAssumption
    <3> QED
      BY <1>1, <1>2, <2>1, <3>1, <3>3 DEF EventInv, CountInv
  <2>2. CASE ~IsEvent(endpoint)
    <3>1. UNCHANGED <<seen, lostEvents>>
      BY <2>2 DEF Deliver, IsEvent
    <3> QED
      BY <1>1, <1>2, <2>2, <3>1 DEF EventInv, CountInv
  <2> QED
    BY <2>1, <2>2
<1>5. ChainInv' /\ SeenInv'
  BY <1>1, <1>2, <1>3 DEF EventInv, ChainInv, SeenInv
<1> QED
  BY <1>4, <1>5 DEF EventInv

\* A bus reset loses an event that a program would have read, or none.
LEMMA ResetAddsUp ==
  ASSUME IInv, EventInv, BusReset
  PROVE  EventInv'
<1>1. /\ endpoint' = NoPacket /\ UNCHANGED <<sequence, sending, open, view, seen>>
  BY DEF BusReset, firmware
<1>2. ~IsEvent(endpoint') /\ Waiting' = Waiting /\ Waiting \in {0, 1}
  BY <1>1, PacketTypes DEF Waiting, IsEvent
<1>3. seen # Unknown => open /\ seen \in 0..(SeqWrap - 1) /\ lostEvents \in Nat
  BY BoundsAssumption DEF IInv, TypeOK, ClosedInv, EventInv, SeenInv
<1>4. CASE IsEvent(endpoint)
  <2>1. endpoint # NoPacket
    BY <1>4, PacketTypes
  <2>2. seen # Unknown => lostEvents' = lostEvents + 1
    BY <1>3, <1>4, <2>1 DEF BusReset, IsEvent
  <2>3. seen # Unknown => sequence = Number(seen + lostEvents' + Waiting)
    <3> SUFFICES ASSUME seen # Unknown
                 PROVE  sequence = Number(seen + lostEvents' + Waiting)
      OBVIOUS
    <3>1. sequence = Number(Number(seen + lostEvents + 1) + Waiting)
      BY <1>4 DEF EventInv, CountInv
    <3>2. /\ seen + lostEvents + 1 \in Int /\ Waiting \in Int
          /\ seen + lostEvents + 1 + Waiting = seen + lostEvents' + Waiting
      BY <1>2, <1>3, <2>2, BoundsAssumption
    <3> QED
      BY <3>1, <3>2, Numbers
  <2>4. stale' \/ view = Unknown
    BY <2>1 DEF BusReset, IInv, ClosedInv
  <2> QED
    BY <1>1, <1>2, <2>3, <2>4 DEF EventInv, CountInv, ChainInv, SeenInv
<1>5. CASE ~IsEvent(endpoint)
  <2>1. lostEvents' = lostEvents
    BY <1>5, BoundsAssumption DEF BusReset, IsEvent, losses, IInv, TypeOK
  <2>2. CASE endpoint = NoPacket
    <3>1. stale' = stale
      BY <2>2 DEF BusReset, losses
    <3> QED
      BY <1>1, <1>2, <1>5, <2>1, <2>2, <3>1 DEF EventInv, CountInv, ChainInv, SeenInv
  <2>3. CASE endpoint # NoPacket
    <3>1. stale' \/ view = Unknown
      BY <2>3 DEF BusReset, IInv, ClosedInv
    <3> QED
      BY <1>1, <1>2, <1>5, <2>1, <3>1 DEF EventInv, CountInv, ChainInv, SeenInv
  <2> QED
    BY <2>2, <2>3
<1> QED
  BY <1>4, <1>5

\* A packet that nobody reads, a connection that opens or ends, a restart.
LEMMA OthersAddUp ==
  ASSUME IInv, EventInv,
         \/ Discard \/ Open \/ Close \/ Restart
         \/ \E p \in Commands : Send(p) \/ SendForgotten(p) \/ Overwrite(p)
         \/ UNCHANGED vars
  PROVE  EventInv'
<1>1. CASE Discard
  <2>1. /\ endpoint' = NoPacket /\ UNCHANGED <<sequence, sending, host, losses>>
        /\ seen = Unknown /\ view = Unknown
    BY <1>1 DEF Discard, firmware, IInv, ClosedInv, EventInv, SeenInv
  <2>2. ~IsEvent(endpoint')
    BY <2>1, PacketTypes
  <2> QED
    BY <2>1, <2>2 DEF EventInv, CountInv, ChainInv, SeenInv, host, losses
<1>2. CASE Open
  <2>1. UNCHANGED <<sequence, sending, endpoint, seen, view, losses>>
    BY <1>2 DEF Open, firmware
  <2>2. Waiting' = Waiting
    BY <2>1 DEF Waiting
  <2> QED
    BY <2>1, <2>2 DEF EventInv, CountInv, ChainInv, SeenInv, losses
<1>3. CASE Close
  <2>1. /\ UNCHANGED <<sequence, sending, endpoint>> /\ seen' = Unknown /\ view' = Unknown
    BY <1>3 DEF Close, NoSession, firmware
  <2>2. Waiting' = Waiting
    BY <2>1 DEF Waiting
  <2> QED
    BY <2>1, <2>2 DEF EventInv, CountInv, ChainInv, SeenInv
<1>4. CASE Restart
  <2>1. sending' = NoPacket /\ endpoint' = NoPacket /\ seen' = Unknown /\ view' = Unknown
    BY <1>4 DEF Restart, NoSession
  <2>2. ~IsEvent(endpoint') /\ ~IsEvent(sending')
    BY <2>1, PacketTypes
  <2> QED
    BY <2>1, <2>2 DEF EventInv, CountInv, ChainInv, SeenInv
<1>5. CASE \/ \E p \in Commands : Send(p) \/ SendForgotten(p) \/ Overwrite(p)
           \/ UNCHANGED vars
  <2>1. UNCHANGED <<sequence, sending, endpoint, seen, view, losses>>
    BY <1>5 DEF Send, SendForgotten, Overwrite, Written, vars, firmware, host
  <2>2. Waiting' = Waiting
    BY <2>1 DEF Waiting
  <2> QED
    BY <2>1, <2>2 DEF EventInv, CountInv, ChainInv, SeenInv, losses
<1> QED
  BY <1>1, <1>2, <1>3, <1>4, <1>5

\* Every step keeps the count.
LEMMA StepEventInv == IInv /\ EventInv /\ [Next]_vars => EventInv'
<1> SUFFICES ASSUME IInv, EventInv, [Next]_vars PROVE EventInv'
  OBVIOUS
<1>1. CASE \/ \E c \in Keys, phase \in {"press", "release"} : EmitInput(c, phase)
           \/ \E c \in Turns : EmitRotation(c)
  BY <1>1, EmitAddsUp
<1>2. CASE StatusCommand \/ ReleaseAllCommand \/ OtherCommand
  BY <1>2, AnswerAddsUp DEF HandleUSB
<1>3. CASE Submit
  BY <1>3, SubmitAddsUp
<1>4. CASE Deliver
  BY <1>4, DeliverAddsUp
<1>5. CASE BusReset
  BY <1>5, ResetAddsUp
<1>6. CASE \/ Discard \/ Open \/ Close \/ Restart
           \/ \E p \in Commands : Send(p) \/ SendForgotten(p) \/ Overwrite(p)
           \/ UNCHANGED vars
  BY <1>6, OthersAddUp
<1> QED
  BY <1>1, <1>2, <1>3, <1>4, <1>5, <1>6 DEF Next

\* An event that is read has the number that follows exactly when the events lost
\* are none or a multiple of the wrap, and changes the mask by what it says.
LEMMA ReadAddsUp ==
  ASSUME IInv, EventInv, Deliver, endpoint.type = "event", seen # Unknown
  PROVE  /\ (seen' = Succ(seen)) = (lostEvents % SeqWrap = 0)
         /\ ~stale => view' = Applied(view, endpoint)
<1>1. seen' = endpoint.seq /\ view' = endpoint.mask /\ IsEvent(endpoint)
  BY DEF Deliver, IsEvent
<1>2. seen \in 0..(SeqWrap - 1) /\ lostEvents \in Nat
  BY BoundsAssumption DEF IInv, TypeOK
<1>3. /\ seen + 1 \in Int /\ lostEvents \in Int
      /\ seen + lostEvents + 1 = (seen + 1) + lostEvents
  BY <1>2, BoundsAssumption
<1>4. seen' = Number((seen + 1) + lostEvents)
  BY <1>1, <1>3 DEF EventInv, CountInv
<1>5. Succ(seen) = Number(seen + 1)
  BY <1>2, Numbers
<1>6. Number((seen + 1) + lostEvents) = Number(seen + 1) <=> lostEvents % SeqWrap = 0
  BY <1>3, Numbers
<1>7. ~stale => view' = Applied(view, endpoint)
  BY <1>1 DEF EventInv, ChainInv, SeenInv
<1> QED
  BY <1>4, <1>5, <1>6, <1>7

\* The host counts what it missed, and its mask follows the events it reads
\* (PROTOCOL.md:55, device_control.c:47-73), for every wrap of the number.
THEOREM LossesShow == Spec => EventsAddUp
<1>1. IInv /\ EventInv /\ [Next]_vars =>
        [(Deliver /\ endpoint.type = "event" /\ seen # Unknown)
           => /\ (seen' = Succ(seen)) = (lostEvents % SeqWrap = 0)
              /\ ~stale => view' = Applied(view, endpoint)]_vars
  BY ReadAddsUp
<1> QED
  BY InitIInv, StepIInv, InitEventInv, StepEventInv, <1>1, PTL DEF Spec, EventsAddUp
=============================================================================
