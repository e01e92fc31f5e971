---------------------------- MODULE HidInProofs -----------------------------
(***************************************************************************)
(* Proofs about HidIn, for every set of endpoints, report size and set of  *)
(* reports: type correctness; that an armed endpoint holds the whole       *)
(* report it was given (WholeReports); and that each endpoint implements   *)
(* the one-place pipe of ReportPipe (IsPipe).                              *)
(***************************************************************************)
EXTENDS HidIn, SequenceTheorems, TLAPS

\* What an unspoilt endpoint satisfies at each point of a send.
SendInv(e) ==
  ~spoilt[e] =>
    /\ tRes[e] = "ACK" => /\ ~InWindow(e)
                          /\ busy[e]
                          /\ tLen[e] = Size
                          /\ buf[e] = submitted[e]
    /\ ep = e /\ pc = "copy" => /\ src = submitted[e]
                                /\ \A i \in 1 .. idx - 1 : buf[e][i] = src[i]
    /\ ep = e /\ pc \in {"busy", "arm"} => /\ buf[e] = submitted[e]
                                           /\ tLen[e] = Size
    /\ ep = e /\ pc = "arm" => busy[e]

\* An endpoint whose delivery interrupt is pending is still armed.
TokenInv == token = "IN" => tRes[tokEp] = "ACK"

IInv == TypeOK /\ TokenInv /\ \A e \in Eps : SendInv(e)

-----------------------------------------------------------------------------
(* What the host reads from a buffer: nothing or all of it.                *)

\* A prefix of length 0 or Size of a buffer is on the wire; of length Size, it is
\* the buffer.
LEMMA PrefixOnWire ==
  ASSUME NEW s \in Source, NEW n \in {0, Size}
  PROVE  /\ SubSeq(s, 1, n) \in Wire
         /\ n = Size => SubSeq(s, 1, n) = s
<1> USE LenAssumption
<1>1. Size \in Nat /\ Size > 0
  OBVIOUS
<1>2. s \in Seq(Bytes) /\ Len(s) = Size
  BY <1>1 DEF Source
<1>3. CASE n = 0
  <2>1. SubSeq(s, 1, 0) = <<>>
    BY SubSeqEmpty
  <2>2. <<>> \in [1 .. 0 -> Bytes]
    OBVIOUS
  <2>3. [1 .. 0 -> Bytes] \in {[1 .. k -> Bytes] : k \in 0 .. Size}
    BY <1>1
  <2> QED
    BY <1>1, <1>3, <2>1, <2>2, <2>3 DEF Wire
<1>4. CASE n = Size
  <2>1. SubSeq(s, 1, Size) = s
    BY <1>2, SubSeqFull
  <2>2. Source \in {[1 .. k -> Bytes] : k \in 0 .. Size}
    BY <1>1 DEF Source
  <2> QED
    BY <1>4, <2>1, <2>2 DEF Wire
<1> QED
  BY <1>3, <1>4

\* Zeroing the payload of a report leaves a report-sized array (KBD_resetState).
LEMMA ClearedType ==
  ASSUME NEW r \in Source
  PROVE  Cleared(r) \in Source
BY LenAssumption, BytesAssumption DEF Cleared, Source

-----------------------------------------------------------------------------
(* Type correctness.                                                       *)

\* Initially nothing is on its way.
LEMMA InitType == Init => TypeOK
<1> SUFFICES ASSUME Init PROVE TypeOK
  OBVIOUS
<1>1. Blank \in Source
  BY BytesAssumption DEF Blank, Source
<1>2. \A e \in Eps : got[e] \in Wire
  <2>1. SubSeq(Blank, 1, 0) = <<>>
    BY SubSeqEmpty
  <2> QED
    BY <1>1, <2>1, PrefixOnWire DEF Init
<1>3. got \in [Eps -> Wire]
  BY <1>2 DEF Init
<1>4. idx \in 1 .. Size + 1
  BY LenAssumption DEF Init
<1> QED
  BY <1>1, <1>3, <1>4, ZenonT(30) DEF Init, TypeOK

\* Every step keeps the types.
LEMMA NextType == TypeOK /\ [Next]_vars => TypeOK'
<1> SUFFICES ASSUME TypeOK, [Next]_vars PROVE TypeOK'
  OBVIOUS
<1> USE LenAssumption
<1>1. ASSUME NEW e \in Eps, NEW r \in Reports, SendCall(e, r) PROVE TypeOK'
  BY <1>1, ReportsAssumption
     DEF TypeOK, SendCall, Step, epVars, intVars, hostVars, history
<1>2. CASE WaitReady
  BY <1>2 DEF TypeOK, WaitReady, Step, epVars, intVars, hostVars
<1>3. CASE CopyByte
  <2>1. src[idx] \in Bytes
    BY <1>3 DEF TypeOK, CopyByte, Source
  <2>2. buf' \in [Eps -> Source]
    BY <1>3, <2>1 DEF TypeOK, CopyByte, Source
  <2> QED
    BY <1>3, <2>2 DEF TypeOK, CopyByte, intVars, hostVars, history
<1>4. CASE SetLen
  BY <1>4 DEF TypeOK, SetLen, ReportLength, Step, intVars, hostVars, history
<1>5. CASE SetBusy
  BY <1>5 DEF TypeOK, SetBusy, Step, intVars, hostVars, history
<1>6. CASE Arm
  BY <1>6 DEF TypeOK, Arm, Step, intVars, hostVars, history
<1>7. ASSUME NEW e \in Eps, HID_EP_IN(e) PROVE TypeOK'
  BY <1>7 DEF TypeOK, HID_EP_IN, NakAfterIn, FlagsAfterIn, InWindow, mainVars, hostVars
<1>8. ASSUME NEW e \in Eps, USB_EP0_SETUP(e) PROVE TypeOK'
  BY <1>8 DEF TypeOK, USB_EP0_SETUP, mainVars, hostVars, history
<1>9. CASE HID_reset
  <2>1. src' \in Source
    BY <1>9, ClearedType DEF TypeOK, HID_reset
  <2>2. spoilt' \in [Eps -> BOOLEAN] /\ stale' \in [Eps -> BOOLEAN]
    BY <1>9 DEF TypeOK, HID_reset, Spoils, InWindow
  <2> QED
    BY <1>9, <2>1, <2>2 DEF TypeOK, HID_reset, FlagsAfterReset, hostVars
<1>10. ASSUME NEW e \in Eps, HostPoll(e) PROVE TypeOK'
  <2>1. SubSeq(buf[e], 1, tLen[e]) \in Wire
    BY PrefixOnWire DEF TypeOK
  <2>2. got' \in [Eps -> Wire]
    BY <1>10, <2>1 DEF TypeOK, HostPoll
  <2> QED
    BY <1>10, <2>2 DEF TypeOK, HostPoll, mainVars, epVars, history
<1>11. ASSUME NEW e \in Eps, NEW req \in Halts, HostHalt(req, e) PROVE TypeOK'
  BY <1>11, HaltsAssumption DEF TypeOK, HostHalt, mainVars, epVars, hostVars, history
<1>12. CASE BusReset
  BY <1>12 DEF TypeOK, BusReset, mainVars, epVars, history
<1>13. CASE HostConfigure
  BY <1>13 DEF TypeOK, HostConfigure, mainVars, epVars, intVars, history
<1>14. CASE USB_EP0_copyDescr
  <2>1. buf' \in [Eps -> Source]
    BY <1>14, BytesAssumption DEF USB_EP0_copyDescr, Source
  <2>2. spoilt' \in [Eps -> BOOLEAN]
    BY <1>14 DEF TypeOK, USB_EP0_copyDescr, Overruns
  <2> QED
    BY <1>14, <2>1, <2>2 DEF TypeOK, USB_EP0_copyDescr, mainVars, hostVars
<1>15. CASE HostDescriptor
  BY <1>15 DEF TypeOK, HostDescriptor, mainVars, epVars, hostVars, history
<1>16. CASE UNCHANGED vars
  BY <1>16 DEF TypeOK, vars, mainVars, epVars, intVars, hostVars, history
<1> QED
  BY <1>1, <1>2, <1>3, <1>4, <1>5, <1>6, <1>7, <1>8, <1>9, <1>10, <1>11, <1>12,
     <1>13, <1>14, <1>15, <1>16 DEF Next

\* Every variable of the endpoints keeps its type in every behaviour.
THEOREM TypeCorrect == Spec => []TypeOK
<1>1. Init => TypeOK
  BY InitType
<1>2. TypeOK /\ [Next]_vars => TypeOK'
  BY NextType
<1> QED
  BY <1>1, <1>2, PTL DEF Spec

-----------------------------------------------------------------------------
(* An armed endpoint holds the whole report.                               *)

\* Initially no endpoint is armed.
LEMMA InitInv == Init => IInv
<1> SUFFICES ASSUME Init PROVE IInv
  OBVIOUS
<1>1. TypeOK
  BY InitType
<1>2. TokenInv
  BY DEF Init, TokenInv
<1>3. \A e \in Eps : SendInv(e)
  BY DEF Init, SendInv
<1> QED
  BY <1>1, <1>2, <1>3 DEF IInv

\* The steps of a send preserve the invariant: the busy-wait ends only when the
\* endpoint is not armed, so from there on the buffer belongs to the copy.
LEMMA SendStepInv ==
  ASSUME IInv, TypeOK', SendStep
  PROVE  TokenInv' /\ \A e \in Eps : SendInv(e)'
<1> USE LenAssumption DEF IInv
<1>1. CASE WaitReady
  <2>1. TokenInv'
    BY <1>1 DEF WaitReady, TokenInv, epVars, intVars
  <2>2. ASSUME NEW e \in Eps, ~spoilt'[e] PROVE SendInv(e)'
    <3>1. CASE e = ep
      BY <1>1, <2>2, <3>1
         DEF TypeOK, WaitReady, Ready, Step, epVars, SendInv, InWindow
    <3>2. CASE e # ep
      BY <1>1, <2>2, <3>2
         DEF TypeOK, WaitReady, Step, epVars, SendInv, InWindow
    <3> QED
      BY <3>1, <3>2
  <2> QED
    BY <2>1, <2>2 DEF SendInv
<1>2. CASE CopyByte
  <2>1. TokenInv'
    BY <1>2 DEF CopyByte, TokenInv, intVars
  <2>2. ASSUME NEW e \in Eps, ~spoilt'[e] PROVE SendInv(e)'
    <3>1. CASE e = ep
      <4>1. tRes[e] # "ACK" /\ src = submitted[e]
        BY <1>2, <2>2, <3>1 DEF CopyByte, SendInv, InWindow, history
      <4>2. /\ idx \in 1 .. Size /\ idx' = idx + 1
            /\ buf' = [buf EXCEPT ![e][idx] = src[idx]]
            /\ buf[e] \in Source
        BY <1>2, <3>1 DEF CopyByte, TypeOK
      <4>3. \A i \in 1 .. idx - 1 : buf[e][i] = src[i]
        BY <1>2, <2>2, <3>1 DEF CopyByte, SendInv, history
      <4>4. \A i \in 1 .. idx' - 1 : buf'[e][i] = src[i]
        BY <4>2, <4>3 DEF TypeOK, Source
      <4> QED
        BY <1>2, <4>1, <4>4 DEF CopyByte, SendInv, history
    <3>2. CASE e # ep
      <4>1. buf'[e] = buf[e]
        BY <1>2, <3>2 DEF CopyByte, TypeOK
      <4> QED
        BY <1>2, <2>2, <3>2, <4>1 DEF CopyByte, SendInv, InWindow, history
    <3> QED
      BY <3>1, <3>2
  <2> QED
    BY <2>1, <2>2 DEF SendInv
<1>3. CASE SetLen
  <2>1. TokenInv'
    BY <1>3 DEF SetLen, TokenInv, intVars
  <2>2. ASSUME NEW e \in Eps, ~spoilt'[e] PROVE SendInv(e)'
    <3>1. CASE e = ep
      <4>1. /\ tRes[e] # "ACK" /\ src = submitted[e]
            /\ \A i \in 1 .. idx - 1 : buf[e][i] = src[i]
        BY <1>3, <2>2, <3>1 DEF SetLen, Step, SendInv, InWindow, history
      <4>2. buf[e] \in Source /\ src \in Source /\ idx = Size + 1
        BY <1>3 DEF SetLen, TypeOK
      <4>3. buf[e] = src
        BY <4>1, <4>2 DEF Source
      <4> QED
        BY <1>3, <3>1, <4>1, <4>3 DEF SetLen, ReportLength, Step, SendInv, TypeOK, history
    <3>2. CASE e # ep
      BY <1>3, <2>2, <3>2 DEF SetLen, Step, SendInv, InWindow, TypeOK, history
    <3> QED
      BY <3>1, <3>2
  <2> QED
    BY <2>1, <2>2 DEF SendInv
<1>4. CASE SetBusy
  <2>1. TokenInv'
    BY <1>4 DEF SetBusy, TokenInv, intVars
  <2>2. ASSUME NEW e \in Eps, ~spoilt'[e] PROVE SendInv(e)'
    BY <1>4, <2>2 DEF SetBusy, Step, SendInv, InWindow, TypeOK, history
  <2> QED
    BY <2>1, <2>2 DEF SendInv
<1>5. CASE Arm
  <2>1. TokenInv'
    BY <1>5 DEF Arm, TokenInv, TypeOK, intVars
  <2>2. ASSUME NEW e \in Eps, ~spoilt'[e] PROVE SendInv(e)'
    BY <1>5, <2>2 DEF Arm, Step, SendInv, InWindow, TypeOK, history
  <2> QED
    BY <2>1, <2>2 DEF SendInv
<1> QED
  BY <1>1, <1>2, <1>3, <1>4, <1>5 DEF SendStep

\* The interrupt handlers preserve it: each clears the flag and the response
\* together, and a reset or a descriptor copy at a harmful point marks the send
\* spoilt.
LEMMA InterruptInv ==
  ASSUME IInv, TypeOK', USB_interrupt
  PROVE  TokenInv' /\ \A e \in Eps : SendInv(e)'
<1> USE DEF IInv
<1>1. ASSUME NEW d \in Eps, HID_EP_IN(d)
      PROVE  TokenInv' /\ \A e \in Eps : SendInv(e)'
  <2>1. TokenInv'
    BY <1>1 DEF HID_EP_IN, TokenInv
  <2>2. ASSUME NEW e \in Eps, ~spoilt'[e] PROVE SendInv(e)'
    <3>1. CASE e = d
      <4>1. ~InWindow(e)
        BY <1>1, <2>2, <3>1 DEF HID_EP_IN, TokenInv, SendInv, TypeOK
      <4> QED
        BY <1>1, <3>1, <4>1 DEF HID_EP_IN, NakAfterIn, SendInv, InWindow, TypeOK, mainVars
    <3>2. CASE e # d
      BY <1>1, <2>2, <3>2
         DEF HID_EP_IN, NakAfterIn, FlagsAfterIn, SendInv, InWindow, TypeOK, mainVars
    <3> QED
      BY <3>1, <3>2
  <2> QED
    BY <2>1, <2>2 DEF SendInv
<1>2. ASSUME NEW d \in Eps, USB_EP0_SETUP(d)
      PROVE  TokenInv' /\ \A e \in Eps : SendInv(e)'
  <2>1. TokenInv'
    BY <1>2 DEF USB_EP0_SETUP, TokenInv
  <2>2. ASSUME NEW e \in Eps, ~spoilt'[e] PROVE SendInv(e)'
    BY <1>2, <2>2 DEF USB_EP0_SETUP, SendInv, InWindow, TypeOK, mainVars, history
  <2> QED
    BY <2>1, <2>2 DEF SendInv
<1>3. ASSUME HID_reset
      PROVE  TokenInv' /\ \A e \in Eps : SendInv(e)'
  <2>1. TokenInv'
    BY <1>3 DEF HID_reset, TokenInv
  <2>2. ASSUME NEW e \in Eps, ~spoilt'[e] PROVE SendInv(e)'
    <3>1. ~Spoils(e) /\ ~(spoilt[e] /\ InWindow(e))
      BY <1>3, <2>2 DEF HID_reset
    <3>2. tRes'[e] = "NAK" /\ pc' = pc /\ ep' = ep /\ idx' = idx
      BY <1>3 DEF HID_reset
    <3>3. buf'[e] = buf[e] /\ submitted'[e] = submitted[e]
      BY <1>3 DEF HID_reset
    <3>4. ~(ep = e /\ pc = "arm")
      BY <3>1 DEF Spoils
    <3>5. CASE ep = e /\ pc = "copy"
      <4>1. src' = src
        BY <1>3, <3>1, <3>5 DEF HID_reset, Spoils
      <4> QED
        BY <3>1, <3>2, <3>3, <3>5, <4>1 DEF SendInv, InWindow
    <3>6. CASE ep = e /\ pc = "busy"
      <4>1. ~spoilt[e]
        BY <3>1, <3>6 DEF InWindow
      <4>2. tRes[e] # "ACK"
        BY <3>6, <4>1 DEF SendInv, InWindow
      <4>3. tLen'[e] = tLen[e]
        BY <1>3, <4>2 DEF HID_reset, TokenInv, TypeOK
      <4> QED
        BY <3>2, <3>3, <3>6, <4>1, <4>3 DEF SendInv
    <3>7. CASE ~InWindow(e)
      BY <3>2, <3>7 DEF SendInv, InWindow
    <3> QED
      BY <3>4, <3>5, <3>6, <3>7 DEF InWindow
  <2> QED
    BY <2>1, <2>2 DEF SendInv
<1>4. ASSUME USB_EP0_copyDescr
      PROVE  TokenInv' /\ \A e \in Eps : SendInv(e)'
  <2>1. TokenInv'
    BY <1>4 DEF USB_EP0_copyDescr, TokenInv
  <2>2. ASSUME NEW e \in Eps, ~spoilt'[e] PROVE SendInv(e)'
    <3>1. ~spoilt[e] /\ ~Overruns(e)
      BY <1>4, <2>2 DEF USB_EP0_copyDescr
    <3>2. tRes' = tRes /\ pc' = pc /\ ep' = ep /\ src' = src /\ idx' = idx
      BY <1>4 DEF USB_EP0_copyDescr, mainVars
    <3>3. tRes[e] # "ACK" /\ ~(ep = e /\ pc \in {"busy", "arm"})
      BY <3>1 DEF Overruns
    <3>4. ASSUME ep = e, pc = "copy"
          PROVE  /\ src' = submitted'[e]
                 /\ \A i \in 1 .. idx' - 1 : buf'[e][i] = src'[i]
      <4>1. src = submitted[e] /\ submitted' = submitted
        BY <1>4, <3>1, <3>4 DEF USB_EP0_copyDescr, SendInv
      <4>2. idx' - 1 = 0
        BY <3>1, <3>2, <3>4 DEF TypeOK, Overruns
      <4> QED
        BY <3>2, <4>1, <4>2
    <3> QED
      BY <3>2, <3>3, <3>4 DEF SendInv
  <2> QED
    BY <2>1, <2>2 DEF SendInv
<1> QED
  BY <1>1, <1>2, <1>3, <1>4 DEF USB_interrupt

\* Every step keeps what is known of a send.
LEMMA NextInv == IInv /\ [Next]_vars => IInv'
<1> SUFFICES ASSUME IInv, [Next]_vars PROVE IInv'
  OBVIOUS
<1>0. TypeOK'
  BY NextType DEF IInv
<1> SUFFICES TokenInv' /\ \A e \in Eps : SendInv(e)'
  BY <1>0 DEF IInv
<1> USE DEF IInv
<1>1. ASSUME NEW d \in Eps, NEW r \in Reports, SendCall(d, r)
      PROVE  TokenInv' /\ \A e \in Eps : SendInv(e)'
  BY <1>1 DEF SendCall, Step, TokenInv, SendInv, InWindow, epVars, intVars, history
<1>2. CASE SendStep
  BY <1>0, <1>2, SendStepInv
<1>3. CASE USB_interrupt
  BY <1>0, <1>3, InterruptInv
<1>4. ASSUME NEW d \in Eps, HostPoll(d)
      PROVE  TokenInv' /\ \A e \in Eps : SendInv(e)'
  BY <1>4 DEF HostPoll, TokenInv, SendInv, InWindow, mainVars, epVars, history
<1>5. ASSUME NEW d \in Eps, NEW req \in Halts, HostHalt(req, d)
      PROVE  TokenInv' /\ \A e \in Eps : SendInv(e)'
  BY <1>5, HaltsAssumption
     DEF HostHalt, TokenInv, SendInv, InWindow, mainVars, epVars, history
<1>6. CASE BusReset
  BY <1>6 DEF BusReset, TokenInv, SendInv, InWindow, mainVars, epVars, history
<1>7. CASE HostConfigure
  BY <1>7 DEF HostConfigure, TokenInv, SendInv, InWindow, mainVars, epVars, intVars, history
<1>8. CASE HostDescriptor
  BY <1>8 DEF HostDescriptor, TokenInv, SendInv, InWindow, mainVars, epVars, history
<1>9. CASE UNCHANGED vars
  BY <1>9 DEF vars, TokenInv, SendInv, InWindow, mainVars, epVars, intVars, history
<1> QED
  BY <1>1, <1>2, <1>3, <1>4, <1>5, <1>6, <1>7, <1>8, <1>9 DEF Next, SendStep, USB_interrupt

\* For every set of endpoints, size and reports: the host reads from an armed
\* endpoint the whole report of its last send, unless a bus reset cut that send or
\* a descriptor copy overran its buffer.
THEOREM ReportsAreWhole == Spec => []WholeReports
<1>1. IInv => WholeReports
  <2> SUFFICES ASSUME IInv, NEW e \in Eps, Armed(e), ~spoilt[e]
               PROVE  SubSeq(buf[e], 1, tLen[e]) = submitted[e]
    BY DEF WholeReports
  <2>1. tLen[e] = Size /\ buf[e] = submitted[e]
    BY DEF IInv, SendInv, Armed
  <2>2. buf[e] \in Source
    BY DEF IInv, TypeOK
  <2> QED
    BY <2>1, <2>2, PrefixOnWire
<1>2. Init => IInv
  BY InitInv
<1>3. IInv /\ [Next]_vars => IInv'
  BY NextInv
<1> QED
  BY <1>1, <1>2, <1>3, PTL DEF Spec
-----------------------------------------------------------------------------
(* Each endpoint implements the one-place pipe of ReportPipe.              *)

\* The main program only ever sends reports, cleared ones included.
ReportInv == /\ pc # "idle" => src \in Reports
             /\ pc \in {"copy", "busy", "arm"} => submitted[ep] \in Reports

\* Every step keeps them: a report that a reset clears is a report.
LEMMA NextReport == IInv /\ ReportInv /\ [Next]_vars => ReportInv'
<1> SUFFICES ASSUME IInv, ReportInv, [Next]_vars PROVE ReportInv'
  OBVIOUS
<1> USE DEF ReportInv
<1>1. ASSUME NEW d \in Eps, NEW r \in Reports, SendCall(d, r) PROVE ReportInv'
  BY <1>1 DEF SendCall, Step
<1>2. CASE WaitReady
  BY <1>2 DEF IInv, TypeOK, WaitReady, Step
<1>3. CASE CopyByte \/ SetLen \/ SetBusy \/ Arm
  BY <1>3 DEF CopyByte, SetLen, SetBusy, Arm, Step, history
<1>4. ASSUME NEW d \in Eps, HID_EP_IN(d) \/ USB_EP0_SETUP(d) PROVE ReportInv'
  BY <1>4 DEF HID_EP_IN, USB_EP0_SETUP, mainVars, history
<1>5. CASE HID_reset
  BY <1>5, ReportsAssumption DEF HID_reset
<1>6. CASE USB_EP0_copyDescr \/ HostDescriptor \/ BusReset \/ HostConfigure
  BY <1>6 DEF USB_EP0_copyDescr, HostDescriptor, BusReset, HostConfigure, mainVars, history
<1>7. ASSUME NEW d \in Eps, HostPoll(d) PROVE ReportInv'
  BY <1>7 DEF HostPoll, mainVars, history
<1>8. ASSUME NEW d \in Eps, NEW req \in Halts, HostHalt(req, d) PROVE ReportInv'
  BY <1>8 DEF HostHalt, mainVars, history
<1>9. CASE UNCHANGED vars
  BY <1>9 DEF vars, mainVars, history
<1> QED
  BY <1>1, <1>2, <1>3, <1>4, <1>5, <1>6, <1>7, <1>8, <1>9 DEF Next

\* Neither a report nor what the host reads of an armed endpoint is one of the
\* pipe's two markers, and an unspoilt endpoint in a send is not armed.
LEMMA PipeFacts ==
  ASSUME IInv, ReportInv, NEW e \in Eps
  PROVE  /\ Nothing \notin Reports /\ Junk \notin Reports
         /\ CallOn(e) \in Reports \cup {Nothing, Junk}
         /\ SubSeq(buf[e], 1, tLen[e]) \in Wire
         /\ Armed(e) /\ ~spoilt[e] => SlotOf(e) = submitted[e]
         /\ Armed(e) => SlotOf(e) # Nothing
         /\ InWindow(e) /\ ~spoilt[e] => tRes[e] # "ACK"
<1>1. buf[e] \in Source /\ tLen[e] \in {0, Size} /\ submitted[e] \in Source
  BY DEF IInv, TypeOK
<1>2. SubSeq(buf[e], 1, tLen[e]) \in Wire
  BY <1>1, PrefixOnWire
<1>3. ASSUME Armed(e), ~spoilt[e] PROVE SlotOf(e) = submitted[e]
  <2>1. tLen[e] = Size /\ buf[e] = submitted[e]
    BY <1>3 DEF IInv, SendInv, Armed
  <2> QED
    BY <1>1, <1>3, <2>1, PrefixOnWire DEF SlotOf
<1>4. Nothing \notin Source /\ Junk \notin Source
  BY PipeAssumption
<1>5. CallOn(e) \in Reports \cup {Nothing, Junk}
  BY DEF CallOn, ReportInv, IInv, TypeOK
<1>6. Armed(e) => SlotOf(e) # Nothing
  BY <1>1, <1>3, <1>4, PipeAssumption DEF SlotOf
<1>7. InWindow(e) /\ ~spoilt[e] => tRes[e] # "ACK"
  BY DEF IInv, SendInv
<1> QED
  BY <1>2, <1>3, <1>4, <1>5, <1>6, <1>7, ReportsAssumption

\* Every step of a send is a step of the pipe of its endpoint and none of the others'.
LEMMA SendStepPipe ==
  ASSUME IInv, ReportInv, SendStep, NEW e \in Eps
  PROVE  [Pipe(e)!Next]_(Pipe(e)!vars)
<1> USE DEF IInv
<1>1. got'[e] = got[e] /\ spoilt' = spoilt /\ token' = token /\ tokEp' = tokEp /\ ep' = ep
  BY DEF SendStep, WaitReady, CopyByte, SetLen, SetBusy, Arm, Step, intVars, hostVars, history
<1>2. CASE ep # e
  <2>1. tRes'[e] = tRes[e] /\ tLen'[e] = tLen[e] /\ buf'[e] = buf[e] /\ submitted'[e] = submitted[e]
    BY <1>2 DEF SendStep, WaitReady, CopyByte, SetLen, SetBusy, Arm, Step, TypeOK, epVars, history
  <2> QED
    BY <1>1, <1>2, <2>1 DEF Pipe!vars, CallOn, SlotOf, Armed
<1>3. CASE ep = e /\ WaitReady
  <2>1. UNCHANGED <<tRes, tLen, buf>>
    BY <1>3 DEF WaitReady, epVars
  <2>2. SlotOf(e)' = SlotOf(e)
    BY <1>1, <2>1 DEF SlotOf, Armed
  <2>3. CASE spoilt[e]
    <3>1. CallOn(e)' = Junk /\ CallOn(e) # Nothing
      BY <1>1, <1>3, <2>3, PipeFacts DEF WaitReady, Step, CallOn, ReportInv
    <3>2. Pipe(e)!Spoil
      BY <1>1, <2>2, <3>1 DEF Pipe!Spoil, Pipe!Spoilt
    <3> QED
      BY <3>2 DEF Pipe!Next
  <2>4. CASE ~spoilt[e]
    BY <1>1, <1>3, <2>2, <2>4 DEF WaitReady, Step, CallOn, Pipe!vars, TypeOK
  <2> QED
    BY <2>3, <2>4
<1>4. CASE ep = e /\ (CopyByte \/ SetLen \/ SetBusy)
  <2>1. CallOn(e)' = CallOn(e)
    BY <1>1, <1>4 DEF CopyByte, SetLen, SetBusy, Step, CallOn, history
  <2>2. tRes' = tRes /\ InWindow(e)
    BY <1>4 DEF CopyByte, SetLen, SetBusy, Step, InWindow
  <2>3. SlotOf(e)' = SlotOf(e)
    BY <1>1, <2>2, PipeFacts DEF SlotOf, Armed
  <2> QED
    BY <1>1, <2>1, <2>3 DEF Pipe!vars
<1>5. CASE ep = e /\ Arm
  <2>1. /\ tRes'[e] = "ACK" /\ tLen' = tLen /\ buf' = buf /\ submitted' = submitted
        /\ InWindow(e) /\ CallOn(e)' = Nothing
    BY <1>5 DEF Arm, Step, InWindow, CallOn, TypeOK, history
  <2>2. CASE spoilt[e]
    <3>1. CallOn(e) = Junk
      BY <1>5, <2>2 DEF Arm, Step, CallOn
    <3>2. SlotOf(e)' \in {SlotOf(e), Junk}
      BY <1>1, <2>1, <2>2 DEF SlotOf, Armed
    <3>3. Pipe(e)!SubmitJunk
      BY <1>1, <2>1, <3>1, <3>2 DEF Pipe!SubmitJunk
    <3> QED
      BY <3>3 DEF Pipe!Next
  <2>3. CASE ~spoilt[e]
    <3>1. CallOn(e) = submitted[e] /\ CallOn(e) \in Reports
      BY <1>5, <2>3 DEF Arm, Step, CallOn, ReportInv
    <3>2. tRes[e] # "ACK"
      BY <2>1, <2>3, PipeFacts
    <3>3. SlotOf(e) = Nothing /\ Armed(e)'
      BY <1>1, <2>1, <3>2 DEF SlotOf, Armed, TokenInv
    <3>4. buf[e] = submitted[e] /\ tLen[e] = Size /\ buf[e] \in Source
      BY <1>5, <2>3 DEF Arm, Step, SendInv, TypeOK
    <3>5. SlotOf(e)' = submitted[e]
      BY <1>1, <2>1, <2>3, <3>3, <3>4, PrefixOnWire DEF SlotOf
    <3>6. Pipe(e)!Submit
      BY <1>1, <2>1, <3>1, <3>3, <3>5, PipeFacts DEF Pipe!Submit
    <3> QED
      BY <3>6 DEF Pipe!Next
  <2> QED
    BY <2>2, <2>3
<1> QED
  BY <1>2, <1>3, <1>4, <1>5 DEF SendStep

\* A step of an interrupt handler empties a pipe, spoils it or leaves it alone: the
\* delivery itself happened when the host polled.
LEMMA InterruptPipe ==
  ASSUME IInv, ReportInv, USB_interrupt, NEW e \in Eps
  PROVE  [Pipe(e)!Next]_(Pipe(e)!vars)
<1> USE DEF IInv
<1>1. UNCHANGED <<pc, ep, got, submitted>>
  BY DEF USB_interrupt, HID_EP_IN, USB_EP0_SETUP, HID_reset, USB_EP0_copyDescr,
         mainVars, hostVars, history
<1>2. ASSUME NEW d \in Eps, HID_EP_IN(d) PROVE [Pipe(e)!Next]_(Pipe(e)!vars)
  <2>1. CallOn(e)' = CallOn(e)
    BY <1>1, <1>2 DEF HID_EP_IN, CallOn, InWindow, TypeOK, mainVars
  <2>2. SlotOf(e)' = SlotOf(e)
    BY <1>2 DEF HID_EP_IN, NakAfterIn, SlotOf, Armed, TypeOK
  <2> QED
    BY <1>1, <2>1, <2>2 DEF Pipe!vars
<1>3. ASSUME NEW d \in Eps, USB_EP0_SETUP(d) PROVE [Pipe(e)!Next]_(Pipe(e)!vars)
  <2>1. CallOn(e)' = CallOn(e)
    BY <1>3 DEF USB_EP0_SETUP, CallOn, mainVars, history
  <2>2. CASE e = d
    <3>1. SlotOf(e)' = Nothing
      BY <1>3, <2>2 DEF USB_EP0_SETUP, SlotOf, Armed, TypeOK
    <3>2. Pipe(e)!Drop
      BY <1>1, <2>1, <3>1, PipeFacts DEF Pipe!Drop
    <3> QED
      BY <3>2 DEF Pipe!Next
  <2>3. CASE e # d
    <3>1. SlotOf(e)' = SlotOf(e)
      BY <1>3, <2>3 DEF USB_EP0_SETUP, SlotOf, Armed, TypeOK, history
    <3> QED
      BY <1>1, <2>1, <3>1 DEF Pipe!vars
  <2> QED
    BY <2>2, <2>3
<1>4. ASSUME HID_reset PROVE [Pipe(e)!Next]_(Pipe(e)!vars)
  <2>1. SlotOf(e)' = Nothing
    BY <1>4 DEF HID_reset, SlotOf, Armed
  <2>2. CallOn(e)' \in IF CallOn(e) = Nothing THEN {Nothing} ELSE Reports \cup {Junk}
    <3>1. CASE ep # e \/ pc = "idle"
      BY <1>1, <3>1 DEF CallOn
    <3>2. CASE ep = e /\ pc = "wait"
      <4>1. src' \in Reports
        BY <1>4, <3>2, ReportsAssumption DEF HID_reset, ReportInv
      <4>2. CallOn(e)' = src' /\ CallOn(e) \in Reports
        BY <1>1, <3>2 DEF CallOn, ReportInv
      <4> QED
        BY <4>1, <4>2, PipeFacts
    <3>3. CASE InWindow(e)
      <4>1. CallOn(e) # Nothing
        BY <3>3, PipeFacts, PipeAssumption DEF CallOn, InWindow, ReportInv
      <4>2. CallOn(e)' \in Reports \cup {Junk}
        BY <1>1, <3>3 DEF CallOn, InWindow, ReportInv
      <4> QED
        BY <4>1, <4>2
    <3> QED
      BY <3>1, <3>2, <3>3 DEF InWindow, TypeOK
  <2>3. Pipe(e)!Drop
    BY <1>1, <2>1, <2>2 DEF Pipe!Drop
  <2> QED
    BY <2>3 DEF Pipe!Next
<1>5. ASSUME USB_EP0_copyDescr PROVE [Pipe(e)!Next]_(Pipe(e)!vars)
  <2>1. /\ UNCHANGED <<src, tRes, tLen, tokEp>>
        /\ token = "DESCR" /\ token' = "none"
        /\ spoilt'[e] = (spoilt[e] \/ Overruns(e))
    BY <1>5 DEF USB_EP0_copyDescr, mainVars
  <2>2. CallOn(e)' \in Pipe(e)!Spoilt(CallOn(e))
    BY <1>1, <2>1, PipeFacts DEF CallOn, Pipe!Spoilt, ReportInv, TypeOK
  <2>3. SlotOf(e)' \in Pipe(e)!Spoilt(SlotOf(e))
    <3>1. CASE tRes[e] = "ACK"
      <4>1. Armed(e) /\ SlotOf(e)' = Junk
        BY <2>1, <3>1 DEF Overruns, SlotOf, Armed
      <4> QED
        BY <4>1, PipeFacts DEF Pipe!Spoilt
    <3>2. CASE tRes[e] # "ACK"
      BY <2>1, <3>2 DEF SlotOf, Armed, Pipe!Spoilt
    <3> QED
      BY <3>1, <3>2
  <2>4. Pipe(e)!Spoil
    BY <1>1, <2>2, <2>3 DEF Pipe!Spoil
  <2> QED
    BY <2>4 DEF Pipe!Next
<1> QED
  BY <1>2, <1>3, <1>4, <1>5 DEF USB_interrupt

\* Every step is a step of the pipe or leaves it alone: a send that is armed puts the
\* report in, a delivery takes it out, and a spoilt send puts in something else.
LEMMA NextPipe ==
  ASSUME IInv, ReportInv, [Next]_vars, NEW e \in Eps
  PROVE  [Pipe(e)!Next]_(Pipe(e)!vars)
<1> USE DEF IInv
<1>1. ASSUME NEW d \in Eps, NEW r \in Reports, SendCall(d, r)
      PROVE  [Pipe(e)!Next]_(Pipe(e)!vars)
  <2>1. SlotOf(e)' = SlotOf(e) /\ got' = got /\ CallOn(e) = Nothing
    BY <1>1 DEF SendCall, Step, SlotOf, Armed, CallOn, epVars, intVars, hostVars, history
  <2>2. CASE e = d
    <3>1. CallOn(e)' = r
      BY <1>1, <2>2 DEF SendCall, Step, CallOn
    <3>2. Pipe(e)!Call(r)
      BY <2>1, <3>1 DEF Pipe!Call
    <3> QED
      BY <3>2 DEF Pipe!Next
  <2>3. CASE e # d
    <3>1. CallOn(e)' = Nothing
      BY <1>1, <2>3 DEF SendCall, CallOn
    <3> QED
      BY <2>1, <3>1 DEF Pipe!vars
  <2> QED
    BY <2>2, <2>3
<1>2. CASE SendStep
  BY <1>2, SendStepPipe
<1>3. CASE USB_interrupt
  BY <1>3, InterruptPipe
<1>4. ASSUME NEW d \in Eps, HostPoll(d) PROVE [Pipe(e)!Next]_(Pipe(e)!vars)
  <2>1. CallOn(e)' = CallOn(e)
    BY <1>4 DEF HostPoll, CallOn, mainVars, history
  <2>2. CASE e = d
    <3>1. Armed(e) /\ SlotOf(e)' = Nothing /\ got'[e] = SubSeq(buf[e], 1, tLen[e])
      BY <1>4, <2>2 DEF HostPoll, SlotOf, Armed, TypeOK
    <3>2. got'[e] \in IF SlotOf(e) = Junk THEN Wire ELSE {SlotOf(e)}
      BY <3>1, PipeFacts DEF SlotOf
    <3>3. Pipe(e)!Deliver
      BY <2>1, <3>1, <3>2, PipeFacts DEF Pipe!Deliver
    <3> QED
      BY <3>3 DEF Pipe!Next
  <2>3. CASE e # d
    <3>1. SlotOf(e)' = SlotOf(e) /\ got'[e] = got[e]
      BY <1>4, <2>3 DEF HostPoll, SlotOf, Armed, TypeOK, epVars, history
    <3> QED
      BY <2>1, <3>1 DEF Pipe!vars
  <2> QED
    BY <2>2, <2>3
<1>5. ASSUME NEW d \in Eps, NEW req \in Halts, HostHalt(req, d)
      PROVE  UNCHANGED Pipe(e)!vars
  BY <1>5, HaltsAssumption
     DEF HostHalt, Pipe!vars, CallOn, SlotOf, Armed, mainVars, epVars, hostVars, history
<1>6. CASE HostDescriptor \/ BusReset \/ HostConfigure \/ UNCHANGED vars
  BY <1>6 DEF HostDescriptor, BusReset, HostConfigure, vars, Pipe!vars, CallOn, SlotOf,
              Armed, mainVars, epVars, intVars, hostVars, history
<1> QED
  BY <1>1, <1>2, <1>3, <1>4, <1>5, <1>6 DEF Next, SendStep, USB_interrupt

\* For every set of endpoints, size and reports: each endpoint implements ReportPipe.
\* Every call of the firmware is delivered at most once, whole and in order.
THEOREM PipeImplemented == Spec => IsPipe
<1>1. Init => \A e \in Eps : Pipe(e)!Init
  BY InitType DEF Pipe!Init, Init, CallOn, SlotOf, Armed, TypeOK
<1>2. Init => IInv /\ ReportInv
  BY InitInv DEF Init, ReportInv
<1>3. IInv /\ ReportInv /\ [Next]_vars => IInv' /\ ReportInv'
  BY NextInv, NextReport
<1>4. IInv /\ ReportInv /\ [Next]_vars => \A e \in Eps : [Pipe(e)!Next]_(Pipe(e)!vars)
  BY NextPipe
<1> QED
  BY <1>1, <1>2, <1>3, <1>4, PTL DEF Spec, IsPipe
=============================================================================
