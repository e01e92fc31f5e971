------------------------------- MODULE HidIn --------------------------------
(***************************************************************************)
(* The two interrupt-IN endpoints of the firmware: HID_sendReport (EP1,    *)
(* keyboard and consumer reports) and HID_sendRawReport (EP2, the Raw HID  *)
(* control channel), their interrupt handlers, and the bus resets,         *)
(* endpoint-halt requests and descriptor reads that cut across them.       *)
(*                                                                         *)
(* The main program is one thread; the USB interrupt preempts it between   *)
(* any two steps.  While an interrupt is pending the serial interface      *)
(* engine answers NAK (bUC_INT_BUSY), so at most one token is outstanding. *)
(* A report is a sequence of Size bytes copied one byte per step.           *)
(***************************************************************************)
EXTENDS Integers, Sequences

CONSTANTS Eps,          \* the IN endpoints
          LiveEps,      \* those whose source is KBD_report/CON_report itself
          Size,         \* bytes of a report
          Bytes, Zero,  \* byte values, and the value a reset stores
          Reports,      \* the reports the firmware sends
          Halts,        \* endpoint feature requests the host may issue
          Resets,       \* whether the host may reset the bus
          Descriptors,  \* whether the host may read descriptors meanwhile
          Stray,        \* a byte of a descriptor
          Nothing, Junk \* see ReportPipe

ASSUME LenAssumption   == Size \in Nat \ {0}
ASSUME BytesAssumption == {Zero, Stray} \subseteq Bytes
ASSUME EpsAssumption   == LiveEps \subseteq Eps
ASSUME HaltsAssumption == /\ Halts \subseteq {"CLEAR", "SET"}
                          /\ {Resets, Descriptors} \subseteq BOOLEAN

Source == [1 .. Size -> Bytes]

\* Bytes 1..8 zeroed, the report identifier at byte 0 kept (KBD_resetState).
Cleared(r) == [i \in 1 .. Size |-> IF i = 1 THEN r[1] ELSE Zero]

\* A report cleared while its call waits is sent as the call's report.
ASSUME ReportsAssumption == /\ Reports \subseteq Source
                            /\ \A r \in Reports : Cleared(r) \in Reports
ASSUME PipeAssumption    == /\ Nothing # Junk
                            /\ {Nothing, Junk} \cap Source = {}

VARIABLES
  pc, ep, src, idx,       \* main program: step, endpoint, source bytes, index i
  busy,                   \* HID_EPx_writeBusyFlag
  tRes, tLen, buf,        \* UEPx_CTRL response, UEPx_T_LEN, EPx_SEND_buffer
  token, tokEp, busReset, \* pending interrupt: UIF_TRANSFER token, UIF_BUS_RST
  configured, got,        \* host: enumeration done, last report read
  submitted, spoilt,      \* history: bytes of the last send; see Spoils, Overruns
  stale                   \* history: taken from the report before a reset

mainVars == <<pc, ep, src, idx>>
epVars   == <<busy, tRes, tLen, buf>>
intVars  == <<token, tokEp, busReset>>
hostVars == <<configured, got>>
history  == <<submitted, spoilt, stale>>
vars     == <<mainVars, epVars, intVars, hostVars, history>>

Blank == [i \in 1 .. Size |-> Zero]

Init == /\ pc = "idle" /\ ep \in Eps /\ src = Blank /\ idx = 1
        /\ busy = [e \in Eps |-> FALSE]
        /\ tRes = [e \in Eps |-> "NAK"]
        /\ tLen = [e \in Eps |-> 0]
        /\ buf = [e \in Eps |-> Blank]
        /\ token = "none" /\ tokEp = ep /\ busReset = FALSE
        /\ configured = FALSE
        /\ got = [e \in Eps |-> <<>>]
        /\ submitted = [e \in Eps |-> Blank]
        /\ spoilt = [e \in Eps |-> FALSE]
        /\ stale = [e \in Eps |-> FALSE]
-----------------------------------------------------------------------------
(* The main program: HID_sendReport and HID_sendRawReport.                 *)

Step(from, to) == /\ pc = from
                  /\ pc' = to

SendCall(e, r) == /\ Step("idle", "wait")
                  /\ ep' = e
                  /\ src' = r
                  /\ UNCHANGED <<idx, epVars, intVars, hostVars, history>>

\* Mutant: no busy-wait.
ReadyAlways(e) == TRUE

Ready(e) == ~busy[e]

\* The busy-wait falls through; until then the program spins here.
WaitReady == /\ Step("wait", "copy")
             /\ Ready(ep)
             /\ idx' = 1
             /\ submitted' = [submitted EXCEPT ![ep] = src]
             /\ stale' = [stale EXCEPT ![ep] = FALSE]
             /\ UNCHANGED <<ep, src, epVars, intVars, hostVars, spoilt>>

CopyByte == /\ pc = "copy"
            /\ idx <= Size
            /\ buf' = [buf EXCEPT ![ep][idx] = src[idx]]
            /\ idx' = idx + 1
            /\ UNCHANGED <<pc, ep, src, busy, tRes, tLen, intVars, hostVars, history>>

\* Mutant: one byte too many.
ReportLengthOff == Size + 1

ReportLength == Size

SetLen == /\ Step("copy", "busy")
          /\ idx > Size
          /\ tLen' = [tLen EXCEPT ![ep] = ReportLength]
          /\ UNCHANGED <<ep, src, idx, busy, tRes, buf, intVars, hostVars, history>>

SetBusy == /\ Step("busy", "arm")
           /\ busy' = [busy EXCEPT ![ep] = TRUE]
           /\ UNCHANGED <<ep, src, idx, tRes, tLen, buf, intVars, hostVars, history>>

Arm == /\ Step("arm", "idle")
       /\ tRes' = [tRes EXCEPT ![ep] = "ACK"]
       /\ UNCHANGED <<ep, src, idx, busy, tLen, buf, intVars, hostVars, history>>

SendStep == WaitReady \/ CopyByte \/ SetLen \/ SetBusy \/ Arm

-----------------------------------------------------------------------------
(* The USB interrupt.                                                      *)

\* Main is past its wait and has not armed endpoint e yet.
InWindow(e) == ep = e /\ pc \in {"copy", "busy", "arm"}

\* Mutants: the endpoint stays armed after delivery; the flag stays set.
NakAfterInMissing(e) == tRes
FlagsAfterInMissing(e) == busy

NakAfterIn(e)   == [tRes EXCEPT ![e] = "NAK"]
FlagsAfterIn(e) == [busy EXCEPT ![e] = FALSE]

HID_EP_IN(e) == /\ token = "IN" /\ tokEp = e
                /\ tLen' = [tLen EXCEPT ![e] = 0]
                /\ tRes' = NakAfterIn(e)
                /\ busy' = FlagsAfterIn(e)
                /\ token' = "none"
                /\ spoilt' = [spoilt EXCEPT ![e] = @ /\ InWindow(e)]
                /\ UNCHANGED <<mainVars, buf, tokEp, busReset, hostVars, submitted, stale>>

\* CLEAR_FEATURE and SET_FEATURE(ENDPOINT_HALT): only the response changes.
USB_EP0_SETUP(e) == /\ token \in {"CLEAR", "SET"} /\ tokEp = e
                    /\ tRes' = [tRes EXCEPT ![e] = IF token = "CLEAR" THEN "NAK" ELSE "STALL"]
                    /\ token' = "none"
                    /\ UNCHANGED <<mainVars, busy, tLen, buf, tokEp, busReset, hostVars, history>>

\* The descriptor copy reaches what the main program has put in the buffer of e.
Overruns(e) == \/ tRes[e] = "ACK"
               \/ ep = e /\ (pc \in {"busy", "arm"} \/ (pc = "copy" /\ idx > 1))

\* The host has read the last bytes of a descriptor, or asked for none of it:
\* USB_EP0_copyDescr(0) runs its djnz loop 256 times, over EP0_buffer and every
\* endpoint buffer behind it (usb_handler.h:14-35).
USB_EP0_copyDescr == /\ token = "DESCR"
                     /\ buf' = [e \in Eps |-> [i \in 1 .. Size |-> Stray]]
                     /\ token' = "none"
                     /\ spoilt' = [e \in Eps |-> spoilt[e] \/ Overruns(e)]
                     /\ UNCHANGED <<mainVars, busy, tRes, tLen, tokEp, busReset, hostVars>>
                     /\ UNCHANGED <<submitted, stale>>

\* A reset here leaves the endpoint armed without its busy flag, or, where the
\* source is the live report, tears the copy.
Spoils(e) == ep = e /\ \/ pc = "arm"
                       \/ pc = "copy" /\ e \in LiveEps

\* Mutant: the flags survive the reset.
FlagsAfterResetMissing == busy

FlagsAfterReset == [e \in Eps |-> FALSE]

\* A transfer that is pending too is served first (usb_handler.c:341-421).
HID_reset == /\ busReset /\ token = "none"
             /\ tRes' = [e \in Eps |-> "NAK"]
             /\ busy' = FlagsAfterReset
             /\ src' = IF ep \in LiveEps THEN Cleared(src) ELSE src
             /\ busReset' = FALSE
             /\ spoilt' = [e \in Eps |-> Spoils(e) \/ (spoilt[e] /\ InWindow(e))]
             /\ stale' = [e \in Eps |-> InWindow(e)]
             /\ UNCHANGED <<pc, ep, idx, tLen, buf, token, tokEp, hostVars, submitted>>

USB_interrupt == \/ HID_reset
                 \/ \E e \in Eps : HID_EP_IN(e) \/ USB_EP0_SETUP(e)
                 \/ USB_EP0_copyDescr

-----------------------------------------------------------------------------
(* The host and the serial interface engine.                               *)

Wire == UNION {[1 .. n -> Bytes] : n \in 0 .. Size}

\* An IN transaction that an armed endpoint answers with its buffer.
HostPoll(e) == /\ configured /\ token = "none" /\ ~busReset
               /\ tRes[e] = "ACK"
               /\ got' = [got EXCEPT ![e] = SubSeq(buf[e], 1, tLen[e])]
               /\ token' = "IN" /\ tokEp' = e
               /\ UNCHANGED <<mainVars, epVars, busReset, configured, history>>

HostHalt(req, e) == /\ configured /\ token = "none" /\ ~busReset
                    /\ token' = req /\ tokEp' = e
                    /\ UNCHANGED <<mainVars, epVars, busReset, hostVars, history>>

\* The last IN transaction of a descriptor read, which needs no configuration.
HostDescriptor == /\ Descriptors /\ token = "none" /\ ~busReset
                  /\ token' = "DESCR"
                  /\ UNCHANGED <<mainVars, epVars, tokEp, busReset, hostVars, history>>

BusReset == /\ Resets /\ ~busReset
            /\ busReset' = TRUE
            /\ configured' = FALSE
            /\ UNCHANGED <<mainVars, epVars, token, tokEp, got, history>>

HostConfigure == /\ ~configured /\ ~busReset
                 /\ configured' = TRUE
                 /\ UNCHANGED <<mainVars, epVars, intVars, got, history>>

Next == \/ \E e \in Eps, r \in Reports : SendCall(e, r)
        \/ WaitReady \/ CopyByte \/ SetLen \/ SetBusy \/ Arm
        \/ \E e \in Eps : HID_EP_IN(e) \/ USB_EP0_SETUP(e)
        \/ HID_reset \/ USB_EP0_copyDescr
        \/ \E e \in Eps : HostPoll(e)
        \/ \E e \in Eps, req \in Halts : HostHalt(req, e)
        \/ HostDescriptor
        \/ BusReset
        \/ HostConfigure

Spec == Init /\ [][Next]_vars

\* The main program runs, interrupts are served, the host enumerates the
\* device and, whenever it keeps polling, reaches each armed endpoint.
Fairness == /\ WF_vars(SendStep)
            /\ WF_vars(USB_interrupt)
            /\ WF_vars(HostConfigure)
            /\ \A e \in Eps : SF_vars(HostPoll(e))

FairSpec == Spec /\ Fairness

-----------------------------------------------------------------------------
TypeOK == /\ pc \in {"idle", "wait", "copy", "busy", "arm"}
          /\ ep \in Eps /\ src \in Source /\ idx \in 1 .. Size + 1
          /\ busy \in [Eps -> BOOLEAN]
          /\ tRes \in [Eps -> {"ACK", "NAK", "STALL"}]
          /\ tLen \in [Eps -> {0, Size}]
          /\ buf \in [Eps -> Source]
          /\ token \in {"none", "IN", "CLEAR", "SET", "DESCR"} /\ tokEp \in Eps
          /\ busReset \in BOOLEAN /\ configured \in BOOLEAN
          /\ got \in [Eps -> Wire]
          /\ submitted \in [Eps -> Source]
          /\ spoilt \in [Eps -> BOOLEAN] /\ stale \in [Eps -> BOOLEAN]

\* The host can read from e now.
Armed(e) == tRes[e] = "ACK" /\ ~(token = "IN" /\ tokEp = e)

\* Whenever an endpoint is armed, what the host would read is, byte for byte and
\* with its full length, the report the firmware had when the busy-wait ended
\* (usb_hid.c:35-45, 48-57): the next send neither overwrites nor truncates it.
\* The exceptions are a send cut by a bus reset at one of the points Spoils names
\* and a buffer the descriptor copy overruns (Overruns).
WholeReports == \A e \in Eps : Armed(e) /\ ~spoilt[e] =>
                                 SubSeq(buf[e], 1, tLen[e]) = submitted[e]

\* "wait for ready to write" (usb_hid.c:38): the buffer of an armed endpoint is
\* never written.  A bus reset between lines 42 and 43 defeats the flag, and
\* USB_EP0_copyDescr ("repeat len times", usb_handler.c:35) does not look at it.
ReadyToWrite == [][\A e \in Eps : Armed(e) => buf'[e] = buf[e]]_vars

\* PROTOCOL.md:60-62, on the reports of KBD_report and CON_report: after a bus
\* reset the host is not handed a key press copied before it, which would leave
\* the key held on the host while the firmware has forgotten it.
NoPressSurvivesReset == \A e \in LiveEps : stale[e] /\ Armed(e) => buf[e] = Cleared(buf[e])

\* HID_sendReport returns: its busy-wait (usb_hid.c:37) ends, whatever bus resets
\* happen, as long as the host polls and halts no endpoint.
SendReturns == pc = "wait" ~> pc = "idle"

\* What the firmware sends (usb_hid.c:35-57) reaches the host, unless a bus reset or a
\* descriptor copy intervenes, or already spoilt the send before it on the endpoint.
ReportReachesHost ==
  \A e \in Eps, r \in Reports :
    (pc = "wait" /\ ep = e /\ src = r /\ ~spoilt[e]) ~>
      \/ token = "IN" /\ tokEp = e /\ got[e] = r
      \/ busReset \/ token = "DESCR"

\* The call in progress on e and the content of its pipe, as ReportPipe sees them.
CallOn(e) == IF ep # e \/ pc = "idle" THEN Nothing
             ELSE IF pc = "wait" THEN src
             ELSE IF spoilt[e] THEN Junk ELSE submitted[e]

SlotOf(e) == IF ~Armed(e) THEN Nothing
             ELSE IF spoilt[e] THEN Junk ELSE SubSeq(buf[e], 1, tLen[e])

Pipe(e) == INSTANCE ReportPipe WITH call <- CallOn(e), slot <- SlotOf(e), received <- got[e]

\* Each endpoint is the one-place pipe of ReportPipe: one delivery at most for
\* one call, in order, whole.
IsPipe == /\ \A e \in Eps : Pipe(e)!Init
          /\ [][\A e \in Eps : [Pipe(e)!Next]_(Pipe(e)!vars)]_vars
=============================================================================
