----------------------------- MODULE ReportPipe -----------------------------
(***************************************************************************)
(* What one interrupt-IN endpoint promises to its two users, the firmware  *)
(* that sends reports and the host that polls for them: a pipe that holds  *)
(* at most one report.  Each call of the firmware puts at most one report  *)
(* in the pipe, only into an empty pipe, and the host takes it out at most *)
(* once and unaltered.  The device may drop a report (bus reset, endpoint  *)
(* halt).                                                                  *)
(*                                                                         *)
(* The exceptions are explicit: a call cut by a bus reset, and a buffer a  *)
(* descriptor copy overruns, may turn into Junk, and Junk promises nothing *)
(* about what the host reads.                                              *)
(***************************************************************************)
CONSTANTS Reports,  \* what the firmware sends
          Wire,     \* everything a host can read: reports and their fragments
          Nothing,  \* no call in progress; an empty pipe
          Junk      \* a report cut by a bus reset or overrun

VARIABLES call,     \* the report of the send call in progress
          slot,     \* the content of the pipe
          received  \* what the host read last

vars == <<call, slot, received>>

TypeOK == /\ call \in Reports \cup {Nothing, Junk}
          /\ slot \in Reports \cup {Nothing, Junk}
          /\ received \in Wire

Init == /\ call = Nothing
        /\ slot = Nothing
        /\ received \in Wire

\* The firmware calls the send function.
Call(r) == /\ call = Nothing
           /\ call' = r
           /\ UNCHANGED <<slot, received>>

\* The call returns: its report is in the pipe.
Submit == /\ call \notin {Nothing, Junk}
          /\ slot = Nothing
          /\ slot' = call
          /\ call' = Nothing
          /\ UNCHANGED received

\* A call that a bus reset cut into may also overwrite or lose a report.
SubmitJunk == /\ call = Junk
              /\ call' = Nothing
              /\ slot' \in {slot, Junk}
              /\ UNCHANGED received

\* The host polls and takes the report out.
Deliver == /\ slot # Nothing
           /\ slot' = Nothing
           /\ received' \in IF slot = Junk THEN Wire ELSE {slot}
           /\ UNCHANGED call

\* Bus reset or endpoint halt: the report in the pipe is gone, and a call in
\* progress is unharmed, has its report cleared, or is spoilt.
Drop == /\ slot' = Nothing
        /\ call' \in IF call = Nothing THEN {Nothing} ELSE Reports \cup {Junk}
        /\ UNCHANGED received

\* What a value may become when it is spoilt: nothing stays nothing.
Spoilt(v) == IF v = Nothing THEN {Nothing} ELSE {v, Junk}

\* A descriptor copy overruns the pipe, the call in progress, or both; a call that
\* follows a spoilt one before the host has read it is spoilt too.
Spoil == /\ call' \in Spoilt(call)
         /\ slot' \in Spoilt(slot)
         /\ UNCHANGED received

Next == \/ \E r \in Reports : Call(r)
        \/ Submit \/ SubmitJunk \/ Deliver \/ Drop \/ Spoil

Spec == Init /\ [][Next]_vars
=============================================================================
