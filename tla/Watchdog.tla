------------------------------ MODULE Watchdog ------------------------------
(***************************************************************************)
(* The time a round of the main loop takes, in milliseconds, against the   *)
(* watchdog that must be reset once a round.  The round waits in its own   *)
(* delays and wherever HID_sendReport or HID_sendRawReport finds the host  *)
(* has not yet taken the report before.                                    *)
(*                                                                         *)
(* A round is a list of handlers, a handler a list of operations: <<"ms",  *)
(* n>> for DLY_ms(n), <<"send", e>> for a report to endpoint e, <<"steps", *)
(* k>> for k steps of a binding, <<"reset", 0>> for WDT_reset.  What the   *)
(* reports say is in KeyScan and DeviceControl.  Computing and rendering   *)
(* LEDs takes less than the millisecond counted for it.                    *)
(***************************************************************************)
EXTENDS Integers, Sequences

CONSTANTS FREQ_SYS,        \* system clock in kHz (16000 in the Makefile)
          ACTION_MAX_STEPS, \* steps of a binding (5)
          Counts,          \* steps of the bindings in use
          Sent,            \* reports of a step
          PollTimes        \* milliseconds from a report to the poll that takes it

\* bInterval of the endpoints is 10, so a host that polls waits no longer.
ASSUME PollAssumption  == PollTimes \subseteq 1 .. 10
ASSUME ClockAssumption == {FREQ_SYS, ACTION_MAX_STEPS} \subseteq Nat \ {0}
ASSUME CountAssumption == Counts \subseteq 0 .. ACTION_MAX_STEPS /\ Sent \subseteq 0 .. 2

Endpoints == {1, 2}

\* An 8-bit counter of 256 * 256 cycles a count; the count under way when it is reset
\* may be about to end.
Period == (255 * (256 * 256)) \div FREQ_SYS

VARIABLES turn,    \* the next handler of the round
          todo,    \* what is left of the present one
          left,    \* milliseconds until the report of an endpoint is taken; 0: none
          elapsed, \* since WDT_reset
          polling, \* whether the host polls
          stalled  \* history: it did not at some time since WDT_reset

timing == <<turn, todo, left, elapsed, polling, stalled>>

-----------------------------------------------------------------------------
(* The handlers of a round.                                                *)

DLY_ms(n) == <<"ms", n>>
Send(e)   == <<"send", e>>
WDT_reset == <<"reset", 0>>
Repeat(k) == <<"steps", k>>

Ops == {DLY_ms(n) : n \in {1, 2, 3, 5, 20}} \cup {Send(e) : e \in Endpoints}
         \cup {Repeat(k) : k \in 0 .. ACTION_MAX_STEPS} \cup {WDT_reset}

\* Mutant: the steps are 20 ms apart.
StepPauseLong == DLY_ms(20)
StepPause     == DLY_ms(2)

\* KBD_code_type in a step that k more follow: a report for the press and one for the
\* release; only the second when the code is in the report or there is no room, none for
\* no code.
Typing(reports, k) ==
  CASE reports = 0 -> <<StepPause, Repeat(k)>>
    [] reports = 1 -> <<Send(1), StepPause, Repeat(k)>>
    [] OTHER       -> <<Send(1), Send(1), StepPause, Repeat(k)>>

\* HANDLE_INPUT: no edge, a bounce, a press of a control for applications, of a chord
\* that is held, of a consumer tap or of steps, a release.
Input == {<<>>, <<DLY_ms(5)>>, <<DLY_ms(5), Send(2)>>, <<DLY_ms(5), Send(2), Send(1)>>,
          <<DLY_ms(5), Send(2), Send(1), Send(1)>>, <<DLY_ms(5), Send(1), Send(2)>>}
           \cup {<<DLY_ms(5), Send(2), Repeat(k)>> : k \in Counts}

\* No edge, a control for applications, a consumer tap, steps.
Rotation == {<<>>, <<Send(2), DLY_ms(3)>>, <<Send(1), Send(2), DLY_ms(3)>>,
             <<Send(1), Send(1), Send(2), DLY_ms(3)>>}
              \cup {<<Repeat(k), Send(2), DLY_ms(3)>> : k \in Counts}

\* CONTROL_handleUSB: nothing or an LED command, SET_BINDING, STATUS, RELEASE_ALL.
Command == {<<>>, <<DLY_ms(1)>>, <<Send(1), Send(1)>>, <<Send(2)>>,
            <<Send(1), Send(1), Send(2)>>}

\* Without LED_tick20ms, and with it.
EndOfRound == {<<WDT_reset, DLY_ms(1)>>, <<DLY_ms(1), WDT_reset, DLY_ms(1)>>}

Round == <<Input, Input, Input, Input, Input, Input, Rotation, Input, Command,
           EndOfRound>>

\* The longest a round can be when every report waits a whole interval: 150 ms for
\* what does not depend on the bindings and eleven for what the round before leaves.
LongestRound == 161 + 8 * 22 * ACTION_MAX_STEPS

-----------------------------------------------------------------------------
Start == /\ turn' = 1 /\ todo' = <<>>
         /\ left' = [e \in Endpoints |-> 0]
         /\ elapsed' = 0 /\ stalled' = ~polling

TimeInit == /\ turn = 1 /\ todo = <<>>
            /\ left = [e \in Endpoints |-> 0]
            /\ elapsed = 0 /\ polling \in BOOLEAN /\ stalled = ~polling

\* Mutant: the watchdog is never started.
OverdueNever == FALSE
Overdue      == elapsed >= Period

Running == ~Overdue

\* Mutant: the report is not taken when its time comes.
LessPast(t, n) == t - n
Less(t, n)     == IF n < t THEN t - n ELSE 0

\* n milliseconds go by.
Pass(n) == /\ elapsed' = IF elapsed + n < Period THEN elapsed + n ELSE Period
           /\ left' = IF polling THEN [e \in Endpoints |-> Less(left[e], n)] ELSE left

Handle == /\ Running /\ todo = <<>>
          /\ todo' \in Round[turn]
          /\ turn' = IF turn = Len(Round) THEN 1 ELSE turn + 1
          /\ UNCHANGED <<left, elapsed, polling, stalled>>

Op == Head(todo)
Doing(kind) == Running /\ todo # <<>> /\ Op[1] = kind

\* The loop of ACTION_trigger goes round once more.
Step == /\ Doing("steps")
        /\ \/ Op[2] = 0 /\ todo' = Tail(todo)
           \/ /\ Op[2] > 0
              /\ \E n \in Sent : todo' = Typing(n, Op[2] - 1) \o Tail(todo)
        /\ UNCHANGED <<turn, left, elapsed, polling, stalled>>

Delay == /\ Doing("ms")
         /\ Pass(Op[2])
         /\ todo' = Tail(todo)
         /\ UNCHANGED <<turn, polling, stalled>>

SendReport == /\ Doing("send") /\ left[Op[2]] = 0
              /\ \E t \in PollTimes : left' = [left EXCEPT ![Op[2]] = t]
              /\ todo' = Tail(todo)
              /\ UNCHANGED <<turn, elapsed, polling, stalled>>

\* while (HID_EP1_writeBusyFlag), until the host takes the report or the watchdog
\* runs out.
WaitSend == /\ Doing("send") /\ left[Op[2]] > 0
            /\ Pass(IF polling THEN left[Op[2]] ELSE Period)
            /\ UNCHANGED <<turn, todo, polling, stalled>>

Reset == /\ Doing("reset")
         /\ elapsed' = 0 /\ stalled' = ~polling
         /\ todo' = Tail(todo)
         /\ UNCHANGED <<turn, left, polling>>

\* The chip starts again: main sets the pins up and starts the watchdog.
Restart == Overdue /\ Start /\ UNCHANGED polling

Firmware == Handle \/ Step \/ Delay \/ SendReport \/ WaitSend \/ Reset \/ Restart

\* The host stops polling (suspend, no driver, no configuration); when it goes on, a
\* report that waits has a whole interval to go.
HostStops   == /\ polling /\ polling' = FALSE /\ stalled' = TRUE
               /\ \E t \in PollTimes :
                    left' = [e \in Endpoints |-> IF left[e] = 0 THEN 0 ELSE t]
               /\ UNCHANGED <<turn, todo, elapsed>>
HostResumes == ~polling /\ polling' = TRUE /\ UNCHANGED <<turn, todo, left, elapsed, stalled>>

\* HID_reset clears both busy flags; it matters to a send that waits.
ResetFrees == /\ Doing("send") /\ left[Op[2]] > 0
              /\ left' = [e \in Endpoints |-> 0]
              /\ UNCHANGED <<turn, todo, elapsed, polling, stalled>>

TimeNext == \/ Handle \/ Step \/ Delay \/ SendReport \/ WaitSend \/ Reset \/ Restart
            \/ HostStops \/ HostResumes \/ ResetFrees

TimeSpec == TimeInit /\ [][TimeNext]_timing

\* The processor runs; nothing is asked of the host.
FairTimeSpec == TimeSpec /\ WF_timing(Firmware)

-----------------------------------------------------------------------------
TimeTypeOK == /\ turn \in 1 .. Len(Round)
              /\ todo \in Seq(Ops)
              /\ left \in [Endpoints -> 0 .. 10]
              /\ elapsed \in 0 .. Period
              /\ {polling, stalled} \subseteq BOOLEAN

\* While the host polls, no round is so long that the watchdog restarts the firmware:
\* not even one with a press of every control, each a binding of ACTION_MAX_STEPS
\* taps, a turn of the encoder and a RELEASE_ALL (macropad_test.c:84-114).
RoundFitsWatchdog == Overdue => stalled

\* The loop comes round again and again: a send that waits for a host that has stopped
\* polling does not hang it for good, as the watchdog starts it anew (usb_hid.c:37,
\* 50).
LoopComesRound == []<>(turn = 1 /\ todo = <<>>)
=============================================================================
