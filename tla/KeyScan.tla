------------------------------ MODULE KeyScan -------------------------------
(***************************************************************************)
(* The main loop of the firmware: the scan of the keys and of the encoder  *)
(* switch (HANDLE_INPUT), the encoder, and the host's commands, with the   *)
(* state they share: bindings, keyboard reports and the pressed-control    *)
(* mask.  The pins change between any two steps, and the bus may be reset. *)
(*                                                                         *)
(* A pin read is a step of its own; between two reads of one pin lie the   *)
(* 5 ms of the debounce or the time an action takes to send its reports.   *)
(* A keystroke, and any other action (ACTION_press and so on), is one      *)
(* step: what an interrupt does to a report on its way is the subject of   *)
(* HidIn.                                                                  *)
(***************************************************************************)
EXTENDS InputActions, FiniteSets

CONSTANTS Inputs,    \* the controls read by HANDLE_INPUT
          Order,     \* the order of the loop: inputs, "encoder" and "usb"
          Left, Right, \* the encoder's controls
          Defaults,  \* power-on bindings (ACTION_init)
          NewBindings, \* <<pressedMask, binding>> of the SET_BINDING commands
          Resets     \* whether the host may reset the bus

Controls == Inputs \cup {Left, Right}

ASSUME OrderAssumption ==
         /\ Order \in Seq(Inputs \cup {"encoder", "usb"})
         /\ {Order[i] : i \in DOMAIN Order} = Inputs \cup {"encoder", "usb"}
         /\ Len(Order) = Cardinality(Inputs) + 2
         /\ {"encoder", "usb"} \cap Inputs = {}
ASSUME DefaultsAssumption == Defaults \in [Controls -> Bindings]
ASSUME CommandsAssumption == \A nb \in NewBindings : nb[2] \in Requested

VARIABLES
  pin, pinA, pinB,  \* what PIN_read returns: FALSE while a control is pressed
  last, encoderALast, \* main's record of the last reading
  pos, step,        \* place in Order, and in HANDLE_INPUT
  binding, d,       \* bindings, and the reports of KbdReport
  strokes,          \* the keystrokes that ACTION_trigger has still to type
  pressedMask,      \* device_control.c's mask, which DeviceControl follows to the host
  down, holding, lost    \* history: presses handled and not yet released; those
                         \* whose chord nothing has touched; whether an odd number of
                         \* edges has passed the scan by since the last one handled

pins    == <<pin, pinA, pinB>>
loop    == <<last, encoderALast, pos, step>>
history == <<down, holding, lost>>
vars    == <<pins, loop, binding, d, strokes, pressedMask, history>>

\* A control that is down at power-up is recorded as it is (macropad_test.c:74-82): its
\* press is one that passed the scan by.
Init == /\ pin \in [Inputs -> BOOLEAN] /\ pinA \in BOOLEAN /\ pinB = TRUE
        /\ last = pin /\ encoderALast = pinA
        /\ pos = 1 /\ step = "read"
        /\ binding = Defaults /\ d = Blank /\ strokes = <<>>
        /\ pressedMask = {}
        /\ down = [k \in Inputs |-> FALSE] /\ holding = {}
        /\ lost = [k \in Inputs |-> ~pin[k]]

-----------------------------------------------------------------------------
(* The world outside.                                                      *)

\* HANDLE_INPUT has read k for the last time that it acts on, and will record what a
\* later reading finds: the reports and keystrokes of a press lie in between.
Unwatched(k) == Order[pos] = k /\ step = "settle"

InputEdge(k) == /\ pin' = [pin EXCEPT ![k] = ~@]
                /\ lost' = IF Unwatched(k) THEN [lost EXCEPT ![k] = ~@] ELSE lost
                /\ UNCHANGED <<pinA, pinB>>

PinChange == /\ \/ \E k \in Inputs : InputEdge(k)
                \/ pinA' = ~pinA /\ UNCHANGED <<pin, pinB, lost>>
                \/ pinB' = ~pinB /\ UNCHANGED <<pin, pinA, lost>>
             /\ UNCHANGED <<loop, binding, d, strokes, pressedMask, down, holding>>

\* KBD_resetState, by the USB interrupt.
BusReset == /\ Resets
            /\ d' = KBD_resetState(d)
            /\ holding' = {}
            /\ UNCHANGED <<pins, loop, binding, strokes, pressedMask, down, lost>>

-----------------------------------------------------------------------------
(* HANDLE_INPUT on the control at pos.                                     *)

At(place) == strokes = <<>> /\ Order[pos] = place

Advance == pos' = IF pos = Len(Order) THEN 1 ELSE pos + 1

\* now = PIN_read(pin): an edge goes on to its confirmation 5 ms later.
ReadPin(k) == /\ At(k) /\ step = "read"
              /\ step' = CASE last[k] /\ ~pin[k] -> "pressing"
                           [] ~last[k] /\ pin[k] -> "releasing"
                           [] OTHER              -> "settle"
              /\ UNCHANGED <<pins, last, encoderALast, pos, binding, d, strokes, pressedMask,
                             history>>

\* Mutant: an edge may be given up whatever the confirming read finds.
BounceAlways(k) == /\ At(k) /\ step \in {"pressing", "releasing"}
                   /\ step' = "settle"
                   /\ UNCHANGED <<pins, last, encoderALast, pos, binding, d, strokes,
                                  pressedMask, history>>

\* The confirming read finds the pin back where it was.
Bounce(k) == /\ At(k)
             /\ \/ step = "pressing" /\ pin[k]
                \/ step = "releasing" /\ ~pin[k]
             /\ step' = "settle"
             /\ UNCHANGED <<pins, last, encoderALast, pos, binding, d, strokes, pressedMask,
                            history>>

\* The chord of a binding that holds a key.
ChordCode(b) == IF Holds(b) THEN b.steps[1][2] ELSE 0
ChordMods(b) == IF ChordCode(b) = 0 THEN {} ELSE b.steps[1][1]

\* The chords held that the release of a keystroke leaves alone.
Untouched(mods, code, held) ==
  {k \in held : code # 0 => /\ code # ChordCode(binding[k])
                            /\ mods \cap ChordMods(binding[k]) = {}}

\* The key is not down yet, and there is an empty slot.
Fits(b) == ChordCode(b) # 0 /\ ~Present(d, ChordCode(b)) /\ Present(d, 0)

HandlePress(k) ==
  /\ At(k) /\ step = "pressing" /\ ~pin[k]
  /\ pressedMask' = pressedMask \cup {k}
  /\ d' = ACTION_press(d, binding[k])
  /\ strokes' = Strokes(binding[k])
  /\ step' = "settle"
  /\ down' = [down EXCEPT ![k] = TRUE] /\ lost' = [lost EXCEPT ![k] = FALSE]
  /\ holding' = IF Fits(binding[k]) THEN holding \cup {k} ELSE holding
  /\ UNCHANGED <<pins, last, encoderALast, pos, binding>>

HandleRelease(k) ==
  /\ At(k) /\ step = "releasing" /\ pin[k]
  /\ d' = ACTION_release(d, binding[k])
  /\ pressedMask' = pressedMask \ {k}
  /\ step' = "settle"
  /\ down' = [down EXCEPT ![k] = FALSE] /\ lost' = [lost EXCEPT ![k] = FALSE]
  /\ holding' = Untouched(ChordMods(binding[k]), ChordCode(binding[k]), holding \ {k})
  /\ UNCHANGED <<pins, last, encoderALast, pos, binding, strokes>>

\* last = PIN_read(pin), a third reading of the pin.
Settle(k) == /\ At(k) /\ step = "settle"
             /\ last' = [last EXCEPT ![k] = pin[k]]
             /\ step' = "read"
             /\ Advance
             /\ UNCHANGED <<pins, encoderALast, binding, d, strokes, pressedMask, history>>

HANDLE_INPUT(k) == ReadPin(k) \/ Bounce(k) \/ HandlePress(k) \/ HandleRelease(k) \/ Settle(k)

\* The loop of ACTION_trigger, until it has typed all.
TypeStroke == /\ strokes # <<>>
              /\ LET mods == Head(strokes)[1]
                     code == Head(strokes)[2]
                 IN  /\ d' = KBD_code_type(d, mods, code)
                     /\ holding' = Untouched(mods, code, holding)
              /\ strokes' = Tail(strokes)
              /\ UNCHANGED <<pins, loop, binding, pressedMask, down, lost>>

-----------------------------------------------------------------------------
(* The encoder: a falling edge of A turns right when B is high.            *)

Encoder == /\ At("encoder")
           /\ IF encoderALast /\ ~pinA
              THEN LET b == binding[IF pinB THEN Right ELSE Left]
                   IN  d' = ACTION_trigger(d, b) /\ strokes' = Strokes(b)
              ELSE UNCHANGED <<d, strokes>>
           /\ encoderALast' = pinA
           /\ Advance
           /\ UNCHANGED <<pins, last, step, binding, pressedMask, history>>

-----------------------------------------------------------------------------
(* CONTROL_handleUSB on a valid packet, or on none.                        *)

AtUSB == /\ At("usb") /\ Advance
         /\ UNCHANGED <<pins, last, encoderALast, step, strokes, down, lost>>

\* No packet, an invalid one, an LED command or a status request.
NoCommand == AtUSB /\ UNCHANGED <<binding, d, pressedMask, holding>>

\* Mutant: the old chord is left in the report.
BeforeRebindMissing(e) == e
BeforeRebind(e)        == ACTION_releaseAll(e)

\* ACTION_applyPacket.
SetBinding(c, b) == /\ AtUSB
                    /\ IF c \in Controls /\ Acceptable(b)
                       THEN /\ d' = BeforeRebind(d)
                            /\ binding' = [binding EXCEPT ![c] = b]
                            /\ holding' = {}
                       ELSE UNCHANGED <<d, binding, holding>>
                    /\ UNCHANGED pressedMask

\* The keys may still be held down: their release is handled later.
ReleaseAllCommand == /\ AtUSB
                     /\ d' = ACTION_releaseAll(d)
                     /\ pressedMask' = {}
                     /\ holding' = {}
                     /\ UNCHANGED binding

HandleUSB == \/ NoCommand
             \/ \E nb \in NewBindings : SetBinding(nb[1], nb[2])
             \/ ReleaseAllCommand

MainLoop == (\E k \in Inputs : HANDLE_INPUT(k)) \/ TypeStroke \/ Encoder \/ HandleUSB

Next == \/ PinChange
        \/ BusReset
        \/ \E k \in Inputs : \/ ReadPin(k) \/ Bounce(k) \/ HandlePress(k)
                             \/ HandleRelease(k) \/ Settle(k)
        \/ TypeStroke
        \/ Encoder
        \/ NoCommand
        \/ \E nb \in NewBindings : SetBinding(nb[1], nb[2])
        \/ ReleaseAllCommand

Spec == Init /\ [][Next]_vars

\* The main loop keeps running (its sends return: SendReturns of HidIn).
FairSpec == Spec /\ WF_vars(MainLoop)

-----------------------------------------------------------------------------
TypeOK == /\ pin \in [Inputs -> BOOLEAN] /\ {pinA, pinB} \subseteq BOOLEAN
          /\ last \in [Inputs -> BOOLEAN] /\ encoderALast \in BOOLEAN
          /\ pos \in DOMAIN Order /\ step \in {"read", "pressing", "releasing", "settle"}
          /\ binding \in [Controls -> Bindings] /\ d \in Reports
          /\ strokes \in Seq((SUBSET Mods) \X Codes)
          /\ pressedMask \subseteq Inputs
          /\ down \in [Inputs -> BOOLEAN] /\ holding \subseteq Inputs
          /\ lost \in [Inputs -> BOOLEAN]

\* Whatever the host sees pressed is accounted for by a control that is held with
\* a chord binding, through taps, rebinding, release-all and bus resets in any
\* order (input_actions.c:70-110): nothing stays stuck, and taps leave no trace.  The
\* mask of pressed controls names held ones only.
Held == {k \in Inputs : down[k]}
Explained(report) ==
  /\ CodesIn(report) \subseteq {ChordCode(binding[k]) : k \in Held}
  /\ report.mods \subseteq UNION {ChordMods(binding[k]) : k \in Held}
NothingStuck == /\ Explained(d.kbd) /\ Explained(d.sentKbd)
                /\ d.con = NoConsumer /\ d.sentCon = NoConsumer
                /\ pressedMask \subseteq Held

\* "`4` held keyboard chord" (PROTOCOL.md:33): as long as the control is held, the
\* host sees its key and its modifiers.  The exceptions: its key was down already, or
\* no slot was empty, so its press was not sent (usb_conkbd.c:148-159); a command or a
\* reset cleared it; another binding with that key or one of those modifiers was
\* released or tapped (usb_conkbd.c:173-180).
HeldChordStays ==
  \A k \in holding : /\ ChordCode(binding[k]) \in CodesIn(d.sentKbd)
                     /\ ChordMods(binding[k]) \subseteq d.sentKbd.mods

\* "current visible pressed-control mask" (PROTOCOL.md:46): when every control is
\* up and the loop has read them all as up, the mask is empty.
AllUp == step = "read" /\ \A k \in Inputs : pin[k] /\ last[k]
ReleasesSeen == AllUp => pressedMask = {}

\* A control that stays up, or down, is handled in the end.  The exceptions: its last
\* edge fell between the reading that HANDLE_INPUT decides by (macropad_test.c:25, :28
\* or :34) and the one it records (:39), or it was down at power-up (:74-82).
StableInputHandled ==
  \A k \in Inputs : /\ <>[](pin[k]) => <>[](~down[k] \/ lost[k])
                    /\ <>[](~pin[k]) => <>[](down[k] \/ lost[k])

\* What the main loop has recorded of a control is what it has handled, but for the
\* edges that passed it by there: no other edge goes unhandled (macropad_test.c:23-40).
EdgesAccounted ==
  \A k \in Inputs : Unwatched(k) \/ (last[k] = ~down[k]) = ~lost[k]
=============================================================================
