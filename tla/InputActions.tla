---------------------------- MODULE InputActions ----------------------------
(***************************************************************************)
(* What a control does (input_actions.c), as operators on the keyboard     *)
(* record d of KbdReport.  A binding is                                    *)
(*   [kind, count, steps]  with steps a sequence of <<modifiers, usage>>,  *)
(* ACTION_MAX_STEPS of them.  The pauses between steps are left out, and   *)
(* the keystrokes of a keyboard binding are steps of KeyScan.              *)
(***************************************************************************)
EXTENDS KbdReport

CONSTANT MaxSteps  \* ACTION_MAX_STEPS: 5

ASSUME StepsAssumption == MaxSteps \in Nat \ {0}

Kinds == {"DISABLED", "KEYBOARD", "CONSUMER", "APP_ONLY", "HOLD_KEYBOARD"}

Steps    == [1 .. MaxSteps -> (SUBSET Mods) \X Codes]
Bindings == [kind : Kinds, count : 0 .. MaxSteps, steps : Steps]

\* What a SET_BINDING command may ask for.
Requested == [kind : Kinds \cup {"invalid"}, count : 0 .. 255, steps : Steps]

\* One step, and the unused ones zero.
SetKeyboard(mods, usage) ==
  [kind |-> "KEYBOARD", count |-> 1,
   steps |-> [i \in 1 .. MaxSteps |-> IF i = 1 THEN <<mods, usage>> ELSE <<{}, 0>>]]

\* The modifier byte as the number it is.
Bit(mods, m, value) == IF m \in mods THEN value ELSE 0
ModByte(mods) ==
  Bit(mods, 0, 1) + Bit(mods, 1, 2) + Bit(mods, 2, 4) + Bit(mods, 3, 8) +
  Bit(mods, 4, 16) + Bit(mods, 5, 32) + Bit(mods, 6, 64) + Bit(mods, 7, 128)

\* The first step of a consumer binding holds the two bytes of the usage.
ConsumerUsage(step) == ModByte(step[1]) * 256 + step[2]

Active(b) == SubSeq(b.steps, 1, IF b.count < MaxSteps THEN b.count ELSE MaxSteps)

\* What ACTION_trigger does at once, and the keystrokes it goes on to type.
ACTION_trigger(d, b) ==
  IF b.kind = "CONSUMER" /\ b.count # 0 THEN CON_type(d, ConsumerUsage(b.steps[1])) ELSE d
Strokes(b) == IF b.kind = "KEYBOARD" THEN Active(b) ELSE <<>>

Holds(b) == b.kind = "HOLD_KEYBOARD" /\ b.count # 0

ACTION_press(d, b) ==
  IF Holds(b) THEN KBD_code_press(d, b.steps[1][1], b.steps[1][2])
  ELSE IF b.kind # "APP_ONLY" THEN ACTION_trigger(d, b)
  ELSE d

ACTION_release(d, b) ==
  IF Holds(b) THEN KBD_code_release(d, b.steps[1][1], b.steps[1][2]) ELSE d

ACTION_releaseAll(d) == CON_releaseAll(KBD_releaseAll(d))

\* Mutant: no range check.
AcceptableAny(b) == TRUE

\* The range checks of ACTION_applyPacket on the action kind and the count; a
\* kind out of range is "invalid".
Acceptable(b) == b.kind \in Kinds /\ b.count <= MaxSteps
=============================================================================
