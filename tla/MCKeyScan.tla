------------------------------ MODULE MCKeyScan -----------------------------
(***************************************************************************)
(* Instances of KeyScan: two keys and the encoder; bindings of one or two  *)
(* steps and of every kind.                                                *)
(***************************************************************************)
EXTENDS KeyScan

Ctrl == 0
Shift == 1
Gui == 3

Bind(kind, count, steps) == [kind |-> kind, count |-> count, steps |-> steps]
Hold(mods, code) == Bind("HOLD_KEYBOARD", 1, <<<<mods, code>>, <<{}, 0>>>>)

NoMap == [a \in 0 .. 127 |-> 0]

MCOrder == <<"K1", "K2", "encoder", "usb">>

HoldDefaults == [c \in Controls |->
  CASE c = "K1" -> Hold({Shift}, 4) [] c = "K2" -> Hold({Gui}, 5)
    [] OTHER -> SetKeyboard({}, 6)]

\* The keys' chords share a code or a modifier, with each other and with the taps of
\* the encoder; a consumer key, a control without an action of its own, and a binding
\* whose count is out of range.
MCBindings == {
  <<"K2", Hold({Shift, Gui}, 5)>>,
  <<"K2", Hold({}, 4)>>,
  <<"K2", Bind("APP_ONLY", 0, <<<<{}, 0>>, <<{}, 0>>>>)>>,
  <<"L", Bind("KEYBOARD", 2, <<<<{Shift}, 6>>, <<{Ctrl}, 4>>>>)>>,
  <<"R", Bind("CONSUMER", 1, <<<<{}, 233>>, <<{}, 0>>>>)>>,
  <<"K1", Bind("DISABLED", 3, <<<<{Shift}, 4>>, <<{}, 0>>>>)>>,
  <<"K1", Hold({Shift}, 4)>>}

NoCommands == {}
=============================================================================
