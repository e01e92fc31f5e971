---------------------------- MODULE MCLedControl ----------------------------
(***************************************************************************)
(* Instances of LedControl: commands to single LEDs and to all of them, at *)
(* the limits of a byte.                                                   *)
(***************************************************************************)
EXTENDS LedControl

Command(cmd, index, effect, color, period, brightness) ==
  [cmd |-> cmd, index |-> index, effect |-> effect, color |-> color,
   period |-> period, brightness |-> brightness]

\* One colour for one LED (6 is no LED), each effect for all of them at the limits of
\* period and brightness (200 names no effect), and off.
MCPackets ==
  {Command("SET_ONE", i, 1, <<255, 128, 1>>, 0, 255) : i \in 0 .. 6}
  \cup {Command("SET_ALL", 0, e, <<255, 254, 1>>, p, b) :
          e \in {2, 3}, p \in {4, 7, 254, 255}, b \in {1, 255}}
  \cup {Command("SET_ALL", 0, 200, <<0, 7, 255>>, 5, 200),
        Command("ALL_OFF", 0, 0, <<0, 0, 0>>, 0, 0)}

OnlyDefault == {}
=============================================================================
