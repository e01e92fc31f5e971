----------------------------- MODULE LedControl -----------------------------
(***************************************************************************)
(* The six addressable LEDs: their configuration from Raw HID packets, the *)
(* animation tick, the level of each effect in the code's byte arithmetic, *)
(* and the order in which render shifts the pixels out.                    *)
(*                                                                         *)
(* All of it runs in the main program.  A rendering is one step; interrupts *)
(* matter to it only where they would stretch the line into a latch.       *)
(* NeoPixel models the pulses and the chain.                               *)
(***************************************************************************)
EXTENDS NeoPixel

CONSTANTS Packets,  \* LED commands the host sends
          TickWrap  \* values of animationTick, a uint16_t (65536 in the code)

ASSUME TickAssumption == TickWrap \in Nat \ {0}

LEDs     == 0 .. 5
Byte     == 0 .. 255
Commands == {"SET_ONE", "SET_ALL", "ALL_OFF"}
Effects  == {"OFF", "STEADY", "BLINK", "PULSE"}

Packet == [cmd : Commands, index : Byte, effect : Byte,
           color : [1 .. 3 -> Byte], period : Byte, brightness : Byte]

ASSUME PacketsAssumption == Packets \subseteq Packet

VARIABLES config,         \* ledConfig
          animationTick,
          shown           \* colours of the chain, first pixel first

vars == <<config, animationTick, shown>>

Config == [effect : Effects, color : [1 .. 3 -> Byte], period : 5 .. 255, brightness : Byte]

-----------------------------------------------------------------------------
(* The level of an LED at a tick: scaleChannel and effectLevel.            *)

ScaleChannel(channel, level) == (channel * level) \div 255

\* The period in use; a stored one is never shorter than 5.
Period(c) == IF c.period < 5 THEN 5 ELSE c.period

Phase(c, tick) == tick % Period(c)

\* Mutant: the sum is kept in a byte.
BlinkOnByte(period) == ((period + 1) % 256) \div 2
BlinkOn(period)     == (period + 1) \div 2

BlinkLevel(c, phase) == IF phase < BlinkOn(Period(c)) THEN c.brightness ELSE 0

PulseLevel(c, phase) ==
  LET half == Period(c) \div 2
  IN  IF phase <= half THEN (c.brightness * phase) \div half
      ELSE (c.brightness * (Period(c) - phase)) \div (Period(c) - half)

LevelAt(c, phase) == CASE c.effect = "STEADY" -> c.brightness
                       [] c.effect = "BLINK"  -> BlinkLevel(c, phase)
                       [] c.effect = "PULSE"  -> PulseLevel(c, phase)
                       [] c.effect = "OFF"    -> 0

EffectLevel(c, tick) == LevelAt(c, Phase(c, tick))

Color(c, tick) == [ch \in 1 .. 3 |-> ScaleChannel(c.color[ch], EffectLevel(c, tick))]

-----------------------------------------------------------------------------
(* render.                                                                 *)

\* The logical LED of each pixel of the chain.
Chain == <<2, 1, 0, 5, 4, 3>>

\* frameRed, frameGreen and frameBlue, all prepared before the first pixel.
Frame(cfg, tick) == [l \in LEDs |-> Color(cfg[l], tick)]

\* Mutant: interrupts stay enabled.
GapsEnabled == {{1}} \cup {{1, n} : n \in 2 .. 6}

\* The pixels the line rests before: NEO_latch before the first; every frame is
\* prepared by then, and with EA = 0 nothing comes between two of them.
Gaps == {{1}}

Wire(frame, gaps) ==
  [n \in 1 .. 6 |-> LET c == frame[Chain[n]]
                    IN  [gap |-> n \in gaps, bytes |-> NEO_writeColor(c[1], c[2], c[3])]]

\* What the pixels show after rendering a frame; the set it may be of.
Rendered(before, frame) == {Displayed(before, Wire(frame, gaps)) : gaps \in Gaps}

render == shown' \in Rendered(shown, Frame(config', animationTick'))

Dark == [n \in 1 .. 6 |-> <<0, 0, 0>>]

Default == [effect |-> "STEADY", color |-> <<255, 255, 255>>, period |-> 50, brightness |-> 48]

Init == /\ animationTick = 0
        /\ config = [l \in LEDs |-> Default]
        /\ shown = Displayed(Dark, Wire(Frame(config, animationTick), {1}))

Effect(n) == CASE n = 1 -> "STEADY" [] n = 2 -> "BLINK" [] n = 3 -> "PULSE" [] OTHER -> "OFF"

\* Mutant: short periods are stored as they come.
StoredPeriodAny(n) == n
StoredPeriod(n)    == IF n < 5 THEN 5 ELSE n

\* setFromPacket, on an LED that exists.
FromPacket(p) == [effect |-> Effect(p.effect), color |-> p.color,
                  period |-> StoredPeriod(p.period), brightness |-> p.brightness]

SetOne(p) == /\ p.cmd = "SET_ONE"
             /\ config' = [l \in LEDs |-> IF l = p.index THEN FromPacket(p) ELSE config[l]]

SetAll(p) == /\ p.cmd = "SET_ALL"
             /\ config' = [l \in LEDs |-> FromPacket(p)]

AllOff(p) == /\ p.cmd = "ALL_OFF"
             /\ config' = [l \in LEDs |-> [config[l] EXCEPT !.effect = "OFF"]]

LED_applyPacket(p) == /\ SetOne(p) \/ SetAll(p) \/ AllOff(p)
                      /\ UNCHANGED animationTick
                      /\ render

LED_tick20ms == /\ animationTick' = (animationTick + 1) % TickWrap
                /\ UNCHANGED config
                /\ render

Next == \/ \E p \in Packets : LED_applyPacket(p)
        \/ LED_tick20ms

Spec == Init /\ [][Next]_vars

-----------------------------------------------------------------------------
\* Every stored and every shown value is a byte: no product or sum of the level
\* arithmetic leaves its width (led_control.c:25-49).
TypeOK == /\ config \in [LEDs -> Config]
          /\ animationTick \in 0 .. TickWrap - 1
          /\ shown \in [1 .. 6 -> [1 .. 3 -> Byte]]

\* "Their chain order is K3, K2, K1, K6, K5, K4" (HARDWARE_NOTES.md:23).
KeyOfPixel == <<3, 2, 1, 6, 5, 4>>

\* At every moment each key's pixel shows the colour configured for that key at the
\* current tick, after the gamma table: no index of render is repeated or crossed, no
\* channel or bit changes place on the wire, no pulse is misread and no rest between
\* two pixels sends the rest of the picture to the first ones, and no command leaves an
\* old picture (led_control.c:59-78, 107-129; neo.c:52-135).
KeysShowTheirColors ==
  \A n \in 1 .. 6 :
    LET c == Color(config[KeyOfPixel[n] - 1], animationTick)
    IN  shown[n] = <<Gamma(c[1]), Gamma(c[2]), Gamma(c[3])>>

Distance(m, n) == IF m < n THEN n - m ELSE m - n

\* One period of an effect, whatever its length: blink is on for its first half, the
\* longer one; pulse starts dark, reaches its brightness halfway, and never jumps, not
\* even where a period joins the next (led_control.c:29-49).
OnePeriod(c) ==
  LET phases == 0 .. c.period - 1
      level(n) == LevelAt(c, n % c.period)
      half == c.period \div 2
  IN  CASE c.effect = "BLINK" ->
             \A n \in phases : level(n) = IF 2 * n < c.period THEN c.brightness ELSE 0
        [] c.effect = "PULSE" ->
             /\ level(0) = 0 /\ level(half) = c.brightness
             /\ \A n \in phases : Distance(level(n), level(n + 1)) <= c.brightness \div half + 1
        [] OTHER -> TRUE

EffectsKeepShape == \A c \in {config[l] : l \in LEDs} : OnePeriod(c)

\* "period/20 ms" (PROTOCOL.md:24): from one tick to the next the phase of an LED
\* advances by one, modulo its period.
PeriodKept == [][animationTick' # animationTick =>
                   \A l \in LEDs : Phase(config[l], animationTick')
                                   = (Phase(config[l], animationTick) + 1) % config[l].period]_vars
=============================================================================
