------------------------------ MODULE NeoPixel ------------------------------
(***************************************************************************)
(* The pixel driver: the gamma table, the order of the channels, the       *)
(* pulses of a bit in clock cycles, and the chain that decodes them by     *)
(* their length.                                                           *)
(*                                                                         *)
(* A wire is a sequence of pixels [gap, bytes]: whether the line rested    *)
(* before it for long enough to latch the chain, and what the chain hears  *)
(* of the three bytes.                                                     *)
(***************************************************************************)
EXTENDS Integers, Sequences, FiniteSetsExt

CONSTANT FREQ_SYS  \* system clock in MHz

\* The clocks the delays are written for.
Frequencies == {6, 12, 16, 24}

ASSUME ClockAssumption == FREQ_SYS \in Frequencies

gamma8 == <<
    0,  0,  0,  0,  0,  0,  0,  0,  0,  0,  0,  0,  0,  0,  0,  0,
    0,  0,  0,  0,  0,  0,  0,  0,  0,  0,  0,  0,  1,  1,  1,  1,
    1,  1,  1,  1,  1,  1,  1,  1,  1,  2,  2,  2,  2,  2,  2,  2,
    2,  3,  3,  3,  3,  3,  3,  3,  4,  4,  4,  4,  4,  5,  5,  5,
    5,  6,  6,  6,  6,  7,  7,  7,  7,  8,  8,  8,  9,  9,  9, 10,
   10, 10, 11, 11, 11, 12, 12, 13, 13, 13, 14, 14, 15, 15, 16, 16,
   17, 17, 18, 18, 19, 19, 20, 20, 21, 21, 22, 22, 23, 24, 24, 25,
   25, 26, 27, 27, 28, 29, 29, 30, 31, 32, 32, 33, 34, 35, 35, 36,
   37, 38, 39, 39, 40, 41, 42, 43, 44, 45, 46, 47, 48, 49, 50, 50,
   51, 52, 54, 55, 56, 57, 58, 59, 60, 61, 62, 63, 64, 66, 67, 68,
   69, 70, 72, 73, 74, 75, 77, 78, 79, 81, 82, 83, 85, 86, 87, 89,
   90, 92, 93, 95, 96, 98, 99,101,102,104,105,107,109,110,112,114,
  115,117,119,120,122,124,126,127,129,131,133,135,137,138,140,142,
  144,146,148,150,152,154,156,158,160,162,164,167,169,171,173,175,
  177,180,182,184,186,189,191,193,196,198,200,203,205,208,210,213,
  215,218,220,223,225,228,231,233,236,239,241,244,247,249,252,255 >>

Gamma(value) == gamma8[value + 1]

-----------------------------------------------------------------------------
(* NEO_sendByte: a pulse is <<cycles high, cycles in all>>.                *)

T1H_DELAY(freq) == CASE freq = 24 -> 11 [] freq = 16 -> 6 [] freq = 12 -> 4 [] freq = 6 -> 0
TCT_DELAY(freq) == CASE freq = 24 -> 6 [] freq = 16 -> 2 [] OTHER -> 0

\* The pin is low again after the mov of a "0", after the clr of a "1".
Pulse(bit, freq) == <<IF bit = 1 THEN 2 + T1H_DELAY(freq) + 2 ELSE 2,
                      11 + T1H_DELAY(freq) + TCT_DELAY(freq)>>

\* The bit rlc moves to the carry in round n of the loop: MSB first.
Carry(data, n) == (data \div 2 ^ (8 - n)) % 2

NEO_sendByte(data) == [n \in 1 .. 8 |-> Pulse(Carry(data, n), FREQ_SYS)]

-----------------------------------------------------------------------------
(* The chain (external), within the limits the driver names.               *)

NoBit == 0 - 256

\* "T0H max. 500ns, T1H min. 625ns, TCT min. 1150ns".
Level(pulse, freq) == CASE pulse[2] * 1000 < 1150 * freq -> NoBit
                        [] pulse[1] * 1000 <= 500 * freq -> 0
                        [] pulse[1] * 1000 >= 625 * freq -> 1
                        [] OTHER -> NoBit

\* The byte of eight bits, MSB first.
Value(bits) == MapThenSumSet(LAMBDA n : bits[n] * 2 ^ (8 - n), 1 .. 8)

\* The byte the chain hears when one is sent.
Heard == [data \in 0 .. 255 |->
            Value([n \in 1 .. 8 |-> Level(NEO_sendByte(data)[n], FREQ_SYS)])]

NEO_writeColor(r, g, b) == <<Heard[Gamma(g)], Heard[Gamma(r)], Heard[Gamma(b)]>>

\* Red, green and blue of a pixel, which takes green first.
Decoded(bytes) == <<bytes[2], bytes[1], bytes[3]>>

\* The place in the chain item n of the wire reaches: one further than the item
\* before, or the first after a gap.
Place(wire, n) == n + 1 - Max({1} \cup {m \in 1 .. n : wire[m].gap})

\* What the pixels show after a wire, the rest of them what they showed before.
Displayed(before, wire) ==
  [p \in DOMAIN before |->
     LET hits == {n \in DOMAIN wire : Place(wire, n) = p}
     IN  IF hits = {} THEN before[p] ELSE Decoded(wire[Max(hits)].bytes)]

\* The pulses keep the limits at every clock the driver supports.
ASSUME PulsesKeepLimits ==
  \A freq \in Frequencies, bit \in {0, 1} : Level(Pulse(bit, freq), freq) = bit

\* The loop sends the eight bits of a byte, each in its place.
ASSUME BitsMakeTheByte ==
  \A data \in 0 .. 255 : /\ \A n \in 1 .. 8 : Carry(data, n) \in {0, 1}
                         /\ Value([n \in 1 .. 8 |-> Carry(data, n)]) = data

\* The table never darkens a brighter value, and keeps black and full.
ASSUME GammaShape == /\ Gamma(0) = 0 /\ Gamma(255) = 255
                     /\ \A v \in 0 .. 255 : Gamma(v) \in 0 .. 255
                     /\ \A v \in 0 .. 254 : Gamma(v) <= Gamma(v + 1)
=============================================================================
