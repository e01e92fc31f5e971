-------------------------- MODULE LedControlProofs --------------------------
(***************************************************************************)
(* Proofs about LedControl, for every set of commands, every width of the  *)
(* animation tick and every clock: no value of the level arithmetic leaves *)
(* a byte (TypeOK), every key's pixel shows the colour configured for it   *)
(* (KeysShowTheirColors), and blink and pulse keep their shape at every    *)
(* period and brightness (EffectsKeepShape).                               *)
(*                                                                         *)
(* What a byte becomes on the wire and what the gamma table holds are      *)
(* finite tables: BitsMakeTheByte, PulsesKeepLimits and GammaShape are     *)
(* decided by evaluating them.                                             *)
(***************************************************************************)
EXTENDS LedControl, TLAPS

(* Division and bytes.                                                     *)

\* The largest element of one-element sets.
LEMMA MaxOfOne == ASSUME NEW a \in Int
                  PROVE  Max({a}) = a
<1>1. \E x \in {a} : \A y \in {a} : x >= y
  OBVIOUS
<1> QED
  BY <1>1, Zenon DEF Max

\* One more summand raises a quotient by at most its own quotient and one.
LEMMA QuotientStep == ASSUME NEW x \in Nat, NEW b \in Nat, NEW h \in Nat \ {0}
                      PROVE  /\ x \div h \in Nat /\ (x + b) \div h \in Nat /\ b \div h \in Nat
                             /\ x \div h <= (x + b) \div h
                             /\ (x + b) \div h <= x \div h + b \div h + 1
OBVIOUS

\* A quotient does not grow with its divisor.
LEMMA QuotientFalls == ASSUME NEW b \in Nat, NEW h \in Nat \ {0}, NEW k \in Nat \ {0}, h <= k
                       PROVE  b \div k <= b \div h
OBVIOUS

\* An exact quotient.
LEMMA QuotientExact == ASSUME NEW b \in Nat, NEW h \in Nat \ {0}
                       PROVE  (b * h) \div h = b /\ 0 \div h = 0
OBVIOUS

\* A share of a number is at most the number.
LEMMA Share == ASSUME NEW b \in Nat, NEW n \in Nat, NEW h \in Nat \ {0}, n <= h
               PROVE  (b * n) \div h \in Nat /\ (b * n) \div h <= b
OBVIOUS

\* Products one factor apart.
LEMMA NextProduct == ASSUME NEW b \in Nat, NEW n \in Nat
                     PROVE  b * n \in Nat /\ b * (n + 1) = b * n + b
OBVIOUS

-----------------------------------------------------------------------------
(* Levels.                                                                 *)

\* The level of a pulse, in plain numbers: up to half, and down again.
Up(b, n, h)      == (b * n) \div h
Down(b, n, p, k) == (b * (p - n)) \div k

\* The two halves of a period.
LEMMA Halves == ASSUME NEW c \in Config
                PROVE  /\ Period(c) = c.period /\ c.period \in Nat /\ c.period >= 5
                       /\ c.period <= 255 /\ c.brightness \in Nat /\ c.brightness <= 255
                       /\ c.period \div 2 \in Nat \ {0} /\ c.period \div 2 >= 2
                       /\ c.period - c.period \div 2 \in Nat \ {0}
                       /\ c.period \div 2 <= c.period - c.period \div 2
                       /\ 2 * (c.period \div 2) <= c.period
                       /\ c.period <= 2 * (c.period \div 2) + 1
<1>1. c.period \in 5 .. 255 /\ c.brightness \in 0 .. 255
  BY DEF Config, Byte
<1>2. \A p \in 5 .. 255 : /\ p \div 2 \in Nat \ {0} /\ p \div 2 >= 2 /\ p - p \div 2 \in Nat \ {0}
                          /\ p \div 2 <= p - p \div 2
                          /\ 2 * (p \div 2) <= p /\ p <= 2 * (p \div 2) + 1
  OBVIOUS
<1> QED
  BY <1>1, <1>2 DEF Period

\* No level exceeds the brightness.
LEMMA LevelBound == ASSUME NEW c \in Config, NEW n \in Nat, n < c.period
                    PROVE  LevelAt(c, n) \in Nat /\ LevelAt(c, n) <= c.brightness
<1> DEFINE b == c.brightness
           h == c.period \div 2
           k == c.period - h
<1>1. /\ Period(c) = c.period /\ c.period \in Nat /\ b \in Nat /\ h \in Nat \ {0}
      /\ k \in Nat \ {0} /\ h \in Nat /\ k = c.period - h
  BY Halves
<1>2. PulseLevel(c, n) = IF n <= h THEN Up(b, n, h) ELSE Down(b, n, c.period, k)
  BY <1>1 DEF PulseLevel, Up, Down
<1> HIDE DEF b, h, k
<1>3. n <= h => Up(b, n, h) \in Nat /\ Up(b, n, h) <= b
  BY <1>1, Share DEF Up
<1>4. ~(n <= h) => Down(b, n, c.period, k) \in Nat /\ Down(b, n, c.period, k) <= b
  <2>1. ASSUME ~(n <= h) PROVE c.period - n \in Nat /\ c.period - n <= k
    BY <1>1, <2>1
  <2> QED
    BY <1>1, <2>1, Share DEF Down
<1>5. PulseLevel(c, n) \in Nat /\ PulseLevel(c, n) <= b
  BY <1>2, <1>3, <1>4
<1>6. BlinkLevel(c, n) \in Nat /\ BlinkLevel(c, n) <= b
  BY <1>1 DEF BlinkLevel, b
<1>7. c.effect \in Effects
  BY DEF Config
<1> QED
  BY <1>1, <1>5, <1>6, <1>7 DEF LevelAt, Effects, b

\* A channel scaled by a level.
LEMMA ScaleBound == ASSUME NEW channel \in Byte, NEW level \in Byte
                    PROVE  ScaleChannel(channel, level) \in Byte
<1>1. channel \in Nat /\ channel <= 255 /\ level \in Nat /\ level <= 255
  BY DEF Byte
<1>2. (channel * level) \div 255 \in Nat /\ (channel * level) \div 255 <= channel
  BY <1>1, Share
<1> HIDE DEF Byte
<1>3. (channel * level) \div 255 \in 0 .. 255
  BY <1>1, <1>2
<1> QED
  BY <1>3 DEF ScaleChannel, Byte

\* Every colour is made of bytes.
LEMMA ColorBytes == ASSUME NEW c \in Config, NEW tick \in Nat
                    PROVE  Color(c, tick) \in [1 .. 3 -> Byte]
<1>1. Phase(c, tick) \in Nat /\ Phase(c, tick) < c.period
  <2>1. Period(c) = c.period /\ c.period \in Nat \ {0}
    BY Halves
  <2>2. \A p \in Nat \ {0} : tick % p \in Nat /\ tick % p < p
    OBVIOUS
  <2> QED
    BY <2>1, <2>2 DEF Phase
<1>2. EffectLevel(c, tick) \in Byte
  <2>1. EffectLevel(c, tick) \in Nat /\ EffectLevel(c, tick) <= c.brightness
    BY <1>1, LevelBound DEF EffectLevel
  <2>2. c.brightness \in Nat /\ c.brightness <= 255
    BY Halves
  <2> QED
    BY <2>1, <2>2 DEF Byte
<1>3. \A ch \in 1 .. 3 : c.color[ch] \in Byte
  BY DEF Config
<1>4. \A ch \in 1 .. 3 : ScaleChannel(c.color[ch], EffectLevel(c, tick)) \in Byte
  BY <1>2, <1>3, ScaleBound
<1> QED
  BY <1>4 DEF Color

-----------------------------------------------------------------------------
(* The shape of the effects.                                               *)

\* A pulse climbs by at most its share of the brightness and one.
LEMMA Climbs == ASSUME NEW b \in Nat, NEW n \in Nat, NEW h \in Nat \ {0}
                PROVE  /\ Up(b, n, h) \in Nat /\ Up(b, n + 1, h) \in Nat
                       /\ Distance(Up(b, n, h), Up(b, n + 1, h)) <= b \div h + 1
<1>1. b * n \in Nat /\ b * (n + 1) = b * n + b
  BY NextProduct
<1> DEFINE x == (b * n) \div h
           y == (b * n + b) \div h
<1>2. x \in Nat /\ y \in Nat /\ b \div h \in Nat /\ x <= y /\ y <= x + b \div h + 1
  BY <1>1, QuotientStep
<1>3. Up(b, n, h) = x /\ Up(b, n + 1, h) = y
  BY <1>1 DEF Up
<1> HIDE DEF x, y
<1>4. Distance(x, y) <= b \div h + 1
  BY <1>2 DEF Distance
<1> QED
  BY <1>2, <1>3, <1>4

\* It falls no faster, as its second half is no shorter.
LEMMA Falls == ASSUME NEW b \in Nat, NEW p \in Nat, NEW n \in Nat, n < p,
                      NEW h \in Nat \ {0}, NEW k \in Nat \ {0}, h <= k
               PROVE  /\ Down(b, n, p, k) \in Nat /\ Down(b, n + 1, p, k) \in Nat
                      /\ Distance(Down(b, n, p, k), Down(b, n + 1, p, k)) <= b \div h + 1
<1> DEFINE m == p - (n + 1)
           x == Up(b, m, k)
           y == Up(b, m + 1, k)
<1>1. m \in Nat /\ m + 1 = p - n
  OBVIOUS
<1>2. Down(b, n, p, k) = y /\ Down(b, n + 1, p, k) = x
  BY <1>1 DEF Down, Up
<1> HIDE DEF m
<1>3. x \in Nat /\ y \in Nat /\ Distance(x, y) <= b \div k + 1
  BY <1>1, Climbs
<1>4. b \div k <= b \div h /\ b \div k \in Nat /\ b \div h \in Nat
  BY QuotientFalls, QuotientStep
<1> HIDE DEF x, y
<1>5. Distance(y, x) <= b \div h + 1
  <2> DEFINE q == b \div k
             r == b \div h
  <2>1. q <= r /\ q \in Nat /\ r \in Nat /\ Distance(x, y) <= q + 1
    BY <1>3, <1>4
  <2> HIDE DEF q, r
  <2>2. Distance(y, x) <= r + 1
    BY <1>3, <2>1 DEF Distance
  <2> QED
    BY <2>2 DEF r
<1> QED
  BY <1>2, <1>3, <1>5

\* A period of an effect has its shape, for every period and brightness.
LEMMA ShapeHolds == ASSUME NEW c \in Config
                    PROVE  OnePeriod(c)
<1> DEFINE p == c.period
           b == c.brightness
           h == p \div 2
           k == p - h
           level(n) == LevelAt(c, n % p)
<1>1. /\ Period(c) = p /\ p \in Nat /\ p >= 5 /\ b \in Nat /\ h \in Nat \ {0} /\ h >= 2
      /\ k \in Nat \ {0} /\ h <= k /\ k = p - h /\ 2 * h <= p /\ p <= 2 * h + 1
  BY Halves
<1>2. \A n \in 0 .. p - 1 : n % p = n
  <2>1. \A q, n \in Nat : n < q => n % q = n
    OBVIOUS
  <2> HIDE DEF p
  <2>2. \A n \in 0 .. p - 1 : n \in Nat /\ n < p
    BY <1>1
  <2> QED
    BY <1>1, <2>1, <2>2
<1>3. p % p = 0
  BY <1>1
<1>4. CASE c.effect = "BLINK"
  <2>1. ASSUME NEW n \in 0 .. p - 1
        PROVE  level(n) = IF 2 * n < p THEN b ELSE 0
    <3>1. level(n) = BlinkLevel(c, n)
      BY <1>2, <1>4 DEF LevelAt
    <3>2. n < (p + 1) \div 2 <=> 2 * n < p
      BY <1>1
    <3> QED
      BY <1>1, <3>1, <3>2 DEF BlinkLevel, BlinkOn
  <2> QED
    BY <1>4, <2>1 DEF OnePeriod
<1>5. CASE c.effect = "PULSE"
  <2>1. \A n \in 0 .. p - 1 : level(n) = IF n <= h THEN Up(b, n, h) ELSE Down(b, n, p, k)
    <3> TAKE n \in 0 .. p - 1
    <3>1. level(n) = PulseLevel(c, n)
      BY <1>2, <1>5 DEF LevelAt
    <3>2. PulseLevel(c, n) = IF n <= h THEN Up(b, n, h) ELSE Down(b, n, p, k)
      BY <1>1 DEF PulseLevel, Up, Down
    <3> QED
      BY <3>1, <3>2
  <2>2. level(p) = level(0)
    <3>1. 0 % p = 0
      BY <1>1
    <3> QED
      BY <1>3, <3>1
  <2> HIDE DEF p, b, h, k, level
  <2>3. Up(b, 0, h) = 0 /\ Up(b, h, h) = b /\ Down(b, h, p, k) = b /\ Down(b, p, p, k) = 0
    <3>1. (b * h) \div h = b /\ (b * k) \div k = b /\ 0 \div h = 0 /\ 0 \div k = 0
      BY <1>1, QuotientExact
    <3>2. b * 0 = 0 /\ p - h = k /\ p - p = 0
      BY <1>1
    <3> QED
      BY <3>1, <3>2 DEF Up, Down
  <2>4. level(0) = 0 /\ level(h) = b
    BY <1>1, <2>1, <2>3
  <2>5. ASSUME NEW n \in 0 .. p - 1
        PROVE  Distance(level(n), level(n + 1)) <= b \div h + 1
    <3>1. n \in Nat /\ n < p /\ n + 1 <= p
      BY <1>1
    <3>2. CASE n < h
      <4>1. level(n) = Up(b, n, h) /\ level(n + 1) = Up(b, n + 1, h)
        <5>1. n + 1 \in 0 .. p - 1 /\ n + 1 <= h /\ n <= h
          BY <1>1, <3>1, <3>2
        <5> QED
          BY <2>1, <5>1
      <4> QED
        BY <1>1, <3>1, <4>1, Climbs
    <3>3. CASE ~(n < h)
      <4>1. level(n) = Down(b, n, p, k)
        <5>1. CASE n = h
          BY <2>3, <2>4, <5>1
        <5>2. CASE n # h
          <6>1. ~(n <= h)
            BY <1>1, <3>1, <3>3, <5>2
          <6> QED
            BY <2>1, <6>1
        <5> QED
          BY <5>1, <5>2
      <4>2. level(n + 1) = Down(b, n + 1, p, k)
        <5>1. CASE n + 1 = p
          BY <2>2, <2>3, <2>4, <5>1
        <5>2. CASE n + 1 # p
          <6>1. n + 1 \in 0 .. p - 1 /\ ~(n + 1 <= h)
            BY <1>1, <3>1, <3>3, <5>2
          <6> QED
            BY <2>1, <6>1
        <5> QED
          BY <5>1, <5>2
      <4>3. Distance(Down(b, n, p, k), Down(b, n + 1, p, k)) <= b \div h + 1
        BY <1>1, <3>1, Falls
      <4> QED
        BY <4>1, <4>2, <4>3
    <3> QED
      BY <3>2, <3>3
  <2>6. /\ level(0) = 0 /\ level(h) = b
        /\ \A n \in 0 .. p - 1 : Distance(level(n), level(n + 1)) <= b \div h + 1
    BY <2>4, <2>5
  <2> QED
    BY <1>5, <2>6 DEF OnePeriod, p, b, h, level
<1>6. CASE c.effect \notin {"BLINK", "PULSE"}
  BY <1>6 DEF OnePeriod
<1> QED
  BY <1>4, <1>5, <1>6

-----------------------------------------------------------------------------
(* The wire.                                                               *)

\* The chain hears the byte that was sent.
LEMMA HeardExact == ASSUME NEW data \in Byte
                    PROVE  Heard[data] = data
<1>1. \A n \in 1 .. 8 : Carry(data, n) \in {0, 1}
  BY BitsMakeTheByte DEF Byte
<1>2. ASSUME NEW n \in 1 .. 8
      PROVE  Level(NEO_sendByte(data)[n], FREQ_SYS) = Carry(data, n)
  <2>1. NEO_sendByte(data)[n] = Pulse(Carry(data, n), FREQ_SYS)
    BY DEF NEO_sendByte
  <2> QED
    BY <1>1, <2>1, PulsesKeepLimits, ClockAssumption
<1>3. [n \in 1 .. 8 |-> Level(NEO_sendByte(data)[n], FREQ_SYS)] = [n \in 1 .. 8 |-> Carry(data, n)]
  BY <1>2
<1>4. Heard[data] = Value([n \in 1 .. 8 |-> Level(NEO_sendByte(data)[n], FREQ_SYS)])
  BY DEF Heard, Byte
<1>5. Value([n \in 1 .. 8 |-> Carry(data, n)]) = data
  BY BitsMakeTheByte DEF Byte
<1> QED
  BY <1>3, <1>4, <1>5

\* A pixel shows the colour written for it.
LEMMA ColorExact == ASSUME NEW r \in Byte, NEW g \in Byte, NEW b \in Byte
                    PROVE  Decoded(NEO_writeColor(r, g, b)) = <<Gamma(r), Gamma(g), Gamma(b)>>
<1>1. Gamma(r) \in Byte /\ Gamma(g) \in Byte /\ Gamma(b) \in Byte
  BY GammaShape DEF Byte
<1> QED
  BY <1>1, HeardExact DEF NEO_writeColor, Decoded

\* With a rest before the first pixel only, every item of the wire reaches its own
\* pixel.
LEMMA ChainExact == ASSUME NEW before, DOMAIN before = 1 .. 6, NEW frame
                    PROVE  Displayed(before, Wire(frame, {1})) =
                             [n \in 1 .. 6 |-> LET c == frame[Chain[n]]
                                               IN  Decoded(NEO_writeColor(c[1], c[2], c[3]))]
<1> DEFINE wire == Wire(frame, {1})
<1>1. DOMAIN wire = 1 .. 6
  BY DEF Wire
<1>2. \A n \in 1 .. 6 : /\ wire[n].gap = (n \in {1})
                        /\ wire[n].bytes = LET c == frame[Chain[n]]
                                           IN  NEO_writeColor(c[1], c[2], c[3])
  BY DEF Wire
<1> HIDE DEF wire
<1>3. ASSUME NEW n \in 1 .. 6
      PROVE  Place(wire, n) = n
  <2>1. \A m \in 1 .. n : wire[m].gap <=> m = 1
    <3> TAKE m \in 1 .. n
    <3>1. m \in 1 .. 6
      OBVIOUS
    <3>2. wire[m].gap = (m \in {1})
      BY <1>2, <3>1
    <3> QED
      BY <3>2, Zenon
  <2>2. {1} \cup {m \in 1 .. n : wire[m].gap} = {1}
    BY <2>1
  <2>3. Max({1}) = 1
    BY MaxOfOne
  <2> QED
    BY <2>2, <2>3 DEF Place
<1>4. ASSUME NEW q \in 1 .. 6
      PROVE  LET hits == {n \in DOMAIN wire : Place(wire, n) = q}
             IN  hits = {q} /\ Max(hits) = q
  <2>1. {n \in DOMAIN wire : Place(wire, n) = q} = {q}
    BY <1>1, <1>3
  <2>2. Max({q}) = q
    BY MaxOfOne
  <2> QED
    BY <2>1, <2>2
<1>5. \A q \in 1 .. 6 : LET hits == {n \in DOMAIN wire : Place(wire, n) = q}
                        IN  hits # {} /\ wire[Max(hits)].bytes = wire[q].bytes
  BY <1>4
<1>6. Displayed(before, wire) = [q \in 1 .. 6 |-> Decoded(wire[q].bytes)]
  BY <1>5 DEF Displayed
<1> QED
  BY <1>2, <1>6 DEF wire

-----------------------------------------------------------------------------
(* The invariants.                                                         *)

\* The picture that belongs to the configuration at a tick.
Picture(cfg, tick) == [n \in 1 .. 6 |-> LET c == Color(cfg[Chain[n]], tick)
                                        IN  <<Gamma(c[1]), Gamma(c[2]), Gamma(c[3])>>]

\* No command and no tick leaves an old picture.
Inv == TypeOK /\ shown = Picture(config, animationTick)

\* A picture is made of bytes.
LEMMA PictureBytes == ASSUME NEW cfg \in [LEDs -> Config], NEW tick \in Nat
                      PROVE  Picture(cfg, tick) \in [1 .. 6 -> [1 .. 3 -> Byte]]
<1>1. ASSUME NEW n \in 1 .. 6
      PROVE  LET c == Color(cfg[Chain[n]], tick)
             IN  <<Gamma(c[1]), Gamma(c[2]), Gamma(c[3])>> \in [1 .. 3 -> Byte]
  <2> DEFINE c == Color(cfg[Chain[n]], tick)
  <2>1. Chain[n] \in LEDs
    BY DEF Chain, LEDs
  <2>2. c \in [1 .. 3 -> Byte]
    BY <2>1, ColorBytes
  <2> HIDE DEF c
  <2>3. c[1] \in Byte /\ c[2] \in Byte /\ c[3] \in Byte
    BY <2>2
  <2>4. Gamma(c[1]) \in Byte /\ Gamma(c[2]) \in Byte /\ Gamma(c[3]) \in Byte
    BY <2>3, GammaShape DEF Byte
  <2>5. <<Gamma(c[1]), Gamma(c[2]), Gamma(c[3])>> \in [1 .. 3 -> Byte]
    BY <2>4
  <2> QED
    BY <2>5 DEF c
<1> QED
  BY <1>1 DEF Picture

\* Rendering shows the picture, whatever was shown before.
LEMMA RenderExact == ASSUME NEW before, DOMAIN before = 1 .. 6,
                            NEW cfg \in [LEDs -> Config], NEW tick \in Nat
                     PROVE  Displayed(before, Wire(Frame(cfg, tick), {1})) = Picture(cfg, tick)
<1> DEFINE frame == Frame(cfg, tick)
<1>1. ASSUME NEW n \in 1 .. 6
      PROVE  LET c == frame[Chain[n]]
                 d == Color(cfg[Chain[n]], tick)
             IN  Decoded(NEO_writeColor(c[1], c[2], c[3]))
                   = <<Gamma(d[1]), Gamma(d[2]), Gamma(d[3])>>
  <2> DEFINE d == Color(cfg[Chain[n]], tick)
  <2>1. Chain[n] \in LEDs
    BY DEF Chain, LEDs
  <2>2. d \in [1 .. 3 -> Byte]
    BY <2>1, ColorBytes
  <2>3. frame[Chain[n]] = d
    BY <2>1 DEF Frame
  <2> HIDE DEF d, frame
  <2>4. d[1] \in Byte /\ d[2] \in Byte /\ d[3] \in Byte
    BY <2>2
  <2>5. Decoded(NEO_writeColor(d[1], d[2], d[3])) = <<Gamma(d[1]), Gamma(d[2]), Gamma(d[3])>>
    BY <2>4, ColorExact
  <2> QED
    BY <2>3, <2>5 DEF d
<1> HIDE DEF frame
<1>2. Displayed(before, Wire(frame, {1})) =
        [n \in 1 .. 6 |-> LET c == frame[Chain[n]]
                          IN  Decoded(NEO_writeColor(c[1], c[2], c[3]))]
  BY ChainExact
<1> QED
  BY <1>1, <1>2 DEF Picture, frame

\* A command stores a configuration the effects are made for.
LEMMA PacketConfig == ASSUME NEW p \in Packet
                      PROVE  FromPacket(p) \in Config
<1>1. p.color \in [1 .. 3 -> Byte] /\ p.period \in 0 .. 255 /\ p.brightness \in Byte
  BY DEF Packet, Byte
<1>2. StoredPeriod(p.period) \in 5 .. 255
  BY <1>1 DEF StoredPeriod
<1>3. Effect(p.effect) \in Effects
  BY DEF Effect, Effects
<1> QED
  BY <1>1, <1>2, <1>3 DEF FromPacket, Config

\* Rendering keeps the invariant.
LEMMA RenderKeeps == ASSUME Inv, config' \in [LEDs -> Config],
                            animationTick' \in 0 .. TickWrap - 1, render
                     PROVE  Inv'
<1>1. animationTick' \in Nat /\ DOMAIN shown = 1 .. 6
  <2>1. \A t \in 0 .. TickWrap - 1 : t \in Nat
    BY TickAssumption
  <2> QED
    BY <2>1 DEF Inv, TypeOK
<1>2. shown' = Displayed(shown, Wire(Frame(config', animationTick'), {1}))
  BY DEF render, Rendered, Gaps
<1>3. shown' = Picture(config', animationTick')
  BY <1>1, <1>2, RenderExact
<1>4. shown' \in [1 .. 6 -> [1 .. 3 -> Byte]]
  BY <1>1, <1>3, PictureBytes
<1> QED
  BY <1>3, <1>4 DEF Inv, TypeOK, Picture

\* The invariant holds at the start.
LEMMA InitInv == Init => Inv
<1> SUFFICES ASSUME Init PROVE Inv
  OBVIOUS
<1>1. Default \in Config
  <2>1. /\ <<255, 255, 255>> \in [1 .. 3 -> Byte] /\ 50 \in 5 .. 255 /\ 48 \in Byte
    BY DEF Byte
  <2> QED
    BY <2>1 DEF Default, Config, Effects
<1>2. config \in [LEDs -> Config] /\ animationTick \in 0 .. TickWrap - 1 /\ animationTick \in Nat
  BY <1>1, TickAssumption DEF Init
<1>3. DOMAIN Dark = 1 .. 6
  BY DEF Dark
<1>4. shown = Picture(config, animationTick)
  BY <1>2, <1>3, RenderExact DEF Init
<1>5. shown \in [1 .. 6 -> [1 .. 3 -> Byte]]
  BY <1>2, <1>4, PictureBytes
<1> QED
  BY <1>2, <1>4, <1>5 DEF Inv, TypeOK

\* Every step keeps it.
LEMMA StepInv == Inv /\ [Next]_vars => Inv'
<1> SUFFICES ASSUME Inv, [Next]_vars PROVE Inv'
  OBVIOUS
<1>1. config \in [LEDs -> Config] /\ animationTick \in 0 .. TickWrap - 1
  BY DEF Inv, TypeOK
<1>2. ASSUME NEW p \in Packets, LED_applyPacket(p) PROVE Inv'
  <2>1. FromPacket(p) \in Config
    BY PacketConfig, PacketsAssumption
  <2>2. animationTick' = animationTick /\ render
    BY <1>2 DEF LED_applyPacket
  <2>3. CASE SetOne(p)
    <3>1. config' \in [LEDs -> Config]
      BY <1>1, <2>1, <2>3 DEF SetOne
    <3> QED
      BY <1>1, <2>2, <3>1, RenderKeeps
  <2>4. CASE SetAll(p)
    <3>1. config' \in [LEDs -> Config]
      BY <2>1, <2>4 DEF SetAll
    <3> QED
      BY <1>1, <2>2, <3>1, RenderKeeps
  <2>5. CASE AllOff(p)
    <3>1. \A c \in Config : [c EXCEPT !.effect = "OFF"] \in Config
      BY DEF Config, Effects
    <3>2. config' \in [LEDs -> Config]
      BY <1>1, <2>5, <3>1 DEF AllOff
    <3> QED
      BY <1>1, <2>2, <3>2, RenderKeeps
  <2> QED
    BY <1>2, <2>3, <2>4, <2>5 DEF LED_applyPacket
<1>3. CASE LED_tick20ms
  <2>1. config' \in [LEDs -> Config] /\ render /\ animationTick' = (animationTick + 1) % TickWrap
    BY <1>1, <1>3 DEF LED_tick20ms
  <2>2. \A t \in Nat, w \in Nat \ {0} : t % w \in 0 .. w - 1
    OBVIOUS
  <2>3. animationTick + 1 \in Nat
    BY <1>1, TickAssumption
  <2>4. animationTick' \in 0 .. TickWrap - 1
    BY <2>1, <2>2, <2>3, TickAssumption
  <2> QED
    BY <2>1, <2>4, RenderKeeps
<1>4. CASE UNCHANGED vars
  BY <1>4 DEF Inv, TypeOK, Picture, vars
<1> QED
  BY <1>2, <1>3, <1>4 DEF Next

\* The invariant holds throughout.
THEOREM Invariance == Spec => []Inv
<1> QED
  BY InitInv, StepInv, PTL DEF Spec

\* Every stored and every shown value is a byte, and no stored period is shorter than
\* five ticks.
THEOREM TypeCorrect == Spec => []TypeOK
<1>1. Inv => TypeOK
  BY DEF Inv
<1> QED
  BY <1>1, Invariance, PTL

\* At every moment each key shows the colour configured for it at the current tick.
THEOREM RightKeyRightColor == Spec => []KeysShowTheirColors
<1>1. Inv => KeysShowTheirColors
  <2> SUFFICES ASSUME Inv, NEW n \in 1 .. 6
               PROVE  LET c == Color(config[KeyOfPixel[n] - 1], animationTick)
                      IN  shown[n] = <<Gamma(c[1]), Gamma(c[2]), Gamma(c[3])>>
    BY DEF KeysShowTheirColors
  <2>1. KeyOfPixel[n] - 1 = Chain[n]
    BY DEF KeyOfPixel, Chain
  <2> QED
    BY <2>1 DEF Inv, Picture
<1> QED
  BY <1>1, Invariance, PTL

\* Blink and pulse keep their shape, whatever the host configures.
THEOREM ShapesKept == Spec => []EffectsKeepShape
<1>1. Inv => EffectsKeepShape
  <2>1. ASSUME Inv, NEW l \in LEDs PROVE OnePeriod(config[l])
    BY <2>1, ShapeHolds DEF Inv, TypeOK
  <2> QED
    BY <2>1 DEF EffectsKeepShape
<1> QED
  BY <1>1, Invariance, PTL
=============================================================================
