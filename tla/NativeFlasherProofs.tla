------------------------- MODULE NativeFlasherProofs -------------------------
(***************************************************************************)
(* Proofs about NativeFlasher, for any firmware files, sizes of words,     *)
(* chunks and sectors, one or two reply buffers and any number of runs:    *)
(* type correctness (TypeOK), only the measured board is erased and only   *)
(* by a flash run (OthersUntouched), erased and programmed words stay      *)
(* within the code flash and are blank before they are programmed          *)
(* (EraseFitsImage), and a run that reports success has flashed its image  *)
(* (SuccessMeansFlashed).                                                  *)
(***************************************************************************)
EXTENDS NativeFlasher, SequenceTheorems, TLAPS

(* The inductive invariant.                                                *)

Asks == {"DETECT", "CONFIG"}

\* A board that was not measured never says that its configuration is right.
BoardInv == board # "measured" =>
              /\ flash = Fresh
              /\ step \in Asks \cup {"idle"}
              /\ out # <<>> => out[1].cmd \in Asks
              /\ \A n \in DOMAIN in : in[n].cmd = "CONFIG" => ~in[n].ok

ModeInv == /\ mode = "preflight" => step \in Asks \cup {"idle"} /\ sent \subseteq Asks
           /\ mode = "session" => /\ step \in Asks \cup {"idle", "KEY"}
                                  /\ sent \subseteq Asks \cup {"KEY"}
           /\ step \in Asks \cup {"KEY"} => "ERASE" \notin sent
           /\ step # "idle" => exit = NoExit /\ Acceptable(image)
           /\ exit \in 2 .. 5 => "ERASE" \notin sent

\* How far the replies may be behind: the last command or reply is the program's own,
\* and up to the key the ones before it only ask.
LagInv ==
  /\ step = "idle" => ~waiting
  /\ waiting /\ out # <<>> => out[1] = [cmd |-> step, arg |-> Argument, of |-> image]
  /\ waiting /\ out = <<>> /\ in # <<>> => in[Len(in)].cmd = step
  /\ step = "CONFIG" /\ ~waiting => /\ out # <<>> => out[1].cmd = "DETECT"
                                    /\ out = <<>> /\ in # <<>> => in[Len(in)].cmd = "DETECT"
  /\ step = "CONFIG" /\ waiting => /\ out # <<>> /\ in # <<>> => in[Len(in)].cmd = "DETECT"
                                   /\ out = <<>> /\ Len(in) = 2 => in[1].cmd = "DETECT"
  /\ step = "KEY" => /\ ~waiting /\ out # <<>> => out[1].cmd \in Asks
                     /\ \A n \in DOMAIN in : \/ in[n].cmd \in Asks
                                             \/ waiting /\ out = <<>> /\ n = Len(in)
  /\ step \in {"ERASE", "PROGRAM", "VERIFY", "RESTART"} =>
       IF waiting THEN Len(in) + Len(out) <= 1 ELSE in = <<>> /\ out = <<>>

\* What the command on its way would do to the flash.
CommandInv == out # <<>> =>
                /\ out[1].cmd = "ERASE" => out[1].arg * SectorWords <= Boot
                /\ out[1].cmd = "PROGRAM" => \A w \in Chunk(out[1]) : flash[w] = "blank"

Answered == waiting /\ in # <<>>
Reached  == IF Answered THEN NextOffset ELSE offset

Blank(from) == \A w \in 0 .. ImageWords(image) - 1 : w >= from => flash[w] = "blank"
Holds(to)   == \A w \in 0 .. ImageWords(image) - 1 : w < to => flash[w] = image
Flashed     == \A w \in 0 .. ImageWords(image) - 1 : flash[w] = image

ProgressInv ==
  /\ step = "ERASE" /\ Answered /\ in[1].ok => Blank(0)
  /\ step = "PROGRAM" /\ handle => Blank(Reached)
  /\ step = "VERIFY" => Holds(offset) /\ (Answered /\ in[1].ok => Holds(NextOffset))
  /\ step = "RESTART" => Flashed
  /\ step = "idle" /\ mode = "flash" /\ exit \in {0, 9} =>
       Flashed /\ (out # <<>> => out[1].cmd \notin {"ERASE", "PROGRAM"})

Inv == TypeOK /\ BoardInv /\ ModeInv /\ LagInv /\ CommandInv /\ EraseFitsImage /\ ProgressInv

-----------------------------------------------------------------------------
(* Arithmetic of words, chunks and sectors.                                *)

\* The larger of two numbers.
LEMMA MaxOfTwo == ASSUME NEW a \in Int, NEW b \in Int
                  PROVE  /\ Max({a, b}) \in {a, b}
                         /\ Max({a, b}) >= a /\ Max({a, b}) >= b
<1>1. \E x \in {a, b} : \A y \in {a, b} : x >= y
  OBVIOUS
<1> QED
  BY <1>1, Zenon DEF Max

\* The smaller of two numbers.
LEMMA MinOfTwo == ASSUME NEW a \in Int, NEW b \in Int
                  PROVE  /\ Min({a, b}) \in {a, b}
                         /\ Min({a, b}) <= a /\ Min({a, b}) <= b
<1>1. \E x \in {a, b} : \A y \in {a, b} : x <= y
  OBVIOUS
<1> QED
  BY <1>1, Zenon DEF Min

\* The quotient rounded up covers the whole.
LEMMA CeilCovers == ASSUME NEW m \in Nat, NEW n \in Nat \ {0}
                    PROVE  Ceil(m, n) \in Nat /\ m <= Ceil(m, n) * n
BY DEF Ceil

\* It is the least number that does.
LEMMA CeilLeast == ASSUME NEW m \in Nat, NEW n \in Nat \ {0}, NEW q \in Nat, m <= q * n
                   PROVE  Ceil(m, n) <= q
BY DEF Ceil

\* Nothing is rounded up to zero but zero.
LEMMA CeilPositive == ASSUME NEW m \in Nat \ {0}, NEW n \in Nat \ {0}
                      PROVE  Ceil(m, n) > 0
BY DEF Ceil

\* An exact quotient.
LEMMA Exact == ASSUME NEW a \in Nat, NEW b \in Nat \ {0}, a % b = 0
               PROVE  a \div b \in Nat /\ (a \div b) * b = a
OBVIOUS

\* Products grow with their first factor.
LEMMA Grows == ASSUME NEW a \in Nat, NEW b \in Nat, NEW c \in Nat, a <= b
               PROVE  a * c <= b * c
OBVIOUS

\* Products may be bracketed anew.
LEMMA Rebracket == ASSUME NEW a \in Nat, NEW b \in Nat, NEW c \in Nat
                   PROVE  (a * b) * c = a * (b * c) /\ a * b \in Nat
OBVIOUS

\* The constants.
LEMMA Sizes == /\ WordBytes \in Nat \ {0} /\ ChunkWords \in Nat \ {0}
               /\ SectorBytes \in Nat \ {0} /\ MaxRuns \in Nat \ {0}
               /\ MinSectors \in Nat \ {0} /\ MaxSectors \in Nat \ {0}
               /\ MinSectors <= MaxSectors
               /\ MaxReplies \in Nat /\ MaxReplies <= 2 /\ MaxReplies >= 1
               /\ SectorWords \in Nat /\ SectorWords * WordBytes = SectorBytes
               /\ Boot \in Nat
<1>1. /\ WordBytes \in Nat \ {0} /\ ChunkWords \in Nat \ {0}
      /\ SectorBytes \in Nat \ {0} /\ MaxRuns \in Nat \ {0} /\ MaxSectors \in Nat \ {0}
      /\ SectorBytes % WordBytes = 0
  BY FlashAssumption
<1>2. MinSectors \in 1 .. MaxSectors /\ MaxReplies \in 1 .. 2
  BY FlashAssumption
<1>3. /\ MinSectors \in Nat \ {0} /\ MinSectors <= MaxSectors
      /\ MaxReplies \in Nat /\ MaxReplies <= 2 /\ MaxReplies >= 1
  BY <1>1, <1>2
<1>4. SectorWords \in Nat /\ SectorWords * WordBytes = SectorBytes
  BY <1>1, Exact DEF SectorWords
<1>5. Boot \in Nat
  BY <1>1, <1>4, Rebracket DEF Boot
<1> QED
  BY <1>1, <1>3, <1>4, <1>5

\* What a file takes up in words and sectors.
LEMMA ImageFacts == ASSUME NEW i \in Images
                    PROVE  /\ ImageSize[i] \in Nat /\ ImageWords(i) \in Nat
                           /\ EraseSectors(i) \in Nat
                           /\ Acceptable(i) => /\ ImageWords(i) > 0
                                               /\ ImageWords(i) <= EraseSectors(i) * SectorWords
                                               /\ EraseSectors(i) * SectorWords <= Boot
                                               /\ ImageWords(i) <= Boot
<1>1. ImageSize[i] \in Nat
  BY ImageAssumption
<1>2. ImageWords(i) \in Nat
  BY <1>1, Sizes, CeilCovers DEF ImageWords
<1>3. /\ Ceil(ImageSize[i], SectorBytes) \in Nat
      /\ ImageSize[i] <= Ceil(ImageSize[i], SectorBytes) * SectorBytes
  BY <1>1, Sizes, CeilCovers
<1> DEFINE c == Ceil(ImageSize[i], SectorBytes)
           e == EraseSectors(i)
<1>4. e \in Nat /\ c <= e
  <2>1. e = Max({MinSectors, c})
    BY DEF EraseSectors
  <2>2. MinSectors \in Int /\ c \in Int
    BY <1>3, Sizes
  <2> HIDE DEF c, e
  <2>3. e \in {MinSectors, c} /\ e >= MinSectors /\ e >= c
    BY <2>1, <2>2, MaxOfTwo
  <2>4. c \in Nat /\ MinSectors \in Nat
    BY <1>3, Sizes DEF c
  <2> QED
    BY <2>3, <2>4
<1> HIDE DEF e
<1>5. ASSUME Acceptable(i) PROVE e <= MaxSectors /\ ImageSize[i] > 0
  BY <1>1, <1>5, Sizes DEF Acceptable, e
<1>6. ASSUME Acceptable(i) PROVE ImageWords(i) <= e * SectorWords
  <2>1. c * SectorBytes <= e * SectorBytes
    BY <1>3, <1>4, Sizes, Grows
  <2>2. e * SectorBytes = (e * SectorWords) * WordBytes /\ e * SectorWords \in Nat
    BY <1>4, Sizes, Rebracket
  <2>3. c * SectorBytes \in Nat /\ e * SectorBytes \in Nat
    BY <1>3, <1>4, Sizes, Rebracket
  <2>4. ImageSize[i] <= (e * SectorWords) * WordBytes
    <3> HIDE DEF c
    <3> QED
      BY <1>1, <1>3, <2>1, <2>2, <2>3 DEF c
  <2> QED
    BY <1>1, <2>2, <2>4, Sizes, CeilLeast DEF ImageWords
<1>7. ASSUME Acceptable(i) PROVE e * SectorWords <= Boot
  BY <1>4, <1>5, <1>7, Sizes, Grows DEF Boot
<1>8. ASSUME Acceptable(i) PROVE ImageWords(i) > 0
  BY <1>1, <1>5, <1>8, Sizes, CeilPositive DEF ImageWords
<1>9. e * SectorWords \in Nat
  BY <1>4, Sizes, Rebracket
<1> QED
  BY <1>1, <1>2, <1>4, <1>6, <1>7, <1>8, <1>9, Sizes DEF e

-----------------------------------------------------------------------------
(* The pipes and the position in the file.                                 *)

\* Reading a reply.
LEMMA ReadFacts == ASSUME PipesType, in # <<>>
                   PROVE  /\ Len(in) \in {1, 2} /\ DOMAIN in = 1 .. Len(in)
                          /\ Head(in) = in[1] /\ in[1] \in Reply
                          /\ Tail(in) \in Seq(Reply)
                          /\ Len(Tail(in)) = Len(in) - 1
                          /\ \A n \in DOMAIN Tail(in) : Tail(in)[n] = in[n + 1]
                          /\ Len(in) = 1 => Tail(in) = <<>>
                          /\ Len(in) = 2 => Tail(in) # <<>>
<1>1. /\ Len(in) \in Nat \ {0} /\ DOMAIN in = 1 .. Len(in) /\ in \in Seq(Reply)
      /\ Len(in) <= 2
  BY EmptySeq, LenProperties, Sizes DEF PipesType
<1>2. /\ in[1] \in Reply /\ Head(in) = in[1] /\ Tail(in) \in Seq(Reply)
      /\ Len(Tail(in)) = Len(in) - 1
      /\ \A n \in 1 .. Len(Tail(in)) : Tail(in)[n] = in[n + 1]
  BY <1>1, HeadTailProperties, ElementOfSeq
<1>3. DOMAIN Tail(in) = 1 .. Len(Tail(in)) /\ (Tail(in) = <<>> <=> Len(Tail(in)) = 0)
  BY <1>2, LenProperties, EmptySeq
<1> QED
  BY <1>1, <1>2, <1>3

\* The command on its way.
LEMMA OutFacts == ASSUME PipesType, out # <<>>
                  PROVE  /\ Len(out) = 1 /\ Head(out) = out[1] /\ Tail(out) = <<>>
                         /\ out[1] \in Packet
<1>1. Len(out) = 1 /\ out \in Seq(Packet)
  <2>1. out \in Seq(Packet) /\ Len(out) <= 1
    BY DEF PipesType
  <2>2. Len(out) \in Nat \ {0}
    BY <2>1, EmptySeq
  <2> QED
    BY <2>1, <2>2
<1>2. out[1] \in Packet /\ Head(out) = out[1] /\ Tail(out) \in Seq(Packet) /\ Len(Tail(out)) = 0
  BY <1>1, HeadTailProperties, ElementOfSeq
<1> QED
  BY <1>1, <1>2, EmptySeq

\* What the loader's answer does to the pipes.
LEMMA AnswerFacts == ASSUME PipesType, out # <<>>, NEW ok \in BOOLEAN, Answer(ok)
                     PROVE  LET r == [cmd |-> out[1].cmd, ok |-> ok]
                            IN  /\ PipesType'
                                /\ out' = <<>> /\ in' # <<>>
                                /\ in'[Len(in')] = r /\ Len(in') \in {1, 2}
                                /\ DOMAIN in' = 1 .. Len(in')
                                /\ Len(in') = 2 => Len(in) = 1 /\ in'[1] = in[1] /\ in'[2] = r
                                /\ Len(in') = 1 => in'[1] = r
<1> DEFINE r == [cmd |-> out[1].cmd, ok |-> ok]
<1>1. r \in Reply /\ out' = <<>>
  BY OutFacts DEF Answer, Packet, Reply
<1>2. (Len(in) < MaxReplies /\ in' = Append(in, r)) \/ (in # <<>> /\ in' = <<r>>)
  BY OutFacts DEF Answer
<1> DEFINE After == /\ PipesType'
                    /\ out' = <<>> /\ in' # <<>>
                    /\ in'[Len(in')] = r /\ Len(in') \in {1, 2}
                    /\ DOMAIN in' = 1 .. Len(in')
                    /\ Len(in') = 2 => Len(in) = 1 /\ in'[1] = in[1] /\ in'[2] = r
                    /\ Len(in') = 1 => in'[1] = r
<1> SUFFICES After
  OBVIOUS
<1> HIDE DEF r
<1>3. CASE Len(in) < MaxReplies /\ in' = Append(in, r)
  <2>1. /\ in \in Seq(Reply) /\ Len(in) \in {0, 1}
        /\ MaxReplies \in Nat /\ MaxReplies <= 2
    <3>1. in \in Seq(Reply)
      BY DEF PipesType
    <3>2. MaxReplies \in Nat /\ MaxReplies <= 2
      BY Sizes
    <3>3. Len(in) \in Nat
      BY <3>1, LenProperties
    <3>4. Len(in) < MaxReplies
      BY <1>3
    <3>5. \A l, m \in Nat : m <= 2 /\ l < m => l = 0 \/ l = 1
      OBVIOUS
    <3>6. Len(in) = 0 \/ Len(in) = 1
      BY <3>2, <3>3, <3>4, <3>5, Zenon
    <3> QED
      BY <3>1, <3>2, <3>6
  <2>2. /\ in' \in Seq(Reply) /\ Len(in') = Len(in) + 1
        /\ in'[Len(in) + 1] = r /\ (Len(in) = 1 => in'[1] = in[1]) /\ in' # <<>>
    BY <1>1, <1>3, <2>1, AppendProperties
  <2>3. PipesType'
    BY <1>1, <1>3, <2>1, <2>2, EmptySeq DEF PipesType
  <2>4. DOMAIN in' = 1 .. Len(in')
    BY <2>2, LenProperties
  <2>5. in'[Len(in')] = r /\ in' # <<>> /\ Len(in') \in {1, 2}
    BY <2>1, <2>2
  <2>6. Len(in') = 2 => Len(in) = 1 /\ in'[1] = in[1] /\ in'[2] = r
    BY <2>1, <2>2
  <2>7. Len(in') = 1 => in'[1] = r
    BY <2>1, <2>2
  <2> QED
    BY <1>1, <2>3, <2>4, <2>5, <2>6, <2>7
<1>4. CASE in # <<>> /\ in' = <<r>>
  <2>1. in' \in Seq(Reply) /\ Len(in') = 1 /\ in'[1] = r /\ in' # <<>>
    BY <1>1, <1>4
  <2>2. PipesType'
    BY <1>1, <1>4, <2>1, Sizes, EmptySeq DEF PipesType
  <2>3. DOMAIN in' = 1 .. Len(in')
    BY <2>1, LenProperties
  <2> QED
    BY <1>1, <2>1, <2>2, <2>3
<1> QED
  BY <1>2, <1>3, <1>4

\* Where the next chunk starts: one chunk on, or the end of the file.
LEMMA OffsetFacts == ASSUME ProgramType
                     PROVE  /\ ImageWords(image) \in Nat
                            /\ NextOffset \in Nat /\ NextOffset <= ImageWords(image)
                            /\ \A w \in Nat : w < ImageWords(image) =>
                                 (w < NextOffset <=> w < offset + ChunkWords)
                            /\ Argument \in Nat
<1> DEFINE n == ImageWords(image)
<1>1. /\ n \in Nat /\ offset \in Nat /\ offset <= n /\ ChunkWords \in Nat \ {0}
      /\ EraseSectors(image) \in Nat
  BY Sizes, ImageFacts DEF ProgramType
<1> HIDE DEF n
<1>2. Min({ChunkWords, n - offset}) \in {ChunkWords, n - offset}
      /\ Min({ChunkWords, n - offset}) <= ChunkWords
      /\ Min({ChunkWords, n - offset}) <= n - offset
  <2>1. ChunkWords \in Int /\ n - offset \in Int
    BY <1>1
  <2> QED
    BY <2>1, MinOfTwo
<1>3. NextOffset = offset + Min({ChunkWords, n - offset})
  BY DEF NextOffset, n
<1>4. /\ NextOffset \in Nat /\ NextOffset <= n
      /\ \A w \in Nat : w < n => (w < NextOffset <=> w < offset + ChunkWords)
  <2> DEFINE x == Min({ChunkWords, n - offset})
  <2> HIDE DEF x
  <2>1. x \in {ChunkWords, n - offset} /\ x <= ChunkWords /\ x <= n - offset
        /\ NextOffset = offset + x
    BY <1>2, <1>3 DEF x
  <2> QED
    BY <1>1, <2>1
<1>5. Argument \in Nat
  BY <1>1 DEF Argument
<1> QED
  BY <1>1, <1>4, <1>5 DEF n

\* The words of the chunk at hand.
LEMMA ChunkFacts == ASSUME TypeOK, NEW c, c.arg = offset, c.of = image,
                           ImageWords(image) <= Boot
                    PROVE  Chunk(c) = {w \in 0 .. ImageWords(image) - 1 :
                                         w >= offset /\ w < NextOffset}
<1>1. /\ ImageWords(image) \in Nat
      /\ \A w \in Nat : w < ImageWords(image) => (w < NextOffset <=> w < offset + ChunkWords)
      /\ DOMAIN flash = 0 .. Boot /\ Boot \in Nat
  BY OffsetFacts, Sizes DEF TypeOK, LoaderType
<1>2. offset \in Nat /\ ChunkWords \in Nat /\ NextOffset \in Nat
  BY OffsetFacts, Sizes DEF TypeOK, ProgramType
<1>3. Chunk(c) = {w \in 0 .. Boot : w >= offset /\ w < offset + ChunkWords
                                    /\ w < ImageWords(image)}
  BY <1>1 DEF Chunk
<1>4. \A w : w \in Chunk(c) <=> w \in {v \in 0 .. ImageWords(image) - 1 :
                                         v >= offset /\ v < NextOffset}
  BY <1>1, <1>2, <1>3
<1> QED
  BY <1>4

-----------------------------------------------------------------------------
(* Type correctness.                                                       *)

\* What the flash may hold.
LEMMA ContentsFacts == /\ \A i \in Images : i \in Contents /\ i \notin Marks
                       /\ {"factory", "blank", "bad", "mixed", "boot"} \subseteq Contents
BY ImageAssumption DEF Contents, Marks

\* The board comes with the boot loader in place.
LEMMA FreshFacts == /\ Fresh \in [0 .. Boot -> Contents]
                    /\ Fresh[Boot] = "boot" /\ \A w \in 0 .. Boot : Fresh[w] # "mixed"
<1>1. Boot \in 0 .. Boot
  BY Sizes
<1> QED
  BY <1>1, ContentsFacts DEF Fresh

\* The invariant holds at the start.
LEMMA InitInv == Init => Inv
<1> SUFFICES ASSUME Init PROVE Inv
  OBVIOUS
<1> USE DEF Init
<1>1. out = <<>> /\ in = <<>> /\ DOMAIN in = {}
  OBVIOUS
<1>2. ProgramType
  <2>1. waiting \in BOOLEAN /\ handle \in BOOLEAN /\ sent \subseteq Commands
    BY Zenon
  <2>2. runs \in 0 .. MaxRuns /\ exit \in -1 .. 9 /\ offset \in Nat /\ offset = 0
    BY Sizes DEF NoExit
  <2> QED
    BY <2>1, <2>2 DEF ProgramType
<1>3. LoaderType
  BY FreshFacts DEF LoaderType
<1>4. PipesType
  BY <1>1, EmptySeq, Sizes DEF PipesType
<1>5. BoardInv /\ LagInv /\ CommandInv
  BY <1>1 DEF BoardInv, LagInv, CommandInv, Asks
<1>6. ModeInv
  BY DEF ModeInv, Asks, NoExit
<1>7. EraseFitsImage
  BY FreshFacts DEF EraseFitsImage, Fresh
<1>8. ProgressInv
  BY DEF ProgressInv, NoExit
<1> QED
  BY <1>2, <1>3, <1>4, <1>5, <1>6, <1>7, <1>8 DEF Inv, TypeOK

\* The return code of the step that failed.
LEMMA FailCodes == ASSUME step \in Commands
                   PROVE  /\ FailCode \in 4 .. 9
                          /\ FailCode = 9 => step = "RESTART"
                          /\ FailCode \in 2 .. 5 => step \in Asks \cup {"KEY"}
BY DEF FailCode, Commands, Asks

-----------------------------------------------------------------------------
(* The program's steps.                                                    *)

\* The program reads a reply, or leaves the pipe alone.
Reads == in' = in \/ (in # <<>> /\ in' = Tail(in))

\* What is read is gone; the rest stays in order.
LEMMA ReadsFacts == ASSUME PipesType, Reads, out' = out
                    PROVE  /\ PipesType'
                           /\ \A n \in DOMAIN in' : \E m \in DOMAIN in : in'[n] = in[m]
<1>1. CASE in' = in
  BY <1>1 DEF PipesType
<1>2. CASE in # <<>> /\ in' = Tail(in)
  <2>1. /\ Len(in) \in {1, 2} /\ DOMAIN in = 1 .. Len(in)
        /\ in' \in Seq(Reply) /\ Len(in') = Len(in) - 1
        /\ \A n \in DOMAIN in' : in'[n] = in[n + 1]
    BY <1>2, ReadFacts
  <2>2. DOMAIN in' = 1 .. Len(in')
    BY <2>1, LenProperties
  <2>3. \A n \in DOMAIN in' : n + 1 \in DOMAIN in
    BY <2>1, <2>2
  <2>4. Len(in) \in Nat /\ Len(in) <= MaxReplies /\ MaxReplies \in Nat /\ out \in Seq(Packet)
        /\ Len(out) <= 1
    BY <2>1, Sizes DEF PipesType
  <2>5. Len(in') <= MaxReplies
    BY <2>1, <2>4
  <2>6. PipesType'
    BY <2>1, <2>4, <2>5 DEF PipesType
  <2> QED
    BY <2>1, <2>3, <2>6
<1> QED
  BY <1>1, <1>2 DEF Reads

\* The flash and the command on its way are as they were.
LEMMA CommandKept == ASSUME Inv, UNCHANGED <<board, flash, key>>, UNCHANGED out
                     PROVE  LoaderType' /\ CommandInv' /\ EraseFitsImage'
<1>1. LoaderType'
  BY DEF Inv, TypeOK, LoaderType
<1>2. CommandInv'
  BY DEF Inv, CommandInv, Chunk
<1>3. EraseFitsImage'
  BY DEF Inv, EraseFitsImage
<1> QED
  BY <1>1, <1>2, <1>3

\* The program ends, whether done, failed or stopped.
LEMMA EndKeeps == ASSUME Inv, step # "idle", NEW code \in -1 .. 9, End(code),
                         UNCHANGED <<loader, out>>, Reads,
                         code \in 2 .. 5 => step \in Asks \cup {"KEY"},
                         mode = "flash" /\ code \in {0, 9} => step = "RESTART"
                  PROVE  Inv'
<1>1. /\ step' = "idle" /\ exit' = code /\ waiting' = FALSE /\ handle' = FALSE
      /\ UNCHANGED <<offset, sent, mode, image, runs>>
      /\ UNCHANGED <<board, flash, key>> /\ UNCHANGED out
  BY DEF End, run, loader
<1>2. ProgramType'
  <2>1. waiting' \in BOOLEAN /\ handle' \in BOOLEAN
    BY <1>1, Zenon
  <2> QED
    BY <1>1, <2>1 DEF Inv, TypeOK, ProgramType, ImageWords
<1>3. LoaderType' /\ CommandInv' /\ EraseFitsImage'
  BY <1>1, CommandKept
<1>4. PipesType' /\ \A n \in DOMAIN in' : \E m \in DOMAIN in : in'[n] = in[m]
  BY <1>1, ReadsFacts DEF Inv, TypeOK
<1>5. BoardInv'
  BY <1>1, <1>4 DEF Inv, BoardInv, Fresh
<1>6. ModeInv'
  BY <1>1 DEF Inv, ModeInv, Asks
<1>7. LagInv'
  BY <1>1 DEF LagInv, Asks
<1>8. ProgressInv'
  <2>1. SUFFICES ASSUME mode = "flash", code \in {0, 9}
                 PROVE  Flashed' /\ (out # <<>> => out[1].cmd \notin {"ERASE", "PROGRAM"})
    BY <1>1 DEF ProgressInv
  <2>2. step = "RESTART" /\ Flashed
    BY <2>1 DEF Inv, ProgressInv
  <2>3. Flashed'
    BY <1>1, <2>2 DEF Flashed, ImageWords
  <2>4. out # <<>> => out[1].cmd = "RESTART"
    <3>1. ~waiting => out = <<>>
      BY <2>2 DEF Inv, LagInv
    <3>2. waiting /\ out # <<>> => out[1] = [cmd |-> step, arg |-> Argument, of |-> image]
      BY DEF Inv, LagInv
    <3> QED
      BY <2>2, <3>1, <3>2
  <2> QED
    BY <2>3, <2>4
<1> QED
  BY <1>2, <1>3, <1>4, <1>5, <1>6, <1>7, <1>8 DEF Inv, TypeOK

\* The program goes on to its next command: what does not depend on which.
LEMMA ContinueKeeps == ASSUME Inv, step # "idle", NEW next \in Commands, NEW at \in Nat,
                              Continue(next, at), UNCHANGED <<loader, out>>, Reads,
                              at = 0 \/ at < ImageWords(image),
                              board # "measured" => next \in Asks,
                              mode = "preflight" => next \in Asks,
                              mode = "session" => next \in Asks \cup {"KEY"},
                              next \in Asks \cup {"KEY"} => step \in Asks \cup {"KEY"}
                       PROVE  TypeOK' /\ BoardInv' /\ ModeInv' /\ CommandInv' /\ EraseFitsImage'
<1>1. /\ step' = next /\ offset' = at /\ waiting' = FALSE
      /\ UNCHANGED <<exit, handle, sent, mode, image, runs>>
      /\ UNCHANGED <<board, flash, key>> /\ UNCHANGED out
  BY DEF Continue, run, loader
<1>2. ProgramType'
  <2>1. waiting' \in BOOLEAN /\ handle' \in BOOLEAN
    BY <1>1, Zenon DEF Inv, TypeOK, ProgramType
  <2> QED
    BY <1>1, <2>1 DEF Inv, TypeOK, ProgramType, ImageWords
<1>3. LoaderType' /\ CommandInv' /\ EraseFitsImage'
  BY <1>1, CommandKept
<1>4. PipesType' /\ \A n \in DOMAIN in' : \E m \in DOMAIN in : in'[n] = in[m]
  BY <1>1, ReadsFacts DEF Inv, TypeOK
<1>5. BoardInv'
  BY <1>1, <1>4 DEF Inv, BoardInv, Fresh
<1>6. ModeInv'
  BY <1>1 DEF Inv, ModeInv, Asks, Acceptable, EraseSectors
<1> QED
  BY <1>2, <1>3, <1>4, <1>5, <1>6 DEF TypeOK

\* A new run, whatever the pipes and the flash hold.
LEMMA BeginKeeps == ASSUME Inv, NEW m \in Modes, NEW i \in Images, Begin(m, i)
                    PROVE  Inv'
<1>1. /\ step = "idle" /\ runs < MaxRuns /\ runs' = runs + 1
      /\ mode' = m /\ image' = i /\ offset' = 0 /\ waiting' = FALSE /\ sent' = {}
      /\ handle' \in {TRUE, FALSE} /\ UNCHANGED <<board, flash, key>> /\ UNCHANGED out
      /\ UNCHANGED in
      /\ \/ step' = "idle" /\ exit' \in {2, 3}
         \/ step' = "DETECT" /\ exit' = NoExit /\ Acceptable(i)
  BY DEF Begin, loader, pipes
<1>2. ProgramType'
  <2>1. waiting' \in BOOLEAN /\ handle' \in BOOLEAN
    BY <1>1, Zenon
  <2>2. runs' \in 0 .. MaxRuns
    BY <1>1, Sizes DEF Inv, TypeOK, ProgramType
  <2>3. exit' \in -1 .. 9 /\ step' \in Commands \cup {"idle"}
    BY <1>1 DEF NoExit, Commands
  <2> QED
    BY <1>1, <2>1, <2>2, <2>3 DEF ProgramType
<1>3. LoaderType' /\ CommandInv' /\ EraseFitsImage'
  BY <1>1, CommandKept
<1>4. PipesType'
  BY <1>1 DEF Inv, TypeOK, PipesType
<1>5. BoardInv'
  BY <1>1 DEF Inv, BoardInv, Fresh, Asks
<1>6. ModeInv'
  BY <1>1 DEF ModeInv, Asks, NoExit, Acceptable, EraseSectors
<1>7. LagInv'
  BY <1>1 DEF LagInv
<1>8. ProgressInv'
  BY <1>1 DEF ProgressInv
<1> QED
  BY <1>2, <1>3, <1>4, <1>5, <1>6, <1>7, <1>8 DEF Inv, TypeOK

\* A command is sent.
LEMMA SendKeeps == ASSUME Inv, Send
                   PROVE  Inv'
<1> DEFINE c == [cmd |-> step, arg |-> Argument, of |-> image]
<1>1. /\ step # "idle" /\ ~waiting /\ handle /\ out = <<>> /\ out' = Append(out, c)
      /\ waiting' = TRUE /\ sent' = sent \cup {step}
      /\ UNCHANGED <<step, offset, exit, handle, mode, image, runs>>
      /\ UNCHANGED <<board, flash, key>> /\ UNCHANGED in
  BY DEF Send, run, loader
<1>2. step \in Commands /\ image \in Images /\ Argument \in Nat /\ c \in Packet
  <2>1. step \in Commands /\ image \in Images /\ Argument \in Nat
    BY <1>1, OffsetFacts DEF Inv, TypeOK, ProgramType
  <2> QED
    BY <2>1 DEF Packet
<1>3. c.cmd = step /\ c.arg = Argument /\ c.of = image
  OBVIOUS
<1>4. Argument' = Argument /\ ImageWords(image)' = ImageWords(image) /\ NextOffset' = NextOffset
      /\ \A n : Blank(n)' = Blank(n) /\ Holds(n)' = Holds(n)
      /\ Flashed' = Flashed
  BY <1>1 DEF Argument, EraseSectors, ImageWords, NextOffset, Blank, Holds, Flashed
<1> HIDE DEF c
<1>5. out' # <<>> /\ out'[1] = c /\ out' \in Seq(Packet) /\ Len(out') = 1
  BY <1>1, <1>2
<1>6. ProgramType'
  <2>1. waiting' \in BOOLEAN /\ handle' \in BOOLEAN
    BY <1>1, Zenon DEF Inv, TypeOK, ProgramType
  <2> QED
    BY <1>1, <1>2, <1>4, <2>1 DEF Inv, TypeOK, ProgramType
<1>7. LoaderType' /\ EraseFitsImage'
  BY <1>1 DEF Inv, TypeOK, LoaderType, EraseFitsImage
<1>8. PipesType'
  BY <1>1, <1>5 DEF Inv, TypeOK, PipesType
<1>9. BoardInv'
  BY <1>1, <1>3, <1>5 DEF Inv, BoardInv, Fresh, Asks
<1>10. ModeInv'
  <2>1. exit = NoExit /\ exit \notin 2 .. 5 /\ Acceptable(image)
    BY <1>1 DEF Inv, ModeInv, NoExit
  <2>2. mode = "preflight" => step \in Asks /\ sent \cup {step} \subseteq Asks
    BY <1>1 DEF Inv, ModeInv
  <2>3. mode = "session" => /\ step \in Asks \cup {"KEY"}
                            /\ sent \cup {step} \subseteq Asks \cup {"KEY"}
    BY <1>1 DEF Inv, ModeInv, Asks
  <2>4. step \in Asks \cup {"KEY"} => "ERASE" \notin sent \cup {step}
    BY DEF Inv, ModeInv, Asks
  <2>5. Acceptable(image)'
    BY <1>1, <2>1 DEF Acceptable, EraseSectors
  <2> QED
    BY <1>1, <2>1, <2>2, <2>3, <2>4, <2>5 DEF ModeInv
<1>11. LagInv'
  <2>1. out'[1] = [cmd |-> step, arg |-> Argument, of |-> image]'
    BY <1>1, <1>4, <1>5 DEF c
  <2>2. step = "CONFIG" /\ in # <<>> => in[Len(in)].cmd = "DETECT"
    BY <1>1 DEF Inv, LagInv
  <2>3. step = "KEY" => \A n \in DOMAIN in : in[n].cmd \in Asks
    BY <1>1 DEF Inv, LagInv
  <2>4. step \in {"ERASE", "PROGRAM", "VERIFY", "RESTART"} => Len(in) + Len(out') <= 1
    BY <1>1, <1>5, EmptySeq DEF Inv, LagInv
  <2> QED
    BY <1>1, <1>5, <2>1, <2>2, <2>3, <2>4 DEF LagInv
<1>12. CommandInv'
  <2>1. Acceptable(image)
    BY <1>1 DEF Inv, ModeInv
  <2>2. step = "ERASE" => c.arg * SectorWords <= Boot
    BY <1>2, <1>3, <2>1, ImageFacts DEF Argument
  <2>3. ASSUME step = "PROGRAM", NEW w \in Chunk(c)
        PROVE  flash[w] = "blank"
    <3>1. Blank(offset)
      BY <1>1, <2>3 DEF Inv, ProgressInv, Reached, Answered
    <3>2. w \in 0 .. ImageWords(image) - 1 /\ w >= offset
      <4>1. c.arg = offset /\ c.of = image /\ ImageWords(image) <= Boot
        BY <1>2, <1>3, <2>1, <2>3, ImageFacts DEF Argument
      <4> QED
        BY <2>3, <4>1, ChunkFacts DEF Inv
    <3> QED
      BY <3>1, <3>2 DEF Blank
  <2>4. Chunk(c)' = Chunk(c)
    BY <1>1 DEF Chunk, c, Argument, EraseSectors, ImageWords
  <2>5. c' = c
    BY <1>1, <1>4 DEF c
  <2> QED
    BY <1>1, <1>3, <1>5, <2>2, <2>3, <2>4, <2>5 DEF CommandInv
<1>13. ProgressInv'
  <2>1. step \in {"ERASE", "PROGRAM", "VERIFY", "RESTART"} => in = <<>>
    BY <1>1 DEF Inv, LagInv
  <2>2. step \in {"ERASE", "PROGRAM", "VERIFY", "RESTART"} => ~Answered' /\ Reached' = offset
    BY <1>1, <2>1 DEF Answered, Reached
  <2>3. step = "PROGRAM" /\ handle => Blank(offset)
    BY <1>1 DEF Inv, ProgressInv, Reached, Answered
  <2>4. step = "VERIFY" => Holds(offset)
    BY DEF Inv, ProgressInv
  <2>5. step = "RESTART" => Flashed
    BY DEF Inv, ProgressInv
  <2> QED
    BY <1>1, <1>4, <2>2, <2>3, <2>4, <2>5 DEF ProgressInv, Blank, Holds
<1> QED
  BY <1>6, <1>7, <1>8, <1>9, <1>10, <1>11, <1>12, <1>13 DEF Inv, TypeOK

\* A reply is read and taken: the next command, or the end of the run.
LEMMA AcceptKeeps == ASSUME Inv, waiting, handle, in # <<>>, Accepted(Head(in)), AfterReply,
                            in' = Tail(in), UNCHANGED <<loader, out>>
                     PROVE  Inv'
<1>1. /\ Len(in) \in {1, 2} /\ DOMAIN in = 1 .. Len(in) /\ Head(in) = in[1]
      /\ Len(in') = Len(in) - 1 /\ DOMAIN in' = 1 .. Len(in')
      /\ \A n \in DOMAIN in' : in'[n] = in[n + 1]
      /\ Len(in) = 1 <=> in' = <<>>
  <2>1. /\ Len(in) \in {1, 2} /\ DOMAIN in = 1 .. Len(in) /\ Head(in) = in[1]
        /\ in' \in Seq(Reply) /\ Len(in') = Len(in) - 1
        /\ \A n \in DOMAIN in' : in'[n] = in[n + 1]
        /\ Len(in) = 1 <=> in' = <<>>
    BY ReadFacts DEF Inv, TypeOK
  <2> QED
    BY <2>1, LenProperties
<1>2. Reads
  BY DEF Reads
<1>3. /\ in[1].cmd = step /\ (step = "RESTART" \/ in[1].ok)
      /\ step # "idle" /\ step \in Commands /\ UNCHANGED out
  BY <1>1 DEF Accepted, Inv, LagInv, TypeOK, ProgramType
<1>4. UNCHANGED <<board, flash, key>>
  BY DEF loader
<1>5. Acceptable(image) /\ image \in Images
  BY <1>3 DEF Inv, ModeInv, TypeOK, ProgramType
\* The reply is the program's own, and the last, from the key on.
<1>6. step \in {"KEY", "ERASE", "PROGRAM", "VERIFY", "RESTART"} => in' = <<>> /\ out = <<>>
  <2>1. CASE step = "KEY"
    <3>1. out = <<>> /\ 1 = Len(in)
      BY <1>1, <1>3, <2>1 DEF Inv, LagInv, Asks
    <3> QED
      BY <1>1, <3>1
  <2>2. CASE step \in {"ERASE", "PROGRAM", "VERIFY", "RESTART"}
    <3>1. Len(in) + Len(out) <= 1
      BY <2>2 DEF Inv, LagInv
    <3>2. out # <<>> => Len(out) = 1
      BY OutFacts DEF Inv, TypeOK
    <3>3. out = <<>> => Len(out) = 0
      BY EmptySeq
    <3>4. Len(in) = 1 /\ out = <<>>
      <4>1. Len(out) \in {0, 1}
        BY <3>2, <3>3
      <4>2. \A l \in {1, 2}, k \in {0, 1} : l + k <= 1 => l = 1 /\ k = 0
        OBVIOUS
      <4> QED
        BY <1>1, <3>1, <3>2, <4>1, <4>2
    <3> QED
      BY <1>1, <3>4
  <2> QED
    BY <2>1, <2>2
<1>7. CASE step = "DETECT"
  <2>1. Continue("CONFIG", 0)
    BY <1>7 DEF AfterReply
  <2>2. step' = "CONFIG" /\ waiting' = FALSE
    BY <2>1 DEF Continue
  <2>3. TypeOK' /\ BoardInv' /\ ModeInv' /\ CommandInv' /\ EraseFitsImage'
    BY <1>2, <1>3, <1>7, <2>1, ContinueKeeps DEF Commands, Asks
  <2>4. LagInv'
    <3>1. out # <<>> => out[1].cmd = "DETECT"
      BY <1>7 DEF Inv, LagInv
    <3>2. out = <<>> /\ in' # <<>> => in'[Len(in')].cmd = "DETECT"
      <4>1. out = <<>> => in[Len(in)].cmd = "DETECT"
        BY <1>7 DEF Inv, LagInv
      <4>2. in' # <<>> => Len(in) = 2 /\ Len(in') = 1 /\ in'[1] = in[2]
        BY <1>1
      <4> QED
        BY <4>1, <4>2
    <3> QED
      BY <1>3, <2>2, <3>1, <3>2 DEF LagInv
  <2>5. ProgressInv'
    BY <2>2 DEF ProgressInv
  <2> QED
    BY <2>3, <2>4, <2>5 DEF Inv
<1>8. CASE step = "CONFIG"
  <2>1. board = "measured"
    BY <1>1, <1>3, <1>8 DEF Inv, BoardInv
  <2>2. CASE mode = "preflight"
    <3>1. End(0)
      BY <1>8, <2>2 DEF AfterReply
    <3> QED
      BY <1>2, <1>3, <2>2, <3>1, EndKeeps
  <2>3. CASE mode # "preflight"
    <3>1. Continue("KEY", 0)
      BY <1>8, <2>3 DEF AfterReply
    <3>2. step' = "KEY" /\ waiting' = FALSE
      BY <3>1 DEF Continue
    <3>3. TypeOK' /\ BoardInv' /\ ModeInv' /\ CommandInv' /\ EraseFitsImage'
      BY <1>2, <1>3, <1>8, <2>1, <2>3, <3>1, ContinueKeeps DEF Commands, Asks
    <3>4. LagInv'
      <4>1. out # <<>> => out[1].cmd = "CONFIG"
        BY <1>8 DEF Inv, LagInv
      <4>2. in' # <<>> => Len(in) = 2 /\ DOMAIN in' = {1} /\ in'[1] = in[2]
        BY <1>1
      <4>3. ASSUME in' # <<>> PROVE in[2].cmd \in Asks
        BY <1>8, <4>2, <4>3 DEF Inv, LagInv, Asks
      <4>4. \A n \in DOMAIN in' : in'[n].cmd \in Asks
        <5>1. in' = <<>> => DOMAIN in' = {}
          OBVIOUS
        <5> QED
          BY <4>2, <4>3, <5>1
      <4> QED
        BY <1>3, <3>2, <4>1, <4>4 DEF LagInv, Asks
    <3>5. ProgressInv'
      BY <3>2 DEF ProgressInv
    <3> QED
      BY <3>3, <3>4, <3>5 DEF Inv
  <2> QED
    BY <2>2, <2>3
<1>9. CASE step = "KEY"
  <2>1. board = "measured" /\ mode # "preflight"
    BY <1>9 DEF Inv, BoardInv, ModeInv, Asks
  <2>2. CASE mode = "session"
    <3>1. End(0)
      BY <1>9, <2>2 DEF AfterReply
    <3> QED
      BY <1>2, <1>3, <2>2, <3>1, EndKeeps
  <2>3. CASE mode # "session"
    <3>1. Continue("ERASE", 0)
      BY <1>9, <2>3 DEF AfterReply
    <3>2. step' = "ERASE" /\ waiting' = FALSE
      BY <3>1 DEF Continue
    <3>3. TypeOK' /\ BoardInv' /\ ModeInv' /\ CommandInv' /\ EraseFitsImage'
      BY <1>2, <1>3, <1>9, <2>1, <2>3, <3>1, ContinueKeeps DEF Commands, Asks
    <3>4. LagInv'
      BY <1>3, <1>6, <1>9, <3>2 DEF LagInv
    <3>5. ProgressInv'
      BY <3>2 DEF ProgressInv, Answered
    <3> QED
      BY <3>3, <3>4, <3>5 DEF Inv
  <2> QED
    BY <2>2, <2>3
<1>10. CASE step = "ERASE"
  <2>1. Continue("PROGRAM", 0)
    BY <1>10 DEF AfterReply
  <2>2. step' = "PROGRAM" /\ waiting' = FALSE /\ offset' = 0 /\ UNCHANGED <<mode, image, runs>>
    BY <2>1 DEF Continue, run
  <2>3. board = "measured" /\ mode \notin {"preflight", "session"}
    BY <1>10 DEF Inv, BoardInv, ModeInv, Asks
  <2>4. TypeOK' /\ BoardInv' /\ ModeInv' /\ CommandInv' /\ EraseFitsImage'
    BY <1>2, <1>3, <1>10, <2>1, <2>3, ContinueKeeps DEF Commands, Asks
  <2>5. LagInv'
    BY <1>3, <1>6, <1>10, <2>2 DEF LagInv
  <2>6. ProgressInv'
    <3>1. Blank(0)
      BY <1>3, <1>10 DEF Inv, ProgressInv, Answered
    <3>2. Blank(0)'
      BY <1>4, <2>2, <3>1 DEF Blank, ImageWords
    <3>3. Reached' = 0
      BY <2>2 DEF Reached, Answered
    <3> QED
      BY <2>2, <3>2, <3>3 DEF ProgressInv, Blank
  <2> QED
    BY <2>4, <2>5, <2>6 DEF Inv
<1>11. CASE step = "PROGRAM"
  <2>1. board = "measured" /\ mode \notin {"preflight", "session"}
    BY <1>11 DEF Inv, BoardInv, ModeInv, Asks
  <2>2. NextOffset \in Nat /\ 0 \in Nat
    BY OffsetFacts DEF Inv, TypeOK
  <2>3. Blank(NextOffset)
    BY <1>11 DEF Inv, ProgressInv, Reached, Answered
  <2>4. CASE NextOffset < ImageWords(image)
    <3>1. Continue("PROGRAM", NextOffset)
      BY <1>11, <2>4 DEF AfterReply, Transfer
    <3>2. /\ step' = "PROGRAM" /\ waiting' = FALSE /\ offset' = NextOffset
          /\ UNCHANGED <<mode, image, runs>>
      BY <3>1 DEF Continue, run
    <3>3. TypeOK' /\ BoardInv' /\ ModeInv' /\ CommandInv' /\ EraseFitsImage'
      BY <1>2, <1>3, <1>11, <2>1, <2>2, <2>4, <3>1, ContinueKeeps DEF Commands, Asks
    <3>4. LagInv'
      BY <1>3, <1>6, <1>11, <3>2 DEF LagInv
    <3>5. Blank(Reached)'
      <4>1. Reached' = NextOffset
        BY <3>2 DEF Reached, Answered
      <4>2. ImageWords(image)' = ImageWords(image)
        BY <3>2 DEF ImageWords
      <4> QED
        BY <1>4, <2>3, <4>1, <4>2 DEF Blank
    <3>6. ProgressInv'
      BY <3>2, <3>5 DEF ProgressInv
    <3> QED
      BY <3>3, <3>4, <3>6 DEF Inv
  <2>5. CASE ~(NextOffset < ImageWords(image))
    <3>1. Continue("VERIFY", 0)
      BY <1>11, <2>5 DEF AfterReply, Transfer
    <3>2. /\ step' = "VERIFY" /\ waiting' = FALSE /\ offset' = 0
          /\ UNCHANGED <<mode, image, runs>>
      BY <3>1 DEF Continue, run
    <3>3. TypeOK' /\ BoardInv' /\ ModeInv' /\ CommandInv' /\ EraseFitsImage'
      BY <1>2, <1>3, <1>11, <2>1, <2>2, <3>1, ContinueKeeps DEF Commands, Asks
    <3>4. LagInv'
      BY <1>3, <1>6, <1>11, <3>2 DEF LagInv
    <3>5. Holds(offset)'
      BY <3>2, <3>3 DEF Holds
    <3>6. ProgressInv'
      BY <3>2, <3>5 DEF ProgressInv, Answered
    <3> QED
      BY <3>3, <3>4, <3>6 DEF Inv
  <2> QED
    BY <2>4, <2>5
<1>12. CASE step = "VERIFY"
  <2>1. board = "measured" /\ mode \notin {"preflight", "session"}
    BY <1>12 DEF Inv, BoardInv, ModeInv, Asks
  <2>2. NextOffset \in Nat /\ 0 \in Nat /\ ImageWords(image) \in Nat
    BY OffsetFacts DEF Inv, TypeOK
  <2>3. Holds(NextOffset)
    BY <1>3, <1>12 DEF Inv, ProgressInv, Answered
  <2>4. CASE NextOffset < ImageWords(image)
    <3>1. Continue("VERIFY", NextOffset)
      BY <1>12, <2>4 DEF AfterReply, Transfer
    <3>2. /\ step' = "VERIFY" /\ waiting' = FALSE /\ offset' = NextOffset
          /\ UNCHANGED <<mode, image, runs>>
      BY <3>1 DEF Continue, run
    <3>3. TypeOK' /\ BoardInv' /\ ModeInv' /\ CommandInv' /\ EraseFitsImage'
      BY <1>2, <1>3, <1>12, <2>1, <2>2, <2>4, <3>1, ContinueKeeps DEF Commands, Asks
    <3>4. LagInv'
      BY <1>3, <1>6, <1>12, <3>2 DEF LagInv
    <3>5. Holds(offset)'
      <4>1. ImageWords(image)' = ImageWords(image)
        BY <3>2 DEF ImageWords
      <4> QED
        BY <1>4, <2>3, <3>2, <4>1 DEF Holds
    <3>6. ProgressInv'
      BY <3>2, <3>5 DEF ProgressInv, Answered
    <3> QED
      BY <3>3, <3>4, <3>6 DEF Inv
  <2>5. CASE ~(NextOffset < ImageWords(image))
    <3>1. Continue("RESTART", 0)
      BY <1>12, <2>5 DEF AfterReply, Transfer
    <3>2. /\ step' = "RESTART" /\ waiting' = FALSE
          /\ UNCHANGED <<mode, image, runs>>
      BY <3>1 DEF Continue, run
    <3>3. TypeOK' /\ BoardInv' /\ ModeInv' /\ CommandInv' /\ EraseFitsImage'
      BY <1>2, <1>3, <1>12, <2>1, <2>2, <3>1, ContinueKeeps DEF Commands, Asks
    <3>4. LagInv'
      BY <1>3, <1>6, <1>12, <3>2 DEF LagInv
    <3>5. Flashed
      BY <2>2, <2>3, <2>5 DEF Flashed, Holds
    <3>6. Flashed'
      BY <1>4, <3>2, <3>5 DEF Flashed, ImageWords
    <3>7. ProgressInv'
      BY <3>2, <3>6 DEF ProgressInv, Answered
    <3> QED
      BY <3>3, <3>4, <3>7 DEF Inv
  <2> QED
    BY <2>4, <2>5
<1>13. CASE step = "RESTART"
  <2>1. End(0)
    BY <1>13 DEF AfterReply
  <2> QED
    BY <1>2, <1>3, <1>13, <2>1, EndKeeps
<1> QED
  BY <1>3, <1>7, <1>8, <1>9, <1>10, <1>11, <1>12, <1>13 DEF Commands

\* A reply is read; one that does not answer the command ends the run.
LEMMA ReceiveKeeps == ASSUME Inv, Receive
                      PROVE  Inv'
<1>1. waiting /\ handle /\ in # <<>> /\ in' = Tail(in) /\ UNCHANGED <<loader, out>>
  BY DEF Receive
<1>2. CASE Accepted(Head(in))
  <2>1. AfterReply
    BY <1>2 DEF Receive
  <2> QED
    BY <1>1, <1>2, <2>1, AcceptKeeps
<1>3. CASE ~Accepted(Head(in))
  <2>1. End(FailCode)
    BY <1>3 DEF Receive
  <2>2. step \in Commands /\ step # "idle"
    BY <1>1 DEF Inv, LagInv, TypeOK, ProgramType
  <2>3. FailCode \in -1 .. 9 /\ FailCode # 0
    BY <2>2, FailCodes
  <2>4. Reads
    BY <1>1 DEF Reads
  <2>5. mode = "flash" /\ FailCode \in {0, 9} => step = "RESTART"
    BY <2>2, <2>3, FailCodes
  <2> QED
    BY <1>1, <2>1, <2>2, <2>3, <2>4, <2>5, FailCodes, EndKeeps
<1> QED
  BY <1>2, <1>3

\* The program's write or read fails, or the user stops it.
LEMMA InterruptKeeps == ASSUME Inv, TransportFails \/ Stop
                        PROVE  Inv'
<1>1. End(FailCode) \/ End(NoExit)
  BY DEF TransportFails, Stop
<1>2. step # "idle" /\ UNCHANGED <<loader, out>> /\ Reads /\ step \in Commands
  BY DEF TransportFails, Stop, pipes, Reads, Inv, TypeOK, ProgramType
<1>3. CASE End(FailCode)
  <2>1. FailCode \in -1 .. 9 /\ FailCode # 0
    BY <1>2, FailCodes
  <2>2. mode = "flash" /\ FailCode \in {0, 9} => step = "RESTART"
    BY <1>2, <2>1, FailCodes
  <2> QED
    BY <1>2, <1>3, <2>1, <2>2, FailCodes, EndKeeps
<1>4. CASE End(NoExit)
  <2>1. NoExit \in -1 .. 9 /\ NoExit \notin {0, 9} /\ NoExit \notin 2 .. 5
    BY DEF NoExit
  <2> QED
    BY <1>2, <1>4, <2>1, EndKeeps
<1> QED
  BY <1>1, <1>3, <1>4

-----------------------------------------------------------------------------
(* The loader's steps.                                                     *)

\* The boot loader answers a command: what does not depend on the flash, and what
\* follows if the flash stays as it was.
LEMMA AnswerKeeps == ASSUME Inv, out # <<>>, NEW ok \in BOOLEAN, Answer(ok), UNCHANGED program,
                            UNCHANGED board, out[1].cmd = "CONFIG" /\ ok => board = "measured"
                     PROVE  /\ ProgramType' /\ PipesType' /\ ModeInv' /\ LagInv' /\ CommandInv'
                            /\ flash' = flash => BoardInv' /\ EraseFitsImage'
                            /\ out[1].cmd \in Asks \/ board = "measured"
<1> DEFINE r == [cmd |-> out[1].cmd, ok |-> ok]
<1>1. /\ PipesType' /\ out' = <<>> /\ in' # <<>>
      /\ in'[Len(in')] = r /\ Len(in') \in {1, 2} /\ DOMAIN in' = 1 .. Len(in')
      /\ Len(in') = 2 => Len(in) = 1 /\ in'[1] = in[1] /\ in'[2] = r
      /\ Len(in') = 1 => in'[1] = r
  BY AnswerFacts DEF Inv, TypeOK
<1>2. r.cmd = out[1].cmd /\ r.ok = ok
  OBVIOUS
<1> HIDE DEF r
<1>3. UNCHANGED <<step, offset, exit, waiting, handle, sent, mode, image, runs>>
  BY DEF program, run
<1>4. Len(in) = 1 => in # <<>> /\ DOMAIN in = {1}
  BY EmptySeq, ReadFacts DEF Inv, TypeOK
<1>5. Len(out) = 1
  BY OutFacts DEF Inv, TypeOK
<1>6. ProgramType'
  <2>1. waiting' \in BOOLEAN /\ handle' \in BOOLEAN
    BY <1>3, Zenon DEF Inv, TypeOK, ProgramType
  <2> QED
    BY <1>3, <2>1 DEF Inv, TypeOK, ProgramType, ImageWords
<1>7. ModeInv'
  BY <1>3 DEF Inv, ModeInv, Acceptable, EraseSectors
<1>8. CommandInv'
  BY <1>1 DEF CommandInv
<1>9. LagInv'
  <2>1. step = "idle" => ~waiting
    BY DEF Inv, LagInv
  <2>2. waiting => in'[Len(in')].cmd = step
    BY <1>1, <1>2 DEF Inv, LagInv
  <2>3. step = "CONFIG" /\ ~waiting => in'[Len(in')].cmd = "DETECT"
    BY <1>1, <1>2 DEF Inv, LagInv
  <2>4. step = "CONFIG" /\ waiting /\ Len(in') = 2 => in'[1].cmd = "DETECT"
    <3>1. ASSUME step = "CONFIG", waiting, Len(in') = 2
          PROVE  in'[1] = in[Len(in)] /\ in # <<>>
      BY <1>1, <1>4, <3>1
    <3> QED
      BY <3>1 DEF Inv, LagInv
  <2>5. step = "KEY" => \A n \in DOMAIN in' : \/ in'[n].cmd \in Asks
                                              \/ waiting /\ n = Len(in')
    <3> SUFFICES ASSUME step = "KEY", NEW n \in DOMAIN in', ~(waiting /\ n = Len(in'))
                 PROVE  in'[n].cmd \in Asks
      OBVIOUS
    <3>1. CASE n = Len(in')
      BY <1>1, <1>2, <3>1 DEF Inv, LagInv
    <3>2. CASE n # Len(in')
      <4>1. n = 1 /\ Len(in') = 2
        BY <1>1, <3>2
      <4>2. in'[n] = in[1] /\ 1 \in DOMAIN in
        BY <1>1, <1>4, <4>1
      <4> QED
        BY <4>2 DEF Inv, LagInv
    <3> QED
      BY <3>1, <3>2
  <2>6. step \in {"ERASE", "PROGRAM", "VERIFY", "RESTART"} =>
          waiting /\ Len(in') + Len(out') <= 1
    <3>1. ASSUME step \in {"ERASE", "PROGRAM", "VERIFY", "RESTART"}
          PROVE  waiting /\ Len(in) + Len(out) <= 1
      BY <3>1 DEF Inv, LagInv
    <3>2. ASSUME step \in {"ERASE", "PROGRAM", "VERIFY", "RESTART"}
          PROVE  Len(in') = 1
      BY <1>1, <1>5, <3>1, <3>2
    <3>3. Len(out') = 0
      BY <1>1, EmptySeq
    <3>4. \A l, k : l = 1 /\ k = 0 => l + k <= 1
      OBVIOUS
    <3> QED
      BY <3>1, <3>2, <3>3, <3>4, Zenon
  <2> QED
    BY <1>1, <1>3, <2>1, <2>2, <2>3, <2>4, <2>5, <2>6 DEF LagInv
<1>10. out[1].cmd \in Asks \/ board = "measured"
  BY DEF Inv, BoardInv
<1>11. ASSUME flash' = flash PROVE BoardInv' /\ EraseFitsImage'
  <2>1. EraseFitsImage'
    BY <1>11 DEF Inv, EraseFitsImage
  <2>2. ASSUME board # "measured", NEW n \in DOMAIN in', in'[n].cmd = "CONFIG"
        PROVE  ~in'[n].ok
    <3>1. CASE n = Len(in')
      BY <1>1, <1>2, <2>2, <3>1
    <3>2. CASE n # Len(in')
      <4>1. n = 1 /\ Len(in') = 2
        BY <1>1, <3>2
      <4>2. in'[n] = in[1] /\ 1 \in DOMAIN in
        BY <1>1, <1>4, <4>1
      <4> QED
        BY <2>2, <4>2 DEF Inv, BoardInv
    <3> QED
      BY <3>1, <3>2
  <2> QED
    BY <1>1, <1>3, <1>11, <2>1, <2>2 DEF Inv, BoardInv, Fresh
<1> QED
  BY <1>1, <1>6, <1>7, <1>8, <1>9, <1>10, <1>11

\* From the erase on, a command on its way is the program's own, and its answer the
\* only one.
LEMMA OwnCommand == ASSUME Inv, out # <<>>, NEW ok \in BOOLEAN, Answer(ok), UNCHANGED program,
                           step \in {"ERASE", "PROGRAM", "VERIFY", "RESTART"}
                    PROVE  /\ waiting /\ in = <<>>
                           /\ out[1] = [cmd |-> step, arg |-> Argument, of |-> image]
                           /\ Answered' /\ in'[1].ok = ok
<1>1. waiting /\ Len(in) + Len(out) <= 1 /\ Len(out) = 1
  BY OutFacts DEF Inv, LagInv, TypeOK
<1>2. in = <<>>
  <2>1. in # <<>> => Len(in) \in Nat \ {0}
    BY EmptySeq DEF Inv, TypeOK, PipesType
  <2> QED
    BY <1>1, <2>1
<1>3. /\ in' # <<>> /\ in'[Len(in')] = [cmd |-> out[1].cmd, ok |-> ok] /\ Len(in') \in {1, 2}
      /\ Len(in') = 2 => Len(in) = 1
  BY AnswerFacts DEF Inv, TypeOK
<1>4. Len(in') = 1 /\ in'[1].ok = ok
  BY <1>2, <1>3, EmptySeq
<1>5. waiting' = waiting
  BY DEF program
<1> QED
  BY <1>1, <1>2, <1>3, <1>4, <1>5 DEF Inv, LagInv, Answered

\* The answer is written, the flash is not.
LEMMA ReplyOnly == ASSUME Inv, out # <<>>, NEW ok \in BOOLEAN, Answer(ok), UNCHANGED program,
                          UNCHANGED <<board, flash>>, key' \in BOOLEAN,
                          out[1].cmd = "CONFIG" /\ ok => board = "measured",
                          out[1].cmd = "ERASE" => ~ok,
                          out[1].cmd = "VERIFY" /\ ok =>
                            \A w \in Chunk(out[1]) : flash[w] = out[1].of
                   PROVE  Inv'
<1>1. /\ ProgramType' /\ PipesType' /\ ModeInv' /\ LagInv' /\ CommandInv'
      /\ BoardInv' /\ EraseFitsImage'
  BY AnswerKeeps
<1>2. LoaderType'
  BY Zenon DEF Inv, TypeOK, LoaderType
<1>3. /\ UNCHANGED <<step, offset, exit, waiting, handle, sent, mode, image, runs>>
      /\ ImageWords(image)' = ImageWords(image) /\ NextOffset' = NextOffset /\ out' = <<>>
  BY AnswerFacts DEF program, run, ImageWords, NextOffset, Inv, TypeOK
<1>4. ProgressInv'
  <2>1. step = "ERASE" => ~in'[1].ok
    BY OwnCommand
  <2>2. ASSUME step = "PROGRAM", handle PROVE Blank(Reached)'
    <3>1. Blank(offset) /\ Reached' = NextOffset
      BY <1>3, <2>2, OwnCommand DEF Inv, ProgressInv, Reached, Answered
    <3>2. \A w \in 0 .. ImageWords(image) - 1 : w >= NextOffset => w >= offset
      <4>1. /\ ImageWords(image) \in Nat /\ NextOffset \in Nat /\ offset \in Nat
            /\ ChunkWords \in Nat
            /\ \A w \in Nat : w < ImageWords(image) =>
                 (w < NextOffset <=> w < offset + ChunkWords)
        BY OffsetFacts, Sizes DEF Inv, TypeOK, ProgramType
      <4> QED
        BY <4>1
    <3>3. \A w \in 0 .. ImageWords(image) - 1 : w >= NextOffset => flash[w] = "blank"
      BY <3>1, <3>2 DEF Blank
    <3> QED
      BY <1>3, <3>1, <3>3 DEF Blank
  <2>3. ASSUME step = "VERIFY" PROVE Holds(offset)' /\ (in'[1].ok => Holds(NextOffset)')
    <3>1. Holds(offset) /\ in'[1].ok = ok /\ out[1] = [cmd |-> step, arg |-> Argument, of |-> image]
      BY <2>3, OwnCommand DEF Inv, ProgressInv
    <3>2. Holds(offset)'
      BY <1>3, <3>1 DEF Holds
    <3>3. ASSUME ok PROVE Holds(NextOffset)'
      <4>1. /\ out[1].cmd = "VERIFY" /\ out[1].arg = offset /\ out[1].of = image
        BY <2>3, <3>1 DEF Argument
      <4>2. \A w \in Chunk(out[1]) : flash[w] = image
        BY <3>3, <4>1
      <4>3. ImageWords(image) <= Boot
        BY <2>3, ImageFacts DEF Inv, ModeInv, TypeOK, ProgramType
      <4>4. Chunk(out[1]) = {w \in 0 .. ImageWords(image) - 1 : w >= offset /\ w < NextOffset}
        BY <4>1, <4>3, ChunkFacts DEF Inv
      <4>5. offset \in Nat /\ NextOffset \in Nat /\ ImageWords(image) \in Nat
        BY OffsetFacts DEF Inv, TypeOK, ProgramType
      <4>6. \A w \in 0 .. ImageWords(image) - 1 : w < NextOffset => flash[w] = image
        <5> TAKE w \in 0 .. ImageWords(image) - 1
        <5> HAVE w < NextOffset
        <5>1. CASE w < offset
          BY <3>1, <5>1 DEF Holds
        <5>2. CASE ~(w < offset)
          BY <4>2, <4>4, <4>5, <5>2
        <5> QED
          BY <5>1, <5>2
      <4> QED
        BY <1>3, <4>6 DEF Holds
    <3> QED
      BY <3>1, <3>2, <3>3
  <2>4. ASSUME Flashed PROVE Flashed'
    BY <1>3, <2>4 DEF Flashed
  <2> QED
    BY <1>3, <2>1, <2>2, <2>3, <2>4 DEF Inv, ProgressInv, Answered
<1> QED
  BY <1>1, <1>2, <1>4 DEF Inv, TypeOK

\* The loader erases.
LEMMA EraseKeeps == ASSUME Inv, LoaderErase
                    PROVE  Inv'
<1>1. /\ out # <<>> /\ out[1] \in Packet /\ out[1].cmd = "ERASE" /\ Answer(TRUE)
      /\ UNCHANGED program /\ UNCHANGED <<board, key>> /\ TRUE \in BOOLEAN
      /\ flash' = [w \in DOMAIN flash |->
                     IF w < out[1].arg * SectorWords THEN "blank" ELSE flash[w]]
  BY OutFacts DEF LoaderErase, Handling, Inv, TypeOK
<1>2. /\ ProgramType' /\ PipesType' /\ ModeInv' /\ LagInv' /\ CommandInv'
      /\ board = "measured"
  BY <1>1, AnswerKeeps DEF Asks
<1>3. /\ UNCHANGED <<step, offset, exit, waiting, handle, sent, mode, image, runs>>
      /\ ImageWords(image)' = ImageWords(image) /\ out' = <<>>
  BY <1>1, AnswerFacts DEF program, run, ImageWords, Inv, TypeOK
<1> DEFINE e == out[1].arg * SectorWords
<1>4. /\ DOMAIN flash = 0 .. Boot /\ Boot \in Nat /\ e \in Nat /\ e <= Boot
      /\ \A w \in 0 .. Boot : flash[w] \in Contents
  <2>1. out[1].arg \in Nat /\ SectorWords \in Nat /\ Boot \in Nat
    BY <1>1, Sizes DEF Packet
  <2>2. e \in Nat
    BY <2>1, Rebracket
  <2> QED
    BY <1>1, <2>1, <2>2 DEF Inv, TypeOK, LoaderType, CommandInv
<1>5. flash' = [w \in 0 .. Boot |-> IF w < e THEN "blank" ELSE flash[w]]
  BY <1>1, <1>4
<1> HIDE DEF e
<1>6. LoaderType'
  <2>1. "blank" \in Contents
    BY ContentsFacts
  <2>2. flash' \in [0 .. Boot -> Contents]
    BY <1>4, <1>5, <2>1
  <2>3. key' \in BOOLEAN /\ board' \in Boards
    BY <1>1, Zenon DEF Inv, TypeOK, LoaderType
  <2> QED
    BY <2>2, <2>3 DEF LoaderType
<1>7. BoardInv'
  BY <1>1, <1>2 DEF BoardInv
<1>8. EraseFitsImage'
  <2>1. flash[Boot] = "boot" /\ \A w \in 0 .. Boot : flash[w] # "mixed"
    BY <1>4 DEF Inv, EraseFitsImage
  <2>2. DOMAIN flash' = 0 .. Boot
    BY <1>5
  <2>3. \A w \in 0 .. Boot : flash'[w] # "mixed"
    BY <1>5, <2>1
  <2>4. flash'[Boot] = "boot"
    BY <1>4, <1>5, <2>1
  <2> QED
    BY <2>2, <2>3, <2>4 DEF EraseFitsImage
<1>9. ProgressInv'
  <2> DEFINE own == [cmd |-> step, arg |-> Argument, of |-> image]
  <2>0. step \in {"ERASE", "PROGRAM", "VERIFY", "RESTART"} => out[1] = own
    BY <1>1, OwnCommand, Zenon
  <2>1. step \notin {"PROGRAM", "VERIFY", "RESTART"}
    BY <1>1, <2>0
  <2>2. ~(step = "idle" /\ mode = "flash" /\ exit \in {0, 9})
    BY <1>1 DEF Inv, ProgressInv
  <2>3. ASSUME step = "ERASE" PROVE Blank(0)'
    <3>1. out[1].arg = EraseSectors(image)
      BY <2>0, <2>3 DEF Argument
    <3>2. ImageWords(image) <= e /\ ImageWords(image) \in Nat
      BY <2>3, <3>1, ImageFacts DEF Inv, ModeInv, TypeOK, ProgramType, e
    <3>3. \A w \in 0 .. ImageWords(image) - 1 : flash'[w] = "blank"
      BY <1>4, <1>5, <3>2
    <3> QED
      BY <1>3, <3>3 DEF Blank
  <2> QED
    BY <1>3, <2>1, <2>2, <2>3 DEF ProgressInv
<1> QED
  BY <1>2, <1>6, <1>7, <1>8, <1>9 DEF Inv, TypeOK

\* The loader programs a chunk, rightly or not.
LEMMA ProgramKeeps == ASSUME Inv, LoaderProgram
                      PROVE  Inv'
<1>1. PICK new \in {out[1].of, "bad"} :
        flash' = [w \in DOMAIN flash |-> IF w \in Chunk(out[1])
                                         THEN Programmed(flash[w], IF key THEN new ELSE "bad")
                                         ELSE flash[w]]
  BY OutFacts DEF LoaderProgram, Handling, Inv, TypeOK
<1>2. /\ out # <<>> /\ out[1] \in Packet /\ out[1].cmd = "PROGRAM" /\ Answer(TRUE)
      /\ UNCHANGED program /\ UNCHANGED <<board, key>> /\ TRUE \in BOOLEAN
  BY OutFacts DEF LoaderProgram, Handling, Inv, TypeOK
<1>3. /\ ProgramType' /\ PipesType' /\ ModeInv' /\ LagInv' /\ CommandInv'
      /\ board = "measured"
  BY <1>2, AnswerKeeps DEF Asks
<1>4. /\ UNCHANGED <<step, offset, exit, waiting, handle, sent, mode, image, runs>>
      /\ ImageWords(image)' = ImageWords(image) /\ NextOffset' = NextOffset /\ out' = <<>>
  BY <1>2, AnswerFacts DEF program, run, ImageWords, NextOffset, Inv, TypeOK
<1> DEFINE c == Chunk(out[1])
           x == IF key THEN new ELSE "bad"
<1>5. /\ DOMAIN flash = 0 .. Boot /\ Boot \in 0 .. Boot
      /\ \A w \in 0 .. Boot : flash[w] \in Contents
  BY Sizes DEF Inv, TypeOK, LoaderType
<1>6. c \subseteq 0 .. Boot /\ \A w \in c : flash[w] = "blank"
  BY <1>2, <1>5 DEF Inv, CommandInv, Chunk
<1>7. x \in Contents /\ x \notin {"mixed", "boot"}
  <2>1. out[1].of \in Images
    BY <1>2 DEF Packet
  <2> QED
    BY <2>1, ContentsFacts DEF Marks
<1> HIDE DEF c, x
\* Every word programmed was blank.
<1>8. flash' = [w \in 0 .. Boot |-> IF w \in c THEN x ELSE flash[w]]
  <2>1. flash' = [w \in 0 .. Boot |-> IF w \in c THEN Programmed(flash[w], x) ELSE flash[w]]
    BY <1>1, <1>5 DEF c, x
  <2>2. \A w \in 0 .. Boot : w \in c => Programmed(flash[w], x) = x
    BY <1>6 DEF Programmed
  <2> QED
    BY <2>1, <2>2
<1>9. LoaderType'
  <2>1. flash' \in [0 .. Boot -> Contents]
    BY <1>5, <1>7, <1>8
  <2>2. key' \in BOOLEAN /\ board' \in Boards
    BY <1>2, Zenon DEF Inv, TypeOK, LoaderType
  <2> QED
    BY <2>1, <2>2 DEF LoaderType
<1>10. BoardInv'
  BY <1>2, <1>3 DEF BoardInv
<1>11. EraseFitsImage'
  <2>1. flash[Boot] = "boot" /\ \A w \in 0 .. Boot : flash[w] # "mixed"
    BY <1>5 DEF Inv, EraseFitsImage
  <2>2. DOMAIN flash' = 0 .. Boot
    BY <1>8
  <2>3. \A w \in 0 .. Boot : flash'[w] # "mixed"
    BY <1>7, <1>8, <2>1
  <2>4. flash'[Boot] = "boot"
    BY <1>5, <1>6, <1>8, <2>1
  <2> QED
    BY <2>2, <2>3, <2>4 DEF EraseFitsImage
<1>12. ProgressInv'
  <2> DEFINE own == [cmd |-> step, arg |-> Argument, of |-> image]
  <2>1. step \in {"ERASE", "PROGRAM", "VERIFY", "RESTART"} =>
          waiting /\ in = <<>> /\ out[1] = own /\ Answered'
    BY <1>2, OwnCommand, Zenon
  <2>2. step \notin {"ERASE", "VERIFY", "RESTART"}
    BY <1>2, <2>1
  <2>3. ~(step = "idle" /\ mode = "flash" /\ exit \in {0, 9})
    BY <1>2 DEF Inv, ProgressInv
  <2>4. ASSUME step = "PROGRAM", handle PROVE Blank(Reached)'
    <3>1. Blank(offset) /\ Reached' = NextOffset
      BY <1>4, <2>1, <2>4 DEF Inv, ProgressInv, Reached, Answered
    <3>2. out[1].arg = offset /\ out[1].of = image
      BY <2>1, <2>4 DEF Argument
    <3>3. ImageWords(image) <= Boot /\ ImageWords(image) \in Nat
      BY <2>4, ImageFacts DEF Inv, ModeInv, TypeOK, ProgramType
    <3>4. c = {w \in 0 .. ImageWords(image) - 1 : w >= offset /\ w < NextOffset}
      BY <3>2, <3>3, ChunkFacts DEF Inv, c
    <3>5. offset \in Nat /\ NextOffset \in Nat /\ Boot \in Nat /\ ChunkWords \in Nat
          /\ \A w \in Nat : w < ImageWords(image) =>
               (w < NextOffset <=> w < offset + ChunkWords)
      BY OffsetFacts, Sizes DEF Inv, TypeOK, ProgramType
    <3>6. \A w \in 0 .. ImageWords(image) - 1 : w >= NextOffset =>
            w \in 0 .. Boot /\ w \notin c /\ w >= offset
      BY <3>3, <3>4, <3>5
    <3>7. \A w \in 0 .. ImageWords(image) - 1 : w >= NextOffset => flash'[w] = "blank"
      BY <1>8, <3>1, <3>6 DEF Blank
    <3> QED
      BY <1>4, <3>1, <3>7 DEF Blank
  <2> QED
    BY <1>4, <2>2, <2>3, <2>4 DEF ProgressInv
<1> QED
  BY <1>3, <1>9, <1>10, <1>11, <1>12 DEF Inv, TypeOK

\* The loader's other commands, and its refusals.
LEMMA OtherKeeps == ASSUME Inv, \/ LoaderRefuses \/ LoaderDetect \/ LoaderConfig
                                \/ LoaderKey \/ LoaderVerify \/ LoaderRestart
                    PROVE  Inv'
<1>1. out # <<>> /\ Head(out) = out[1] /\ UNCHANGED program /\ key \in BOOLEAN
      /\ UNCHANGED <<board, flash>>
  BY OutFacts DEF LoaderRefuses, LoaderDetect, LoaderConfig, LoaderKey, LoaderVerify,
     LoaderRestart, Handling, loader, Inv, TypeOK, LoaderType
<1>2. CASE LoaderRefuses
  <2>1. FALSE \in BOOLEAN /\ Answer(FALSE) /\ key' = key
    BY <1>2 DEF LoaderRefuses, loader
  <2> QED
    BY <1>1, <2>1, ReplyOnly
<1>3. CASE LoaderDetect
  <2>1. /\ (board # "otherChip") \in BOOLEAN /\ Answer(board # "otherChip") /\ key' = key
        /\ out[1].cmd = "DETECT"
    BY <1>1, <1>3 DEF LoaderDetect, Handling, loader
  <2> QED
    BY <1>1, <2>1, ReplyOnly
<1>4. CASE LoaderConfig
  <2>1. /\ (board = "measured") \in BOOLEAN /\ Answer(board = "measured") /\ key' = key
        /\ out[1].cmd = "CONFIG"
    BY <1>1, <1>4 DEF LoaderConfig, Handling, loader
  <2> QED
    BY <1>1, <2>1, ReplyOnly
<1>5. CASE LoaderKey
  <2>1. TRUE \in BOOLEAN /\ Answer(TRUE) /\ key' \in BOOLEAN /\ out[1].cmd = "KEY"
    BY <1>1, <1>5 DEF LoaderKey, Handling
  <2> QED
    BY <1>1, <2>1, ReplyOnly
<1>6. CASE LoaderVerify
  <2> DEFINE ok == key /\ \A w \in Chunk(out[1]) : flash[w] = out[1].of
  <2>1. ok \in BOOLEAN /\ Answer(ok) /\ key' = key /\ out[1].cmd = "VERIFY"
    BY <1>1, <1>6 DEF LoaderVerify, Handling, loader
  <2>2. ok => \A w \in Chunk(out[1]) : flash[w] = out[1].of
    OBVIOUS
  <2> HIDE DEF ok
  <2> QED
    BY <1>1, <2>1, <2>2, ReplyOnly
<1>7. CASE LoaderRestart
  <2>1. TRUE \in BOOLEAN /\ Answer(TRUE) /\ key' = key /\ out[1].cmd = "RESTART"
    BY <1>1, <1>7 DEF LoaderRestart, Handling, loader
  <2> QED
    BY <1>1, <2>1, ReplyOnly
<1> QED
  BY <1>2, <1>3, <1>4, <1>5, <1>6, <1>7

-----------------------------------------------------------------------------
(* The user and the theorems.                                              *)

\* The board loses power.
LEMMA UnplugKeeps == ASSUME Inv, Unplug
                     PROVE  Inv'
<1>1. /\ out' = <<>> /\ in' = <<>> /\ key' = FALSE /\ handle' = FALSE
      /\ UNCHANGED <<step, offset, exit, waiting, sent, mode, image, runs, board, flash>>
      /\ DOMAIN in' = {} /\ Len(in') = 0 /\ Len(out') = 0
  BY DEF Unplug, run
<1>2. ProgramType'
  <2>1. waiting' \in BOOLEAN /\ handle' \in BOOLEAN
    BY <1>1, Zenon DEF Inv, TypeOK, ProgramType
  <2> QED
    BY <1>1, <2>1 DEF Inv, TypeOK, ProgramType, ImageWords
<1>3. LoaderType' /\ EraseFitsImage'
  BY <1>1, Zenon DEF Inv, TypeOK, LoaderType, EraseFitsImage
<1>4. PipesType'
  BY <1>1, EmptySeq, Sizes DEF PipesType
<1>5. BoardInv'
  BY <1>1 DEF Inv, BoardInv, Fresh
<1>6. ModeInv'
  BY <1>1 DEF Inv, ModeInv, Acceptable, EraseSectors
<1>7. LagInv'
  BY <1>1 DEF Inv, LagInv
<1>8. CommandInv'
  BY <1>1 DEF CommandInv
<1>9. ProgressInv'
  BY <1>1 DEF Inv, ProgressInv, Answered, Holds, Flashed, ImageWords
<1> QED
  BY <1>2, <1>3, <1>4, <1>5, <1>6, <1>7, <1>8, <1>9 DEF Inv, TypeOK

\* Another board is connected.
LEMMA ExchangeKeeps == ASSUME Inv, NEW b \in Boards, Exchange(b)
                       PROVE  Inv'
<1>1. /\ step = "idle" /\ board' = b /\ flash' = Fresh /\ key' = FALSE /\ exit' = NoExit
      /\ out' = <<>> /\ in' = <<>> /\ DOMAIN in' = {}
      /\ UNCHANGED <<step, offset, waiting, handle, sent, mode, image, runs>>
  BY DEF Exchange, run
<1>2. ProgramType'
  <2>1. waiting' \in BOOLEAN /\ handle' \in BOOLEAN /\ exit' \in -1 .. 9
    BY <1>1 DEF Inv, TypeOK, ProgramType, NoExit
  <2> QED
    BY <1>1, <2>1 DEF Inv, TypeOK, ProgramType, ImageWords
<1>3. LoaderType' /\ EraseFitsImage'
  BY <1>1, FreshFacts DEF LoaderType, EraseFitsImage
<1>4. PipesType'
  BY <1>1, EmptySeq, Sizes DEF PipesType
<1>5. BoardInv'
  BY <1>1 DEF BoardInv, Fresh
<1>6. ModeInv'
  BY <1>1 DEF Inv, ModeInv, NoExit, Asks
<1>7. LagInv'
  BY <1>1 DEF Inv, LagInv
<1>8. CommandInv' /\ ProgressInv'
  BY <1>1 DEF CommandInv, ProgressInv, NoExit
<1> QED
  BY <1>2, <1>3, <1>4, <1>5, <1>6, <1>7, <1>8 DEF Inv, TypeOK

\* Every step keeps the invariant.
LEMMA StepInv == Inv /\ [Next]_vars => Inv'
<1> SUFFICES ASSUME Inv, [Next]_vars PROVE Inv'
  OBVIOUS
<1>1. ASSUME NEW m \in Modes, NEW i \in Images, Begin(m, i) PROVE Inv'
  BY <1>1, BeginKeeps
<1>2. CASE Send
  BY <1>2, SendKeeps
<1>3. CASE Receive
  BY <1>3, ReceiveKeeps
<1>4. CASE TransportFails \/ Stop
  BY <1>4, InterruptKeeps
<1>5. CASE LoaderErase
  BY <1>5, EraseKeeps
<1>6. CASE LoaderProgram
  BY <1>6, ProgramKeeps
<1>7. CASE \/ LoaderRefuses \/ LoaderDetect \/ LoaderConfig
           \/ LoaderKey \/ LoaderVerify \/ LoaderRestart
  BY <1>7, OtherKeeps
<1>8. CASE Unplug
  BY <1>8, UnplugKeeps
<1>9. ASSUME NEW b \in Boards, Exchange(b) PROVE Inv'
  BY <1>9, ExchangeKeeps
<1>10. CASE UNCHANGED vars
  <2>1. /\ UNCHANGED <<step, offset, exit, waiting, handle, sent, mode, image, runs>>
        /\ UNCHANGED <<board, flash, key>> /\ UNCHANGED <<out, in>>
    BY <1>10 DEF vars, program, run, loader, pipes
  <2>2. TypeOK'
    BY <2>1 DEF Inv, TypeOK, ProgramType, LoaderType, PipesType, ImageWords
  <2>3. BoardInv' /\ ModeInv'
    BY <2>1 DEF Inv, BoardInv, Fresh, ModeInv, Acceptable, EraseSectors
  <2>4. LagInv'
    BY <2>1 DEF Inv, LagInv, Argument, EraseSectors
  <2>5. CommandInv' /\ EraseFitsImage'
    BY <2>1 DEF Inv, CommandInv, Chunk, EraseFitsImage
  <2>6. ProgressInv'
    BY <2>1 DEF Inv, ProgressInv, Answered, Reached, NextOffset, Blank, Holds, Flashed, ImageWords
  <2> QED
    BY <2>2, <2>3, <2>4, <2>5, <2>6 DEF Inv
<1> QED
  BY <1>1, <1>2, <1>3, <1>4, <1>5, <1>6, <1>7, <1>8, <1>9, <1>10, Zenon DEF Next

\* The invariant holds throughout.
THEOREM Invariance == Spec => []Inv
<1> QED
  BY InitInv, StepInv, PTL DEF Spec

\* Type correctness; that at most one packet is on its way and that the replies never
\* outgrow the endpoint are part of it.
THEOREM TypeCorrect == Spec => []TypeOK
<1>1. Inv => TypeOK
  BY DEF Inv
<1> QED
  BY <1>1, Invariance, PTL

\* Only the measured board is ever erased, a preflight and a session test send no more
\* than they say, and a return code up to 5 means an untouched flash: whatever replies
\* earlier runs left behind.
THEOREM OnlyMeasuredErased == Spec => []OthersUntouched
<1>1. Inv => OthersUntouched
  BY DEF Inv, BoardInv, ModeInv, OthersUntouched, Asks
<1> QED
  BY <1>1, Invariance, PTL

\* No word is programmed that was not blank, and the boot loader is never touched.
THEOREM EraseCovers == Spec => []EraseFitsImage
<1>1. Inv => EraseFitsImage
  BY DEF Inv
<1> QED
  BY <1>1, Invariance, PTL

\* A flash run that reports success, or only a failed restart, has left its whole image
\* in the flash.
THEOREM SuccessIsTrue == Spec => []SuccessMeansFlashed
<1>1. Inv => SuccessMeansFlashed
  <2> SUFFICES ASSUME Inv, mode = "flash", exit \in {0, 9} PROVE Flashed
    BY DEF SuccessMeansFlashed, Flashed
  <2>1. step = "idle"
    BY DEF Inv, ModeInv, NoExit
  <2> QED
    BY <2>1 DEF Inv, ProgressInv
<1> QED
  BY <1>1, Invariance, PTL
=============================================================================
