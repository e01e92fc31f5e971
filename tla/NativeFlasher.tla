---------------------------- MODULE NativeFlasher ----------------------------
(***************************************************************************)
(* The native flasher and the boot loader it drives over a bulk pipe: the  *)
(* sequence of main, one command and one reply at a time, each with a time *)
(* limit; run again and again by a user who may stop it at any point.      *)
(*                                                                         *)
(* The boot loader may refuse a command, carry it out and answer too late  *)
(* (the reply then waits for whoever reads next), or write a chunk wrongly *)
(* without noticing.  A programmed word that was not blank is "mixed".     *)
(*                                                                         *)
(* A word is 8 bytes, the unit of padding and of the session key.          *)
(***************************************************************************)
EXTENDS Integers, Sequences, FiniteSetsExt

CONSTANTS Images, ImageSize,       \* firmware files and their sizes in bytes
          WordBytes, ChunkWords,   \* 8 and 7
          SectorBytes,             \* kCodeSectorSize
          MinSectors, MaxSectors,  \* kMinimumEraseSectors, kMaximumEraseSectors
          MaxReplies,              \* replies that fit into the IN endpoint, of one or
                                   \* two buffers
          MaxRuns                  \* bound: runs of the program

Marks    == {"factory", "blank", "bad", "mixed", "boot"}
Contents == Images \cup Marks   \* what a word of the flash may hold

ASSUME ImageAssumption == ImageSize \in [Images -> Nat] /\ Images \cap Marks = {}
ASSUME FlashAssumption == /\ {WordBytes, ChunkWords, SectorBytes, MaxSectors, MaxRuns}
                             \subseteq Nat \ {0}
                          /\ SectorBytes % WordBytes = 0
                          /\ MinSectors \in 1 .. MaxSectors
                          /\ MaxReplies \in 1 .. 2

Modes    == {"preflight", "session", "flash"}
Boards   == {"measured", "otherChip", "otherConfig"}
Commands == {"DETECT", "CONFIG", "KEY", "ERASE", "PROGRAM", "VERIFY", "RESTART"}

\* The payload by the offset and the file it is of; a reply's by whether it is as it should be.
Packet == [cmd : Commands, arg : Nat, of : Images]
Reply  == [cmd : Commands, ok : BOOLEAN]

VARIABLES
  step, mode, image, offset, exit,  \* the program: command it is at, return code
  waiting,                          \* the command is sent, its reply not yet read
  handle,                           \* the interface is open
  sent,                             \* history: commands sent in this run
  runs,                             \* runs begun
  board, flash, key,                \* the board; session key set
  out, in                           \* commands and replies in the pipes

run     == <<mode, image, runs>>
program == <<step, offset, exit, waiting, handle, sent, run>>
loader  == <<board, flash, key>>
pipes   == <<out, in>>
vars    == <<program, loader, pipes>>

Ceil(m, n)   == (m + n - 1) \div n
MaxCodeSize  == MaxSectors * SectorBytes
SectorWords  == SectorBytes \div WordBytes
Boot         == MaxSectors * SectorWords   \* first word of the boot loader
ImageWords(i) == Ceil(ImageSize[i], WordBytes)
NoExit       == -1

Fresh == [w \in 0 .. Boot |-> IF w = Boot THEN "boot" ELSE "factory"]

Init == /\ step = "idle" /\ mode \in Modes /\ image \in Images /\ offset = 0
        /\ exit = NoExit /\ waiting = FALSE /\ handle = FALSE /\ sent = {} /\ runs = 0
        /\ board \in Boards /\ flash = Fresh /\ key = FALSE
        /\ out = <<>> /\ in = <<>>

-----------------------------------------------------------------------------
(* The program.                                                            *)

\* Mutant: the last sector, if not full, is not counted.
EraseSectorsFloor(i) == Max({MinSectors, ImageSize[i] \div SectorBytes})
EraseSectors(i)      == Max({MinSectors, Ceil(ImageSize[i], SectorBytes)})

\* Mutant: neither size check.
AcceptableAny(i) == TRUE
Acceptable(i) == ImageSize[i] \in 1 .. MaxCodeSize /\ EraseSectors(i) <= MaxSectors

\* Up to the opening of the interface; nothing is read from the pipes.
Begin(m, i) == /\ step = "idle" /\ runs < MaxRuns
               /\ runs' = runs + 1
               /\ mode' = m /\ image' = i /\ offset' = 0 /\ waiting' = FALSE /\ sent' = {}
               /\ \/ ~Acceptable(i) /\ step' = "idle" /\ exit' = 2 /\ handle' = FALSE
                  \/ Acceptable(i) /\ step' = "idle" /\ exit' = 3 /\ handle' = FALSE
                  \/ Acceptable(i) /\ step' = "DETECT" /\ exit' = NoExit /\ handle' = TRUE
               /\ UNCHANGED <<loader, pipes>>

Argument == IF step = "ERASE" THEN EraseSectors(image) ELSE offset

\* The OUT endpoint holds one packet: while the loader has not taken it, the write
\* waits, and fails when its time is over.
Send == /\ step # "idle" /\ ~waiting /\ handle /\ out = <<>>
        /\ out' = Append(out, [cmd |-> step, arg |-> Argument, of |-> image])
        /\ waiting' = TRUE
        /\ sent' = sent \cup {step}
        /\ UNCHANGED <<step, offset, exit, handle, run, loader, in>>

End(code) == /\ step' = "idle" /\ exit' = code
             /\ waiting' = FALSE /\ handle' = FALSE
             /\ UNCHANGED <<offset, sent, run>>

FailCode == CASE step \in {"DETECT", "CONFIG"} -> 4
              [] step = "KEY"     -> 5
              [] step = "ERASE"   -> 6
              [] step = "PROGRAM" -> 7
              [] step = "VERIFY"  -> 8
              [] step = "RESTART" -> 9

\* The write or the read fails or takes longer than two seconds.
TransportFails == /\ step # "idle"
                  /\ End(FailCode)
                  /\ UNCHANGED <<loader, pipes>>

\* Mutants: a reply to another command is taken; the configuration is not compared.
AcceptedAnyCommand(r) == step = "RESTART" \/ r.ok
AcceptedAnyConfig(r)  == r.cmd = step /\ (step \in {"RESTART", "CONFIG"} \/ r.ok)
Accepted(r)           == r.cmd = step /\ (step = "RESTART" \/ r.ok)

Continue(next, at) == /\ step' = next /\ offset' = at /\ waiting' = FALSE
                      /\ UNCHANGED <<exit, handle, sent, run>>

\* Mutant: the chunk is sent again and again.
NextOffsetStuck == offset
NextOffset      == offset + Min({ChunkWords, ImageWords(image) - offset})

\* Mutant: one chunk too many.
TransferPast(next) == IF NextOffset <= ImageWords(image) THEN Continue(step, NextOffset)
                                                         ELSE Continue(next, 0)
Transfer(next) == IF NextOffset < ImageWords(image) THEN Continue(step, NextOffset)
                                                    ELSE Continue(next, 0)

AfterReply == CASE step = "DETECT"  -> Continue("CONFIG", 0)
                [] step = "CONFIG"  -> IF mode = "preflight" THEN End(0)
                                                             ELSE Continue("KEY", 0)
                [] step = "KEY"     -> IF mode = "session" THEN End(0) ELSE Continue("ERASE", 0)
                [] step = "ERASE"   -> Continue("PROGRAM", 0)
                [] step = "PROGRAM" -> Transfer("VERIFY")
                [] step = "VERIFY"  -> Transfer("RESTART")
                [] step = "RESTART" -> End(0)

Receive == /\ waiting /\ handle /\ in # <<>>
           /\ IF Accepted(Head(in)) THEN AfterReply ELSE End(FailCode)
           /\ in' = Tail(in)
           /\ UNCHANGED <<loader, out>>

main == Send \/ Receive \/ TransportFails

-----------------------------------------------------------------------------
(* The boot loader, the user and the board.                                *)

\* A reply joins those not yet read, or replaces them.
Answer(ok) ==
  LET r == [cmd |-> Head(out).cmd, ok |-> ok]
  IN  /\ out' = Tail(out)
      /\ \/ Len(in) < MaxReplies /\ in' = Append(in, r)
         \/ in # <<>> /\ in' = <<r>>

Handling(cmd) == out # <<>> /\ Head(out).cmd = cmd /\ UNCHANGED program

LoaderRefuses == /\ out # <<>> /\ Head(out).cmd \notin {"DETECT", "CONFIG"}
                 /\ Answer(FALSE)
                 /\ UNCHANGED <<program, loader>>

LoaderDetect == Handling("DETECT") /\ Answer(board # "otherChip") /\ UNCHANGED loader

LoaderConfig == Handling("CONFIG") /\ Answer(board = "measured") /\ UNCHANGED loader

LoaderKey == Handling("KEY") /\ Answer(TRUE) /\ key' = TRUE /\ UNCHANGED <<board, flash>>

LoaderErase == /\ Handling("ERASE") /\ Answer(TRUE)
               /\ flash' = [w \in DOMAIN flash |->
                              IF w < Head(out).arg * SectorWords THEN "blank" ELSE flash[w]]
               /\ UNCHANGED <<board, key>>

\* The words a command of a transfer is about.
Chunk(c) == {w \in DOMAIN flash : w >= c.arg /\ w < c.arg + ChunkWords /\ w < ImageWords(c.of)}

Programmed(old, new) == IF old = "blank" THEN new ELSE "mixed"

LoaderProgram == /\ Handling("PROGRAM") /\ Answer(TRUE)
                 /\ \E new \in {Head(out).of, "bad"} :
                      flash' = [w \in DOMAIN flash |->
                                  IF w \in Chunk(Head(out))
                                  THEN Programmed(flash[w], IF key THEN new ELSE "bad")
                                  ELSE flash[w]]
                 /\ UNCHANGED <<board, key>>

LoaderVerify == /\ Handling("VERIFY")
                /\ Answer(key /\ \A w \in Chunk(Head(out)) : flash[w] = Head(out).of)
                /\ UNCHANGED loader

LoaderRestart == Handling("RESTART") /\ Answer(TRUE) /\ UNCHANGED loader

\* The user stops the program; the pipes keep what they hold.
Stop == step # "idle" /\ End(NoExit) /\ UNCHANGED <<loader, pipes>>

\* The board loses power; the open interface is dead.
Unplug == /\ out' = <<>> /\ in' = <<>> /\ key' = FALSE /\ handle' = FALSE
          /\ UNCHANGED <<step, offset, exit, waiting, sent, run, board, flash>>

\* Another board, as it left the factory.
Exchange(b) == /\ step = "idle" /\ b # board
               /\ board' = b /\ flash' = Fresh /\ key' = FALSE
               /\ out' = <<>> /\ in' = <<>> /\ exit' = NoExit
               /\ UNCHANGED <<step, offset, waiting, handle, sent, run>>

Next == \/ \E m \in Modes, i \in Images : Begin(m, i)
        \/ Send \/ Receive \/ TransportFails
        \/ LoaderRefuses \/ LoaderDetect \/ LoaderConfig \/ LoaderKey
        \/ LoaderErase \/ LoaderProgram \/ LoaderVerify \/ LoaderRestart
        \/ Stop \/ Unplug
        \/ \E b \in Boards : Exchange(b)

Spec == Init /\ [][Next]_vars

\* Every write and read of the program returns: with data, or when its time is over.
FairSpec == Spec /\ WF_vars(main)

-----------------------------------------------------------------------------
ProgramType == /\ step \in Commands \cup {"idle"} /\ mode \in Modes /\ image \in Images
               /\ offset \in Nat /\ (offset = 0 \/ offset < ImageWords(image))
               /\ exit \in -1 .. 9 /\ waiting \in BOOLEAN /\ handle \in BOOLEAN
               /\ sent \subseteq Commands /\ runs \in 0 .. MaxRuns
LoaderType  == board \in Boards /\ flash \in [0 .. Boot -> Contents] /\ key \in BOOLEAN
PipesType   == /\ out \in Seq(Packet) /\ Len(out) <= 1
               /\ in \in Seq(Reply) /\ Len(in) <= MaxReplies

TypeOK == ProgramType /\ LoaderType /\ PipesType

\* A flash run that reports success, or only the failed restart, has left the whole
\* image in the flash, whatever earlier runs left in the pipes and in the flash
\* (iokit_ch55x_flasher.cpp:412-424; flashing-macos.md:147-154).
SuccessMeansFlashed == mode = "flash" /\ exit \in {0, 9} =>
                         \A w \in 0 .. ImageWords(image) - 1 : flash[w] = image

\* The erase reaches every word the image will fill, and the boot loader is neither
\* erased nor written: no word is programmed that was not blank
\* (iokit_ch55x_flasher.cpp:377-384).
EraseFitsImage == flash[Boot] = "boot" /\ \A w \in DOMAIN flash : flash[w] # "mixed"

\* Only the board that was measured is ever erased; a preflight sends it no more than
\* Detect and ReadConfig and a session test no more than the key as well; and return
\* codes up to 5 say the run left the flash alone (iokit_ch55x_flasher.cpp:5-6,
\* 222-256, 392-411).
OthersUntouched == /\ board # "measured" => flash = Fresh
                   /\ mode = "preflight" => sent \subseteq {"DETECT", "CONFIG"}
                   /\ mode = "session" => sent \subseteq {"DETECT", "CONFIG", "KEY"}
                   /\ exit \in 2 .. 5 => "ERASE" \notin sent

\* Every run of the program ends (iokit_ch55x_flasher.cpp:131-141, 322-345).
RunEnds == step # "idle" ~> step = "idle"
=============================================================================
