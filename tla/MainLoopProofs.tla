--------------------------- MODULE MainLoopProofs ---------------------------
(***************************************************************************)
(* Proofs about the main loop: what its handlers do (KeyScan), for every   *)
(* number of controls, slots and steps, every visit order, all defaults    *)
(* and all commands: type correctness, a held chord stays until something  *)
(* touches it, no edge goes unhandled but where the scan does not look,    *)
(* and nothing stays stuck; and how long a round of it takes (Watchdog),   *)
(* for every host that polls within the interval.                          *)
(*                                                                         *)
(* The edits of the reports are characterised once, by what they do to the *)
(* set of codes and to the modifiers; the steps of the loop need no more.  *)
(***************************************************************************)
EXTENDS KeyScan, Watchdog, FiniteSetTheorems, SequenceTheorems, TLAPS

KeyReports == [mods : SUBSET Mods, keys : [1 .. Slots -> Codes]]
ConReports == [1 .. ConSlots -> Codes \X Codes]

\* What no edit of the keyboard report touches, and the other way round.
SameConsumer(r, q) == q.con = r.con /\ q.sentCon = r.sentCon
SameKeyboard(r, q) == q.kbd = r.kbd /\ q.sentKbd = r.sentKbd

\* The code is added, if it is not there and there is room, or nothing is sent.
Inserted(r, q, code) ==
  /\ q \in Reports /\ SameConsumer(r, q)
  /\ CodesIn(r.kbd) \subseteq CodesIn(q.kbd)
  /\ CodesIn(q.kbd) \subseteq CodesIn(r.kbd) \cup {code}
  /\ q.sentKbd = r.sentKbd \/ q.sentKbd = q.kbd
  /\ ~Present(r, code) /\ Present(r, 0) => code \in CodesIn(q.kbd) /\ q.sentKbd = q.kbd

Pressed(r, q, mods, code) ==
  Inserted(r, q, code) /\ q.kbd.mods = r.kbd.mods \cup mods

\* The code and the modifiers are gone, and the host knows.
Released(r, q, mods, code) ==
  /\ q \in Reports /\ SameConsumer(r, q)
  /\ q.kbd.mods = r.kbd.mods \ mods
  /\ CodesIn(q.kbd) = CodesIn(r.kbd) \ {code}
  /\ q.sentKbd = q.kbd

-----------------------------------------------------------------------------
(* The edits of the keyboard report.                                       *)

\* The search for an empty slot ends at one of the empty slots.
LEMMA FirstSlotIsOne ==
  ASSUME NEW S \in SUBSET Nat, S # {}
  PROVE  FirstSlot(S) \in S
<1>1. PICK s \in S : \A t \in S : ~ (<<t, s>> \in OpToRel(<, Nat))
  BY NatLessThanWellFounded, WFMin, Zenon
<1>2. \A t \in S : s <= t
  <2> SUFFICES ASSUME NEW t \in S PROVE s <= t
    OBVIOUS
  <2>1. ~ (<<t, s>> \in OpToRel(<, Nat))
    BY <1>1
  <2>2. s \in Nat /\ t \in Nat
    OBVIOUS
  <2>3. ~ (t < s)
    BY <2>1, <2>2 DEF OpToRel
  <2> QED
    BY <2>2, <2>3
<1> QED
  BY <1>2 DEF FirstSlot

\* A report record, by its fields.
LEMMA ReportFields ==
  /\ Reports = [kbd : KeyReports, con : ConReports, sentKbd : KeyReports,
                sentCon : ConReports]
  /\ \A k \in KeyReports : k.mods \in SUBSET Mods /\ k.keys \in [1 .. Slots -> Codes]
BY DEF Reports, KeyReports, ConReports

\* Setting a slot, or all of them, and telling the host.
LEMMA SendKeys ==
  ASSUME NEW r \in Reports, NEW keys \in [1 .. Slots -> Codes],
         NEW q, q = KBD_sendReport([r EXCEPT !.kbd.keys = keys])
  PROVE  /\ q \in Reports /\ SameConsumer(r, q)
         /\ q.kbd.mods = r.kbd.mods /\ q.kbd.keys = keys /\ q.sentKbd = q.kbd
<1>1. r.kbd \in KeyReports
  BY ReportFields
<1> DEFINE k == [r.kbd EXCEPT !.keys = keys]
<1>2. k \in KeyReports /\ k.mods = r.kbd.mods /\ k.keys = keys
  BY <1>1 DEF KeyReports
<1>3. q = [r EXCEPT !.kbd = k, !.sentKbd = k]
  BY ReportFields DEF KBD_sendReport
<1> HIDE DEF k
<1> QED
  BY <1>2, <1>3, ReportFields DEF SameConsumer

\* A code goes into an empty slot, beside those that are there.
LEMMA InsertDoes ==
  ASSUME NEW r \in Reports, NEW code \in Codes, code # 0
  PROVE  LET q == InsertCode(r, code)
         IN  Inserted(r, q, code) /\ q.kbd.mods = r.kbd.mods
<1> DEFINE empty == {s \in 1 .. Slots : r.kbd.keys[s] = 0}
           e     == FirstSlot(empty)
           q     == InsertCode(r, code)
<1>1. CASE Present(r, code) \/ empty = {}
  <2>1. q = r
    BY <1>1 DEF InsertCode
  <2>2. ~(~Present(r, code) /\ Present(r, 0))
    BY <1>1 DEF Present
  <2> QED
    BY <2>1, <2>2 DEF Inserted, SameConsumer
<1>2. CASE ~Present(r, code) /\ empty # {}
  <2>1. e \in 1 .. Slots /\ r.kbd.keys[e] = 0
    <3>1. empty \in SUBSET Nat
      OBVIOUS
    <3>2. e \in empty
      BY <1>2, <3>1, FirstSlotIsOne
    <3> QED
      BY <3>2
  <2> HIDE DEF e
  <2>2. r.kbd.keys \in [1 .. Slots -> Codes]
    BY ReportFields
  <2> DEFINE keys == [r.kbd.keys EXCEPT ![e] = code]
  <2>3. /\ keys \in [1 .. Slots -> Codes] /\ keys[e] = code
        /\ \A s \in 1 .. Slots : s # e => keys[s] = r.kbd.keys[s]
    BY <2>1, <2>2
  <2>4. q = KBD_sendReport([r EXCEPT !.kbd.keys = keys])
    BY <1>2 DEF InsertCode, e
  <2> HIDE DEF empty, q, keys
  <2>5. /\ q \in Reports /\ SameConsumer(r, q) /\ q.kbd.mods = r.kbd.mods
        /\ q.kbd.keys = keys /\ q.sentKbd = q.kbd
    BY <2>3, <2>4, SendKeys
  <2>6. CodesIn(q.kbd) = {keys[s] : s \in 1 .. Slots} \ {0}
    BY <2>3, <2>5 DEF CodesIn
  <2>7. CodesIn(r.kbd) = {r.kbd.keys[s] : s \in 1 .. Slots} \ {0}
    BY <2>2 DEF CodesIn
  <2>8. CodesIn(q.kbd) \subseteq CodesIn(r.kbd) \cup {code}
    BY <2>3, <2>6, <2>7
  <2>9. CodesIn(r.kbd) \subseteq CodesIn(q.kbd)
    BY <2>1, <2>3, <2>6, <2>7
  <2>10. code \in CodesIn(q.kbd)
    BY <2>1, <2>3, <2>6
  <2> QED
    BY <2>5, <2>8, <2>9, <2>10 DEF q, Inserted
<1> QED
  BY <1>1, <1>2

\* A code is taken out of every slot, and nothing else.
LEMMA DeleteDoes ==
  ASSUME NEW r \in Reports, NEW code \in Codes
  PROVE  Released(r, DeleteCode(r, code), {}, code)
<1> DEFINE keys == [s \in 1 .. Slots |-> IF r.kbd.keys[s] = code THEN 0 ELSE r.kbd.keys[s]]
           q    == DeleteCode(r, code)
<1>1. r.kbd.keys \in [1 .. Slots -> Codes]
  BY ReportFields
<1>2. keys \in [1 .. Slots -> Codes]
  <2>1. 0 \in Codes
    BY DEF Codes
  <2> QED
    BY <1>1, <2>1
<1>3. q = KBD_sendReport([r EXCEPT !.kbd.keys = keys])
  BY DEF DeleteCode
<1>4. \A s \in 1 .. Slots : keys[s] = IF r.kbd.keys[s] = code THEN 0 ELSE r.kbd.keys[s]
  OBVIOUS
<1> HIDE DEF keys, q
<1>5. /\ q \in Reports /\ SameConsumer(r, q) /\ q.kbd.mods = r.kbd.mods
      /\ q.kbd.keys = keys /\ q.sentKbd = q.kbd
  BY <1>2, <1>3, SendKeys
<1>6. CodesIn(q.kbd) = {keys[s] : s \in 1 .. Slots} \ {0}
  BY <1>2, <1>5 DEF CodesIn
<1>7. CodesIn(r.kbd) = {r.kbd.keys[s] : s \in 1 .. Slots} \ {0}
  BY <1>1 DEF CodesIn
<1>8. CodesIn(q.kbd) = CodesIn(r.kbd) \ {code}
  BY <1>4, <1>6, <1>7
<1> QED
  BY <1>5, <1>8 DEF q, Released

\* Adding and removing modifiers changes neither the codes nor what was sent.
LEMMA ModsDo ==
  ASSUME NEW r \in Reports, NEW mods \in SUBSET Mods
  PROVE  /\ AddMods(r, mods) \in Reports /\ SameConsumer(r, AddMods(r, mods))
         /\ AddMods(r, mods).kbd.mods = r.kbd.mods \cup mods
         /\ AddMods(r, mods).kbd.keys = r.kbd.keys
         /\ AddMods(r, mods).sentKbd = r.sentKbd
         /\ RemoveMods(r, mods) \in Reports /\ SameConsumer(r, RemoveMods(r, mods))
         /\ RemoveMods(r, mods).kbd.mods = r.kbd.mods \ mods
         /\ RemoveMods(r, mods).kbd.keys = r.kbd.keys
BY DEF Reports, AddMods, RemoveMods, SameConsumer

\* KBD_code_press, of a key.
LEMMA PressDoes ==
  ASSUME NEW r \in Reports, NEW mods \in SUBSET Mods, NEW code \in Codes, code # 0
  PROVE  Pressed(r, KBD_code_press(r, mods, code), mods, code)
<1> DEFINE p == AddMods(r, mods)
           q == InsertCode(p, code)
<1>1. /\ p \in Reports /\ SameConsumer(r, p) /\ p.kbd.mods = r.kbd.mods \cup mods
      /\ p.kbd.keys = r.kbd.keys /\ p.sentKbd = r.sentKbd
  BY ModsDo
<1> HIDE DEF p
<1>2. Inserted(p, q, code) /\ q.kbd.mods = p.kbd.mods
  BY <1>1, InsertDoes
<1>3. CodesIn(p.kbd) = CodesIn(r.kbd) /\ \A c : Present(p, c) <=> Present(r, c)
  BY <1>1 DEF CodesIn, Present
<1>4. KBD_code_press(r, mods, code) = q
  BY DEF KBD_code_press, p
<1> HIDE DEF q
<1> QED
  BY <1>1, <1>2, <1>3, <1>4 DEF Inserted, Pressed, SameConsumer

\* KBD_code_release.
LEMMA ReleaseDoes ==
  ASSUME NEW r \in Reports, NEW mods \in SUBSET Mods, NEW code \in Codes, code # 0
  PROVE  Released(r, KBD_code_release(r, mods, code), mods, code)
<1> DEFINE p == RemoveMods(r, mods)
           q == DeleteCode(p, code)
<1>1. /\ p \in Reports /\ SameConsumer(r, p) /\ p.kbd.mods = r.kbd.mods \ mods
      /\ p.kbd.keys = r.kbd.keys
  BY ModsDo
<1> HIDE DEF p
<1>2. Released(p, q, {}, code)
  BY <1>1, DeleteDoes
<1>3. CodesIn(p.kbd) = CodesIn(r.kbd)
  BY <1>1 DEF CodesIn
<1>4. KBD_code_release(r, mods, code) = q
  BY DEF KBD_code_release, p
<1> HIDE DEF q
<1> QED
  BY <1>1, <1>2, <1>3, <1>4 DEF Released, SameConsumer

\* KBD_code_type: what is pressed and released is no longer there.
LEMMA TypeDoes ==
  ASSUME NEW r \in Reports, NEW mods \in SUBSET Mods, NEW code \in Codes, code # 0
  PROVE  Released(r, KBD_code_type(r, mods, code), mods, code)
<1> DEFINE p == KBD_code_press(r, mods, code)
           q == KBD_code_release(p, mods, code)
<1>1. Pressed(r, p, mods, code)
  BY PressDoes
<1> HIDE DEF p
<1>2. p \in Reports
  BY <1>1 DEF Pressed, Inserted
<1>3. Released(p, q, mods, code)
  BY <1>2, ReleaseDoes
<1>4. KBD_code_type(r, mods, code) = q
  BY DEF KBD_code_type, p
<1> HIDE DEF q
<1> QED
  BY <1>1, <1>3, <1>4 DEF Pressed, Inserted, Released, SameConsumer

-----------------------------------------------------------------------------
(* The edits of the consumer report.                                       *)

\* A usage is two bytes, and so is an empty slot.
LEMMA UsageBytes ==
  /\ <<0, 0>> \in Codes \X Codes
  /\ \A usage \in Nat : High(usage) \in Codes => <<Low(usage), High(usage)>> \in Codes \X Codes
<1>1. 0 \in Codes
  BY DEF Codes
<1>2. ASSUME NEW usage \in Nat PROVE Low(usage) \in Codes
  BY DEF Low, Codes
<1> QED
  BY <1>1, <1>2

\* A press puts the usage into an empty slot, or changes nothing.
LEMMA ConPressDoes ==
  ASSUME NEW r \in Reports, NEW usage \in Nat, High(usage) \in Codes
  PROVE  LET q == CON_press(r, usage) IN
         /\ q \in Reports /\ SameKeyboard(r, q)
         /\ \A s \in 1 .. ConSlots :
              q.con[s] = r.con[s] \/ q.con[s] = <<Low(usage), High(usage)>>
<1> DEFINE empty == {s \in 1 .. ConSlots : r.con[s] = <<0, 0>>}
           e     == FirstSlot(empty)
           bytes == <<Low(usage), High(usage)>>
           q     == CON_press(r, usage)
<1>1. CASE q = r
  BY <1>1 DEF SameKeyboard
<1>2. CASE empty # {} /\ q = CON_sendReport([r EXCEPT !.con[e] = bytes])
  <2>1. empty \in SUBSET Nat
    OBVIOUS
  <2>2. e \in 1 .. ConSlots
    BY <1>2, <2>1, FirstSlotIsOne
  <2>3. bytes \in Codes \X Codes
    BY UsageBytes
  <2> HIDE DEF e, q, bytes
  <2>4. r.con \in ConReports
    BY ReportFields
  <2>5. q \in Reports /\ SameKeyboard(r, q) /\ q.con = [r.con EXCEPT ![e] = bytes]
    BY <1>2, <2>2, <2>3 DEF Reports, CON_sendReport, SameKeyboard
  <2> QED
    BY <2>2, <2>4, <2>5 DEF ConReports, q, bytes
<1> QED
  BY <1>1, <1>2 DEF CON_press

\* A release empties the slots that match.
LEMMA ConReleaseDoes ==
  ASSUME NEW r \in Reports, NEW usage
  PROVE  LET q == CON_release(r, usage) IN
         /\ q \in Reports /\ SameKeyboard(r, q) /\ q.sentCon = q.con
         /\ q.con = [s \in 1 .. ConSlots |->
                       IF Matches(r.con[s], usage) THEN <<0, 0>> ELSE r.con[s]]
<1> DEFINE q     == CON_release(r, usage)
           slots == [s \in 1 .. ConSlots |->
                       IF Matches(r.con[s], usage) THEN <<0, 0>> ELSE r.con[s]]
<1>1. q = CON_sendReport([r EXCEPT !.con = slots])
  BY DEF CON_release
<1>2. r \in Reports /\ r.con \in [1 .. ConSlots -> Codes \X Codes]
  BY DEF Reports
<1>3. slots \in [1 .. ConSlots -> Codes \X Codes]
  BY <1>2, UsageBytes
<1> HIDE DEF q, slots
<1>4. /\ q.kbd = r.kbd /\ q.sentKbd = r.sentKbd /\ q.con = slots /\ q.sentCon = slots
      /\ q \in Reports
  BY <1>1, <1>2, <1>3 DEF CON_sendReport, Reports
<1> QED
  BY <1>4 DEF q, slots, SameKeyboard

\* A usage is pressed and released; one of one byte leaves no trace.
LEMMA ConTypeDoes ==
  ASSUME NEW r \in Reports, NEW usage \in Nat, High(usage) \in Codes
  PROVE  LET q == CON_type(r, usage) IN
         /\ q \in Reports /\ SameKeyboard(r, q)
         /\ usage \in Codes /\ r.con = NoConsumer =>
              q.con = NoConsumer /\ q.sentCon = NoConsumer
<1> DEFINE p == CON_press(r, usage)
           q == CON_release(p, usage)
<1>1. /\ p \in Reports /\ SameKeyboard(r, p)
      /\ \A s \in 1 .. ConSlots :
           p.con[s] = r.con[s] \/ p.con[s] = <<Low(usage), High(usage)>>
  BY ConPressDoes
<1> HIDE DEF p
<1>2. /\ q \in Reports /\ SameKeyboard(p, q) /\ q.sentCon = q.con
      /\ q.con = [s \in 1 .. ConSlots |->
                    IF Matches(p.con[s], usage) THEN <<0, 0>> ELSE p.con[s]]
  BY <1>1, ConReleaseDoes
<1> HIDE DEF q
<1>3. ASSUME usage \in Codes, r.con = NoConsumer PROVE q.con = NoConsumer
  <2>1. High(usage) = 0 /\ Low(usage) = usage
    BY <1>3 DEF High, Low, Codes
  <2>2. ASSUME NEW s \in 1 .. ConSlots PROVE q.con[s] = <<0, 0>>
    <3>1. p.con[s] = <<0, 0>> \/ p.con[s] = <<usage, 0>>
      BY <1>1, <1>3, <2>1 DEF NoConsumer
    <3>2. p.con[s] = <<usage, 0>> => Matches(p.con[s], usage)
      BY <2>1 DEF Matches
    <3> QED
      BY <1>2, <3>1, <3>2
  <2> QED
    BY <1>2, <2>2 DEF NoConsumer
<1> QED
  BY <1>1, <1>2, <1>3 DEF q, p, CON_type, SameKeyboard

\* The usage of a consumer binding is two bytes, and one if the modifier byte is 0.
LEMMA UsageType ==
  ASSUME NEW first \in (SUBSET Mods) \X Codes
  PROVE  /\ ConsumerUsage(first) \in Nat /\ High(ConsumerUsage(first)) \in Codes
         /\ first[1] = {} => ConsumerUsage(first) \in Codes
<1> DEFINE m == ModByte(first[1])
           c == first[2]
<1>1. m \in 0 .. 255
  BY DEF ModByte, Bit
<1>2. first[1] = {} => m = 0
  BY DEF ModByte, Bit
<1>3. c \in 0 .. 255
  BY DEF Codes
<1> HIDE DEF m, c
<1>4. m * 256 + c \in Nat /\ (m * 256 + c) \div 256 \in 0 .. 255
  BY <1>1, <1>3
<1>5. m = 0 => m * 256 + c \in 0 .. 255
  BY <1>3
<1>6. ConsumerUsage(first) = m * 256 + c
  BY DEF ConsumerUsage, m, c
<1> QED
  BY <1>2, <1>4, <1>5, <1>6 DEF High, Codes

-----------------------------------------------------------------------------
(* What a control does.                                                    *)

\* The consumer usage of a binding fits into one byte.
OneByte(b) == b.kind = "CONSUMER" => b.steps[1][1] = {}

NoneDown(r) == r.con = NoConsumer /\ r.sentCon = NoConsumer

\* Nothing is left in the consumer report.
NoTrace(r, q, b) == OneByte(b) /\ NoneDown(r) => NoneDown(q)

\* A binding, by its fields; it has a first step.
LEMMA BindingFields ==
  ASSUME NEW b \in Bindings
  PROVE  /\ b.count \in 0 .. MaxSteps /\ b.steps \in [1 .. MaxSteps -> (SUBSET Mods) \X Codes]
         /\ b.steps[1] \in (SUBSET Mods) \X Codes
         /\ ChordCode(b) \in Codes /\ ChordMods(b) \in SUBSET Mods
<1>1. /\ b.count \in 0 .. MaxSteps /\ b.steps \in [1 .. MaxSteps -> (SUBSET Mods) \X Codes]
  BY DEF Bindings, Steps
<1>2. 1 \in 1 .. MaxSteps
  BY StepsAssumption
<1>3. b.steps[1] \in (SUBSET Mods) \X Codes
  BY <1>1, <1>2
<1>4. b.steps[1][1] \in SUBSET Mods /\ b.steps[1][2] \in Codes /\ 0 \in Codes
  BY <1>3 DEF Codes
<1> QED
  BY <1>1, <1>3, <1>4 DEF ChordCode, ChordMods

\* The keystrokes still to type are steps.
LEMMA StrokesType ==
  ASSUME NEW b \in Bindings
  PROVE  Strokes(b) \in Seq((SUBSET Mods) \X Codes)
<1> DEFINE S == (SUBSET Mods) \X Codes
           n == IF b.count < MaxSteps THEN b.count ELSE MaxSteps
<1>1. b.count \in 0 .. MaxSteps /\ b.steps \in [1 .. MaxSteps -> S]
  BY BindingFields
<1> HIDE DEF S
<1>2. MaxSteps \in Nat /\ n \in 0 .. MaxSteps
  BY <1>1, StepsAssumption
<1>3. b.steps \in Seq(S) /\ Len(b.steps) = MaxSteps
  BY <1>1, <1>2, LenProperties, SeqDef
<1> HIDE DEF n
<1>4. SubSeq(b.steps, 1, n) \in Seq(S)
  BY <1>2, <1>3, SubSeqProperties
<1>5. <<>> \in Seq(S)
  OBVIOUS
<1> QED
  BY <1>4, <1>5 DEF Strokes, Active, n, S

\* ACTION_trigger, apart from its keystrokes, leaves the keyboard report alone.
LEMMA TriggerDoes ==
  ASSUME NEW r \in Reports, NEW b \in Bindings
  PROVE  LET q == ACTION_trigger(r, b)
         IN  q \in Reports /\ SameKeyboard(r, q) /\ NoTrace(r, q, b)
<1> DEFINE usage == ConsumerUsage(b.steps[1])
           q     == ACTION_trigger(r, b)
<1>1. CASE q = r
  BY <1>1 DEF SameKeyboard, NoTrace
<1>2. CASE b.kind = "CONSUMER" /\ q = CON_type(r, usage)
  <2>1. /\ usage \in Nat /\ High(usage) \in Codes
        /\ b.steps[1][1] = {} => usage \in Codes
    BY BindingFields, UsageType
  <2> HIDE DEF usage, q
  <2>2. /\ q \in Reports /\ SameKeyboard(r, q)
        /\ usage \in Codes /\ r.con = NoConsumer => q.con = NoConsumer /\ q.sentCon = NoConsumer
    BY <1>2, <2>1, ConTypeDoes
  <2> QED
    BY <1>2, <2>1, <2>2 DEF NoTrace, NoneDown, OneByte, q
<1> QED
  BY <1>1, <1>2 DEF ACTION_trigger

\* ACTION_press presses the chord of a binding that holds one.
LEMMA ActionPressDoes ==
  ASSUME NEW r \in Reports, NEW b \in Bindings
  PROVE  LET q == ACTION_press(r, b) IN
         /\ q \in Reports /\ NoTrace(r, q, b)
         /\ IF ChordCode(b) # 0 THEN Pressed(r, q, ChordMods(b), ChordCode(b))
            ELSE SameKeyboard(r, q)
<1> DEFINE q    == ACTION_press(r, b)
           mods == b.steps[1][1]
           code == b.steps[1][2]
<1>1. mods \in SUBSET Mods /\ code \in Codes
  BY BindingFields
<1>2. CASE Holds(b) /\ code # 0
  <2>1. ChordCode(b) = code /\ ChordMods(b) = mods
    BY <1>2 DEF ChordCode, ChordMods
  <2>2. q = KBD_code_press(r, mods, code)
    BY <1>2 DEF ACTION_press
  <2> HIDE DEF q, mods, code
  <2>3. Pressed(r, q, mods, code)
    BY <1>1, <1>2, <2>2, PressDoes
  <2>4. q \in Reports /\ NoTrace(r, q, b)
    BY <2>3 DEF Pressed, Inserted, SameConsumer, NoTrace, NoneDown
  <2> QED
    BY <1>2, <2>1, <2>3, <2>4 DEF q
<1>3. CASE Holds(b) /\ code = 0
  <2>1. ChordCode(b) = 0 /\ q = r
    BY <1>3 DEF ChordCode, ACTION_press, KBD_code_press
  <2> QED
    BY <2>1 DEF SameKeyboard, NoTrace
<1>4. CASE ~Holds(b)
  <2>1. ChordCode(b) = 0
    BY <1>4 DEF ChordCode
  <2>2. q = r \/ q = ACTION_trigger(r, b)
    BY <1>4 DEF ACTION_press
  <2>3. q \in Reports /\ SameKeyboard(r, q) /\ NoTrace(r, q, b)
    <3>1. CASE q = r
      BY <3>1 DEF SameKeyboard, NoTrace
    <3>2. CASE q = ACTION_trigger(r, b)
      BY <3>2, TriggerDoes
    <3> QED
      BY <2>2, <3>1, <3>2
  <2> QED
    BY <2>1, <2>3
<1> QED
  BY <1>2, <1>3, <1>4

\* ACTION_release releases it.
LEMMA ActionReleaseDoes ==
  ASSUME NEW r \in Reports, NEW b \in Bindings
  PROVE  LET q == ACTION_release(r, b) IN
         IF ChordCode(b) # 0 THEN Released(r, q, ChordMods(b), ChordCode(b)) ELSE q = r
<1> DEFINE mods == b.steps[1][1]
           code == b.steps[1][2]
<1>1. mods \in SUBSET Mods /\ code \in Codes
  BY BindingFields
<1>2. CASE Holds(b) /\ code # 0
  <2>1. ChordCode(b) = code /\ ChordMods(b) = mods
    BY <1>2 DEF ChordCode, ChordMods
  <2>2. ACTION_release(r, b) = KBD_code_release(r, mods, code)
    BY <1>2 DEF ACTION_release
  <2> HIDE DEF mods, code
  <2> QED
    BY <1>1, <1>2, <2>1, <2>2, ReleaseDoes
<1>3. CASE Holds(b) /\ code = 0
  BY <1>3 DEF ChordCode, ACTION_release, KBD_code_release
<1>4. CASE ~Holds(b)
  BY <1>4 DEF ChordCode, ACTION_release
<1> QED
  BY <1>2, <1>3, <1>4

\* A keystroke releases its key, and one without a key does nothing.
LEMMA StrokeDoes ==
  ASSUME NEW r \in Reports, NEW mods \in SUBSET Mods, NEW code \in Codes
  PROVE  LET q == KBD_code_type(r, mods, code) IN
         IF code # 0 THEN Released(r, q, mods, code) ELSE q = r
<1>1. CASE code # 0
  BY <1>1, TypeDoes
<1>2. CASE code = 0
  BY <1>2 DEF KBD_code_type, KBD_code_press, KBD_code_release
<1> QED
  BY <1>1, <1>2

\* Nothing is pressed in an empty report.
Cleared(r) == r \in Reports /\ r.kbd = NoKeys /\ r.sentKbd = NoKeys /\ NoneDown(r)

\* An empty report has no codes.
LEMMA NoKeysEmpty ==
  NoKeys \in KeyReports /\ CodesIn(NoKeys) = {} /\ NoKeys.mods = {}
<1>1. 0 \in Codes
  BY DEF Codes
<1>2. NoKeys.keys = [s \in 1 .. Slots |-> 0] /\ NoKeys.mods = {}
  BY DEF NoKeys
<1>3. NoKeys \in KeyReports
  BY <1>1 DEF NoKeys, KeyReports
<1> QED
  BY <1>2, <1>3 DEF CodesIn

\* Releasing all, and a bus reset, leave nothing pressed.
LEMMA ClearedReports ==
  Cleared(Blank) /\ \A r \in Reports : Cleared(ACTION_releaseAll(r))
<1>1. NoConsumer \in ConReports
  BY UsageBytes DEF NoConsumer, ConReports
<1>2. NoKeys \in KeyReports
  BY NoKeysEmpty
<1>3. Cleared(Blank)
  BY <1>1, <1>2, ReportFields DEF Blank, Cleared, NoneDown
<1>4. ASSUME NEW r \in Reports PROVE Cleared(ACTION_releaseAll(r))
  <2> DEFINE p == KBD_releaseAll(r)
             q == CON_releaseAll(p)
  <2>1. p = [r EXCEPT !.kbd = NoKeys, !.sentKbd = NoKeys]
    BY ReportFields DEF KBD_releaseAll, KBD_sendReport
  <2> HIDE DEF p
  <2>2. p \in Reports /\ p.kbd = NoKeys /\ p.sentKbd = NoKeys
    BY <1>2, <2>1, ReportFields
  <2>3. q = [p EXCEPT !.con = NoConsumer, !.sentCon = NoConsumer]
    BY <2>2, ReportFields DEF CON_releaseAll, CON_sendReport
  <2>4. ACTION_releaseAll(r) = q
    BY DEF ACTION_releaseAll, p
  <2> HIDE DEF q
  <2> QED
    BY <1>1, <2>2, <2>3, <2>4, ReportFields DEF Cleared, NoneDown
<1> QED
  BY <1>3, <1>4

-----------------------------------------------------------------------------
(* The inductive invariant.  What is promised of the report the host got   *)
(* is as true of the report being edited, which the next send passes on.   *)

\* The chords that nothing has touched are in the report.
Keeps(report) ==
  \A k \in holding : /\ ChordCode(binding[k]) \in CodesIn(report)
                     /\ ChordMods(binding[k]) \subseteq report.mods

ChordInv == /\ Explained(d.kbd) /\ Explained(d.sentKbd)
            /\ Keeps(d.kbd) /\ Keeps(d.sentKbd)
            /\ pressedMask \subseteq Held

IInv == TypeOK /\ ChordInv

\* The loop visits some control, and goes on to another.
LEMMA PlaceOK ==
  /\ 1 \in DOMAIN Order
  /\ pos \in DOMAIN Order /\ Advance => pos' \in DOMAIN Order
<1>1. Len(Order) \in Nat /\ DOMAIN Order = 1 .. Len(Order)
  BY OrderAssumption, LenProperties
<1>2. PICK i \in DOMAIN Order : Order[i] = "usb"
  BY OrderAssumption
<1> DEFINE l == Len(Order)
<1> HIDE DEF l
<1>3. \A j, n \in Nat : j \in 1 .. n => 1 \in 1 .. n /\ (j # n => j + 1 \in 1 .. n)
  OBVIOUS
<1>4. i \in 1 .. Len(Order)
  BY <1>1, <1>2
<1>5. 1 \in DOMAIN Order
  BY <1>1, <1>2, <1>3
<1>6. ASSUME pos \in DOMAIN Order, Advance PROVE pos' \in DOMAIN Order
  BY <1>1, <1>3, <1>5, <1>6 DEF Advance
<1> QED
  BY <1>5, <1>6

\* Nothing is pressed at first.
LEMMA InitInv == Init => IInv
<1> SUFFICES ASSUME Init PROVE IInv
  OBVIOUS
<1>1. Cleared(d)
  BY ClearedReports DEF Init
<1>2. TypeOK
  BY <1>1, PlaceOK, DefaultsAssumption DEF Init, TypeOK, Cleared
<1>3. ChordInv
  BY <1>1, NoKeysEmpty DEF Init, ChordInv, Cleared, Explained, Keeps
<1> QED
  BY <1>2, <1>3 DEF IInv

\* A press whose chord finds no place takes nothing from the chords that are there.
LEMMA HandlePressInv ==
  ASSUME IInv, NEW k \in Inputs, HandlePress(k)
  PROVE  IInv'
<1> DEFINE b == binding[k]
<1>1. b \in Bindings /\ d \in Reports
  BY DEF IInv, TypeOK, Controls
<1>2. /\ d' \in Reports
      /\ IF ChordCode(b) # 0 THEN Pressed(d, d', ChordMods(b), ChordCode(b))
         ELSE SameKeyboard(d, d')
  BY <1>1, ActionPressDoes DEF HandlePress
<1>3. strokes' \in Seq((SUBSET Mods) \X Codes)
  BY <1>1, StrokesType DEF HandlePress
<1>4. TypeOK'
  BY <1>2, <1>3 DEF IInv, TypeOK, HandlePress, pins
<1>5. Held' = Held \cup {k} /\ binding' = binding
  BY DEF HandlePress, Held, IInv, TypeOK
<1>6. holding' = IF Fits(b) THEN holding \cup {k} ELSE holding
  BY DEF HandlePress
<1>7. pressedMask' \subseteq Held'
  BY <1>5 DEF HandlePress, IInv, ChordInv
<1>8. CASE ChordCode(b) # 0
  <2>1. Explained(d.kbd)' /\ (d'.sentKbd = d.sentKbd \/ d'.sentKbd = d'.kbd)
    BY <1>2, <1>5, <1>8 DEF IInv, ChordInv, Explained, Pressed, Inserted
  <2>2. Explained(d.sentKbd)'
    BY <1>5, <2>1 DEF IInv, ChordInv, Explained
  <2>3. /\ CodesIn(d.kbd) \subseteq CodesIn(d'.kbd) /\ d.kbd.mods \subseteq d'.kbd.mods
        /\ ChordMods(b) \subseteq d'.kbd.mods
        /\ Fits(b) => ChordCode(b) \in CodesIn(d'.kbd) /\ d'.sentKbd = d'.kbd
    BY <1>2, <1>8 DEF Pressed, Inserted, Fits
  <2>4. Keeps(d.kbd)'
    BY <1>5, <1>6, <2>3 DEF IInv, ChordInv, Keeps
  <2>5. Keeps(d.sentKbd)'
    BY <1>5, <1>6, <2>1, <2>3, <2>4 DEF IInv, ChordInv, Keeps
  <2> QED
    BY <1>4, <1>7, <2>1, <2>2, <2>4, <2>5 DEF IInv, ChordInv
<1>9. CASE ChordCode(b) = 0
  <2>1. d'.kbd = d.kbd /\ d'.sentKbd = d.sentKbd
    BY <1>2, <1>9 DEF SameKeyboard
  <2>2. holding' = holding
    BY <1>6, <1>9 DEF Fits
  <2> QED
    BY <1>4, <1>5, <1>7, <2>1, <2>2 DEF IInv, ChordInv, Explained, Keeps
<1> QED
  BY <1>8, <1>9

\* What the release of a key leaves in the report was there for another control.
LEMMA HandleReleaseInv ==
  ASSUME IInv, NEW k \in Inputs, HandleRelease(k)
  PROVE  IInv'
<1> DEFINE b == binding[k]
<1>1. b \in Bindings /\ d \in Reports
  BY DEF IInv, TypeOK, Controls
<1>2. IF ChordCode(b) # 0 THEN Released(d, d', ChordMods(b), ChordCode(b)) ELSE d' = d
  BY <1>1, ActionReleaseDoes DEF HandleRelease
<1>3. d' \in Reports
  BY <1>1, <1>2 DEF Released
<1>4. holding' = Untouched(ChordMods(b), ChordCode(b), holding \ {k})
  BY DEF HandleRelease
<1>5. holding' \subseteq holding \ {k}
  BY <1>4 DEF Untouched
<1>6. TypeOK'
  BY <1>3, <1>5 DEF IInv, TypeOK, HandleRelease, pins
<1>7. Held' = Held \ {k} /\ binding' = binding
  BY DEF HandleRelease, Held, IInv, TypeOK
<1>8. pressedMask' \subseteq Held'
  BY <1>7 DEF HandleRelease, IInv, ChordInv
<1>9. CASE ChordCode(b) # 0
  <2>1. /\ d'.kbd.mods = d.kbd.mods \ ChordMods(b) /\ d'.sentKbd = d'.kbd
        /\ CodesIn(d'.kbd) = CodesIn(d.kbd) \ {ChordCode(b)}
    BY <1>2, <1>9 DEF Released
  <2>2. Explained(d.kbd)'
    BY <1>7, <2>1 DEF IInv, ChordInv, Explained
  <2>3. Keeps(d.kbd)'
    BY <1>4, <1>7, <1>9, <2>1 DEF IInv, ChordInv, Keeps, Untouched
  <2> QED
    BY <1>6, <1>8, <2>1, <2>2, <2>3 DEF IInv, ChordInv
<1>10. CASE ChordCode(b) = 0
  <2>1. d' = d /\ ChordMods(b) = {}
    BY <1>2, <1>10 DEF ChordMods
  <2>2. Explained(d.kbd)' /\ Explained(d.sentKbd)'
    <3>1. 0 \notin CodesIn(d.kbd) /\ 0 \notin CodesIn(d.sentKbd)
      BY DEF CodesIn
    <3> QED
      BY <1>7, <1>10, <2>1, <3>1 DEF IInv, ChordInv, Explained
  <2>3. Keeps(d.kbd)' /\ Keeps(d.sentKbd)'
    BY <1>5, <1>7, <2>1 DEF IInv, ChordInv, Keeps
  <2> QED
    BY <1>6, <1>8, <2>2, <2>3 DEF IInv, ChordInv
<1> QED
  BY <1>9, <1>10

\* A keystroke takes its key and its modifiers with it, and no more.
LEMMA TypeStrokeInv ==
  ASSUME IInv, TypeStroke
  PROVE  IInv'
<1> DEFINE mods == Head(strokes)[1]
           code == Head(strokes)[2]
<1>1. strokes \in Seq((SUBSET Mods) \X Codes) /\ strokes # <<>> /\ d \in Reports
  BY DEF IInv, TypeOK, TypeStroke
<1>2. Head(strokes) \in (SUBSET Mods) \X Codes /\ strokes' \in Seq((SUBSET Mods) \X Codes)
  BY <1>1, HeadTailProperties DEF TypeStroke
<1>3. mods \in SUBSET Mods /\ code \in Codes
  BY <1>2
<1>4. d' = KBD_code_type(d, mods, code) /\ holding' = Untouched(mods, code, holding)
  BY DEF TypeStroke
<1> HIDE DEF mods, code
<1>5. IF code # 0 THEN Released(d, d', mods, code) ELSE d' = d
  BY <1>1, <1>3, <1>4, StrokeDoes
<1>6. d' \in Reports /\ holding' \subseteq holding
  BY <1>1, <1>4, <1>5 DEF Released, Untouched
<1>7. TypeOK'
  BY <1>2, <1>6 DEF IInv, TypeOK, TypeStroke, pins, loop
<1>8. binding' = binding /\ Held' = Held /\ pressedMask' = pressedMask
  BY DEF TypeStroke, Held
<1>9. CASE code # 0
  <2>1. /\ d'.kbd.mods = d.kbd.mods \ mods /\ d'.sentKbd = d'.kbd
        /\ CodesIn(d'.kbd) = CodesIn(d.kbd) \ {code}
    BY <1>5, <1>9 DEF Released
  <2>2. Explained(d.kbd)'
    BY <1>8, <2>1 DEF IInv, ChordInv, Explained
  <2>3. Keeps(d.kbd)'
    BY <1>4, <1>8, <1>9, <2>1 DEF IInv, ChordInv, Keeps, Untouched
  <2> QED
    BY <1>7, <1>8, <2>1, <2>2, <2>3 DEF IInv, ChordInv
<1>10. CASE code = 0
  BY <1>5, <1>6, <1>7, <1>8, <1>10 DEF IInv, ChordInv, Explained, Keeps
<1> QED
  BY <1>9, <1>10

\* The encoder's action leaves the keyboard report alone; its keystrokes come later.
LEMMA EncoderInv ==
  ASSUME IInv, Encoder
  PROVE  IInv'
<1>1. /\ d' \in Reports /\ SameKeyboard(d, d')
      /\ strokes' \in Seq((SUBSET Mods) \X Codes)
  <2>1. CASE d' = d /\ strokes' = strokes
    BY <2>1 DEF SameKeyboard, IInv, TypeOK
  <2>2. ASSUME NEW c \in Controls, d' = ACTION_trigger(d, binding[c]),
               strokes' = Strokes(binding[c])
        PROVE  /\ d' \in Reports /\ SameKeyboard(d, d')
               /\ strokes' \in Seq((SUBSET Mods) \X Codes)
    <3>1. binding[c] \in Bindings /\ d \in Reports
      BY DEF IInv, TypeOK
    <3> QED
      BY <2>2, <3>1, TriggerDoes, StrokesType
  <2> QED
    BY <2>1, <2>2 DEF Encoder, Controls
<1>2. pos' \in DOMAIN Order
  BY PlaceOK DEF IInv, TypeOK, Encoder
<1>3. TypeOK'
  BY <1>1, <1>2 DEF IInv, TypeOK, Encoder, pins, history
<1>4. ChordInv'
  BY <1>1 DEF IInv, ChordInv, Encoder, history, SameKeyboard, Explained, Keeps, Held
<1> QED
  BY <1>3, <1>4 DEF IInv

\* A binding is replaced when nothing is pressed.
LEMMA SetBindingInv ==
  ASSUME IInv, NEW nb \in NewBindings, SetBinding(nb[1], nb[2])
  PROVE  IInv'
<1> DEFINE c == nb[1]
           b == nb[2]
<1>1. pos' \in DOMAIN Order
  BY PlaceOK DEF IInv, TypeOK, SetBinding, AtUSB
<1>2. CASE c \in Controls /\ Acceptable(b)
  <2>1. b \in Requested
    BY CommandsAssumption
  <2>2. b \in Bindings
    BY <1>2, <2>1, StepsAssumption DEF Requested, Bindings, Acceptable
  <2>3. binding' \in [Controls -> Bindings]
    BY <1>2, <2>2 DEF IInv, TypeOK, SetBinding
  <2>4. Cleared(d')
    BY <1>2, ClearedReports DEF IInv, TypeOK, SetBinding, BeforeRebind
  <2>5. holding' = {}
    BY <1>2 DEF SetBinding
  <2>6. TypeOK'
    BY <1>1, <2>3, <2>4, <2>5 DEF IInv, TypeOK, SetBinding, AtUSB, pins, Cleared
  <2>7. ChordInv'
    BY <2>4, <2>5, NoKeysEmpty
       DEF IInv, ChordInv, SetBinding, AtUSB, Cleared, Explained, Keeps, Held
  <2> QED
    BY <2>6, <2>7 DEF IInv
<1>3. CASE ~(c \in Controls /\ Acceptable(b))
  <2>1. TypeOK'
    BY <1>1, <1>3 DEF IInv, TypeOK, SetBinding, AtUSB, pins
  <2>2. ChordInv'
    BY <1>3 DEF IInv, ChordInv, SetBinding, AtUSB, Explained, Keeps, Held
  <2> QED
    BY <2>1, <2>2 DEF IInv
<1> QED
  BY <1>2, <1>3

\* The release-all command, and a bus reset.
LEMMA ClearingInv ==
  ASSUME IInv, BusReset \/ ReleaseAllCommand
  PROVE  IInv'
<1>1. Cleared(d') /\ holding' = {} /\ pressedMask' \subseteq pressedMask
  BY ClearedReports DEF IInv, TypeOK, BusReset, ReleaseAllCommand, KBD_resetState
<1>2. pos' \in DOMAIN Order
  BY PlaceOK DEF IInv, TypeOK, BusReset, ReleaseAllCommand, AtUSB, loop
<1>3. TypeOK'
  BY <1>1, <1>2
     DEF IInv, TypeOK, BusReset, ReleaseAllCommand, AtUSB, pins, loop, Cleared
<1>4. ChordInv'
  BY <1>1, NoKeysEmpty
     DEF IInv, ChordInv, BusReset, ReleaseAllCommand, AtUSB, Cleared, Explained, Keeps, Held
<1> QED
  BY <1>3, <1>4 DEF IInv

\* The other steps touch neither the reports nor what is held.
LEMMA OtherInv ==
  ASSUME IInv,
         PinChange \/ NoCommand \/ \E k \in Inputs : ReadPin(k) \/ Bounce(k) \/ Settle(k)
  PROVE  IInv'
<1>1. CASE PinChange
  <2>1. pin' \in [Inputs -> BOOLEAN] /\ lost' \in [Inputs -> BOOLEAN]
    BY <1>1 DEF IInv, TypeOK, PinChange, InputEdge
  <2>2. TypeOK'
    BY <1>1, <2>1 DEF IInv, TypeOK, PinChange, InputEdge, loop
  <2> QED
    BY <1>1, <2>2 DEF IInv, ChordInv, PinChange, Explained, Keeps, Held
<1>2. CASE NoCommand
  <2>1. TypeOK'
    BY <1>2, PlaceOK DEF IInv, TypeOK, NoCommand, AtUSB, pins
  <2> QED
    BY <1>2, <2>1 DEF IInv, ChordInv, NoCommand, AtUSB, Explained, Keeps, Held
<1>3. ASSUME NEW k \in Inputs, ReadPin(k) \/ Bounce(k) PROVE IInv'
  <2>1. step' \in {"read", "pressing", "releasing", "settle"}
    BY <1>3 DEF ReadPin, Bounce
  <2>2. TypeOK'
    BY <1>3, <2>1 DEF IInv, TypeOK, ReadPin, Bounce, pins, history
  <2> QED
    BY <1>3, <2>2 DEF IInv, ChordInv, ReadPin, Bounce, history, Explained, Keeps, Held
<1>4. ASSUME NEW k \in Inputs, Settle(k) PROVE IInv'
  <2>1. last' \in [Inputs -> BOOLEAN]
    BY <1>4 DEF IInv, TypeOK, Settle
  <2>2. TypeOK'
    BY <1>4, <2>1, PlaceOK DEF IInv, TypeOK, Settle, pins, history
  <2> QED
    BY <1>4, <2>2 DEF IInv, ChordInv, Settle, history, Explained, Keeps, Held
<1> QED
  BY <1>1, <1>2, <1>3, <1>4

\* A step that changes nothing.
LEMMA StutterInv == IInv /\ UNCHANGED vars => IInv'
BY DEF IInv, TypeOK, ChordInv, vars, pins, loop, history, Explained, Keeps, Held

\* In every reachable state each code and modifier belongs to a held control.
THEOREM Invariance == Spec => []IInv
<1>1. IInv /\ [Next]_vars => IInv'
  BY HandlePressInv, HandleReleaseInv, TypeStrokeInv, EncoderInv, SetBindingInv,
     ClearingInv, OtherInv, StutterInv DEF Next
<1> QED
  BY <1>1, InitInv, PTL DEF Spec

\* The variables of the main loop stay in their ranges: a binding that a command sets
\* has a known kind and no more steps than there are (TypeOK; input_actions.c:100-101).
THEOREM TypeCorrect == Spec => []TypeOK
<1>1. IInv => TypeOK
  BY DEF IInv
<1> QED
  BY <1>1, Invariance, PTL

\* A chord that is held, and that nothing has touched, stays on the host
\* (HeldChordStays; input_actions.c:70-87).
THEOREM ChordsStay == Spec => []HeldChordStays
<1>1. IInv => HeldChordStays
  BY DEF IInv, ChordInv, Keeps, HeldChordStays
<1> QED
  BY <1>1, Invariance, PTL

-----------------------------------------------------------------------------
(* The edges of the pins, and which of them are handled.                   *)

\* Whether an edge of k has passed the scan by: what is recorded, or is about to be,
\* differs from what was handled.  In between HANDLE_INPUT has the old record.
EdgeInv(k) ==
  /\ ~Unwatched(k) => (last[k] = ~down[k]) = ~lost[k]
  /\ Unwatched(k) => (pin[k] = ~down[k]) = ~lost[k]
  /\ Order[pos] = k /\ step = "pressing" => last[k]
  /\ Order[pos] = k /\ step = "releasing" => ~last[k]

\* Only while a control is scanned is one half read.
ScanInv == Order[pos] \notin Inputs => step = "read"

EdgesInv == ScanInv /\ \A k \in Inputs : EdgeInv(k)

\* An edge of a pin passes the scan by exactly when it comes too late.
LEMMA PinChangeEdges ==
  ASSUME IInv, EdgesInv, PinChange
  PROVE  EdgesInv'
<1>1. UNCHANGED <<last, pos, step, down>>
  BY DEF PinChange, loop
<1>2. \A k \in Inputs : Unwatched(k)' = Unwatched(k)
  BY <1>1 DEF Unwatched
<1>3. CASE \E k \in Inputs : InputEdge(k)
  <2> PICK j \in Inputs : InputEdge(j)
    BY <1>3
  <2> SUFFICES ASSUME NEW k \in Inputs PROVE EdgeInv(k)'
    BY <1>1 DEF EdgesInv, ScanInv
  <2>1. /\ pin[k] \in BOOLEAN /\ lost[k] \in BOOLEAN /\ down[k] \in BOOLEAN
        /\ last[k] \in BOOLEAN
    BY DEF IInv, TypeOK
  <2>2. /\ pin'[k] = IF k = j THEN ~pin[k] ELSE pin[k]
        /\ lost'[k] = IF k = j /\ Unwatched(k) THEN ~lost[k] ELSE lost[k]
    BY DEF IInv, TypeOK, InputEdge
  <2>3. CASE Unwatched(k)
    BY <1>1, <1>2, <2>1, <2>2, <2>3 DEF EdgesInv, EdgeInv, Unwatched
  <2>4. CASE ~Unwatched(k)
    BY <1>1, <1>2, <2>1, <2>2, <2>4 DEF EdgesInv, EdgeInv
  <2> QED
    BY <2>3, <2>4
<1>4. CASE ~\E k \in Inputs : InputEdge(k)
  <2>1. UNCHANGED <<pin, lost>>
    BY <1>4 DEF PinChange
  <2> QED
    BY <1>1, <2>1 DEF EdgesInv, EdgeInv, ScanInv, Unwatched
<1> QED
  BY <1>3, <1>4

\* Reading a control: what is handled, given up or recorded is the edge it shows.
LEMMA ScanEdges ==
  ASSUME IInv, EdgesInv, NEW j \in Inputs,
         ReadPin(j) \/ Bounce(j) \/ HandlePress(j) \/ HandleRelease(j) \/ Settle(j)
  PROVE  EdgesInv'
<1>1. Order[pos] = j /\ pin' = pin
  BY DEF ReadPin, Bounce, HandlePress, HandleRelease, Settle, At, pins
<1>2. ScanInv'
  BY <1>1 DEF ReadPin, Bounce, HandlePress, HandleRelease, Settle, ScanInv
<1> SUFFICES ASSUME NEW k \in Inputs PROVE EdgeInv(k)'
  BY <1>2 DEF EdgesInv
<1>3. /\ pin[k] \in BOOLEAN /\ lost[k] \in BOOLEAN /\ down[k] \in BOOLEAN
      /\ last[k] \in BOOLEAN /\ EdgeInv(k)
  BY DEF IInv, TypeOK, EdgesInv
<1>4. CASE ReadPin(j)
  BY <1>1, <1>3, <1>4 DEF ReadPin, EdgeInv, Unwatched, history
<1>5. CASE Bounce(j)
  BY <1>1, <1>3, <1>5 DEF Bounce, EdgeInv, Unwatched, history
<1>6. CASE HandlePress(j)
  <2>1. /\ down'[k] = (k = j \/ down[k]) /\ lost'[k] = (k # j /\ lost[k])
        /\ last' = last /\ pos' = pos /\ step' = "settle" /\ step = "pressing" /\ ~pin[j]
    BY <1>3, <1>6 DEF HandlePress, IInv, TypeOK
  <2> QED
    BY <1>1, <1>3, <2>1 DEF EdgeInv, Unwatched
<1>7. CASE HandleRelease(j)
  <2>1. /\ down'[k] = (k # j /\ down[k]) /\ lost'[k] = (k # j /\ lost[k])
        /\ last' = last /\ pos' = pos /\ step' = "settle" /\ step = "releasing" /\ pin[j]
    BY <1>3, <1>7 DEF HandleRelease, IInv, TypeOK
  <2> QED
    BY <1>1, <1>3, <2>1 DEF EdgeInv, Unwatched
<1>8. CASE Settle(j)
  <2>1. /\ last'[k] = IF k = j THEN pin[k] ELSE last[k]
        /\ down' = down /\ lost' = lost /\ step' = "read" /\ step = "settle"
    BY <1>8 DEF Settle, IInv, TypeOK, history
  <2> QED
    BY <1>1, <1>3, <2>1 DEF EdgeInv, Unwatched
<1> QED
  BY <1>4, <1>5, <1>6, <1>7, <1>8

\* The other steps read no control.
LEMMA OtherEdges ==
  ASSUME IInv, EdgesInv,
         \/ BusReset \/ TypeStroke \/ Encoder \/ HandleUSB \/ UNCHANGED vars
  PROVE  EdgesInv'
<1>1. UNCHANGED <<pin, last, down, lost, step>>
  BY DEF BusReset, TypeStroke, Encoder, HandleUSB, NoCommand, SetBinding, ReleaseAllCommand,
         AtUSB, vars, pins, loop, history
<1>2. CASE BusReset \/ UNCHANGED vars
  BY <1>1, <1>2 DEF BusReset, vars, loop, EdgesInv, EdgeInv, ScanInv, Unwatched
<1>3. CASE TypeStroke
  BY <1>1, <1>3 DEF TypeStroke, loop, EdgesInv, EdgeInv, ScanInv, Unwatched
<1>4. CASE Encoder \/ HandleUSB
  <2>1. Order[pos] \in {"encoder", "usb"}
    BY <1>4 DEF Encoder, HandleUSB, NoCommand, SetBinding, ReleaseAllCommand, AtUSB, At
  <2>2. step = "read"
    BY <2>1, OrderAssumption DEF EdgesInv, ScanInv
  <2> QED
    BY <1>1, <2>2 DEF EdgesInv, EdgeInv, ScanInv, Unwatched
<1> QED
  BY <1>2, <1>3, <1>4

\* What is recorded of a control at first was never handled.
LEMMA InitEdges == Init => EdgesInv
BY DEF Init, EdgesInv, EdgeInv, ScanInv, Unwatched

\* Every edge of a control is handled, but for those that come between the reading
\* HANDLE_INPUT decides by and the one it records, and a press at power-up
\* (EdgesAccounted; macropad_test.c:23-40, 74-82).
THEOREM NoOtherEdgeLost == Spec => []EdgesAccounted
<1>1. IInv /\ EdgesInv /\ [Next]_vars => EdgesInv'
  BY PinChangeEdges, ScanEdges, OtherEdges DEF Next, HandleUSB
<1>2. EdgesInv => EdgesAccounted
  BY DEF EdgesInv, EdgeInv, EdgesAccounted
<1> QED
  BY <1>1, <1>2, InitEdges, Invariance, PTL DEF Spec

-----------------------------------------------------------------------------
(* The consumer report is empty between two steps of the loop, provided    *)
(* every consumer usage fits into one byte: CON_release does not find one  *)
(* that does not (usb_conkbd.c:231-234).                                   *)

ByteUsages == /\ \A c \in Controls : OneByte(Defaults[c])
              /\ \A nb \in NewBindings : OneByte(nb[2])

ConInv == NoneDown(d) /\ \A c \in Controls : OneByte(binding[c])

\* What is typed, pressed or released by code is not a consumer key.
LEMMA KeyboardStepsLeaveConsumer ==
  ASSUME IInv, TypeStroke \/ \E k \in Inputs : HandleRelease(k)
  PROVE  SameConsumer(d, d') /\ binding' = binding
<1>1. ASSUME NEW k \in Inputs, HandleRelease(k) PROVE SameConsumer(d, d')
  <2>1. binding[k] \in Bindings /\ d \in Reports
    BY DEF IInv, TypeOK, Controls
  <2> QED
    BY <1>1, <2>1, ActionReleaseDoes DEF HandleRelease, Released, SameConsumer
<1>2. ASSUME TypeStroke PROVE SameConsumer(d, d')
  <2> DEFINE mods == Head(strokes)[1]
             code == Head(strokes)[2]
  <2>1. strokes \in Seq((SUBSET Mods) \X Codes) /\ strokes # <<>> /\ d \in Reports
    BY <1>2 DEF IInv, TypeOK, TypeStroke
  <2>2. Head(strokes) \in (SUBSET Mods) \X Codes
    BY <2>1, HeadTailProperties
  <2>3. mods \in SUBSET Mods /\ code \in Codes /\ d' = KBD_code_type(d, mods, code)
    BY <1>2, <2>2 DEF TypeStroke
  <2> HIDE DEF mods, code
  <2> QED
    BY <2>1, <2>3, StrokeDoes DEF Released, SameConsumer
<1> QED
  BY <1>1, <1>2 DEF TypeStroke, HandleRelease

\* A step of the loop leaves nothing in the consumer report.
LEMMA ConStep ==
  ASSUME ByteUsages, IInv, ConInv, [Next]_vars
  PROVE  ConInv'
<1>1. d \in Reports /\ binding \in [Controls -> Bindings]
  BY DEF IInv, TypeOK
<1>2. ASSUME NEW k \in Inputs, HandlePress(k) PROVE ConInv'
  <2>1. k \in Controls /\ binding[k] \in Bindings
    BY <1>1 DEF Controls
  <2>2. NoTrace(d, d', binding[k]) /\ binding' = binding
    BY <1>1, <1>2, <2>1, ActionPressDoes DEF HandlePress
  <2> QED
    BY <2>1, <2>2 DEF ConInv, NoTrace
<1>3. ASSUME TypeStroke \/ \E k \in Inputs : HandleRelease(k) PROVE ConInv'
  BY <1>3, KeyboardStepsLeaveConsumer DEF ConInv, NoneDown, SameConsumer
<1>4. ASSUME Encoder PROVE ConInv'
  <2>1. ASSUME NEW c \in Controls, d' = ACTION_trigger(d, binding[c]) PROVE NoneDown(d')
    BY <1>1, <2>1, TriggerDoes DEF ConInv, NoTrace
  <2>2. NoneDown(d') /\ binding' = binding
    BY <1>4, <2>1 DEF Encoder, Controls, ConInv
  <2> QED
    BY <2>2 DEF ConInv
<1>5. ASSUME NEW nb \in NewBindings, SetBinding(nb[1], nb[2]) PROVE ConInv'
  <2>1. CASE nb[1] \in Controls /\ Acceptable(nb[2])
    <3>1. NoneDown(d')
      BY <1>1, <1>5, <2>1, ClearedReports DEF SetBinding, BeforeRebind, Cleared
    <3>2. binding' = [binding EXCEPT ![nb[1]] = nb[2]] /\ OneByte(nb[2])
      BY <1>5, <2>1 DEF SetBinding, ByteUsages
    <3>3. ASSUME NEW c \in Controls PROVE OneByte(binding'[c])
      <4>1. binding'[c] = nb[2] \/ binding'[c] = binding[c]
        BY <1>1, <3>2
      <4> QED
        BY <3>2, <4>1 DEF ConInv
    <3> QED
      BY <3>1, <3>3 DEF ConInv
  <2>2. CASE ~(nb[1] \in Controls /\ Acceptable(nb[2]))
    BY <1>5, <2>2 DEF SetBinding, ConInv
  <2> QED
    BY <2>1, <2>2
<1>6. ASSUME BusReset \/ ReleaseAllCommand PROVE ConInv'
  BY <1>1, <1>6, ClearedReports
     DEF BusReset, ReleaseAllCommand, KBD_resetState, Cleared, ConInv
<1>7. ASSUME PinChange \/ NoCommand \/ UNCHANGED vars
             \/ \E k \in Inputs : ReadPin(k) \/ Bounce(k) \/ Settle(k)
      PROVE  ConInv'
  <2>1. d' = d /\ binding' = binding
    BY <1>7 DEF PinChange, NoCommand, vars, ReadPin, Bounce, Settle
  <2> QED
    BY <2>1 DEF ConInv
<1> QED
  BY <1>2, <1>3, <1>4, <1>5, <1>6, <1>7 DEF Next

\* Whatever the host sees pressed belongs to a control that is held, through taps,
\* rebinding, release-all and bus resets in any order (NothingStuck;
\* input_actions.c:70-110), if the usages of the consumer bindings are bytes, as those
\* of the media keys are.
THEOREM NothingStaysStuck ==
  ASSUME ByteUsages
  PROVE  Spec => []NothingStuck
<1>1. Init => ConInv
  BY ClearedReports DEF Init, ConInv, ByteUsages, Cleared
<1>2. IInv /\ ConInv /\ [Next]_vars => ConInv'
  BY ConStep
<1>3. IInv /\ ConInv => NothingStuck
  BY DEF IInv, ConInv, ChordInv, NoneDown, NothingStuck
<1> QED
  BY <1>1, <1>2, <1>3, Invariance, PTL DEF Spec

-----------------------------------------------------------------------------
(* The time of a list of operations.                                       *)

\* The most an operation takes: a report waits for the one before it.
OpCost(op) == CASE op[1] = "ms"    -> op[2]
                [] op[1] = "send"  -> 10
                [] op[1] = "steps" -> 22 * op[2]
                [] OTHER           -> 0

CostAt(s, i) == IF i \in 1 .. Len(s) THEN OpCost(s[i]) ELSE 0

\* No list is longer than six operations.
Cost(s) == CostAt(s, 1) + CostAt(s, 2) + CostAt(s, 3)
             + CostAt(s, 4) + CostAt(s, 5) + CostAt(s, 6)

\* An operation is one of four, with a number.
LEMMA OpFacts ==
  ASSUME NEW op \in Ops
  PROVE  /\ op = <<op[1], op[2]>> /\ op[2] \in Nat /\ OpCost(op) \in Nat
         /\ op[1] \in {"ms", "send", "steps", "reset"}
         /\ op[1] = "ms" => OpCost(op) = op[2] 
         /\ op[1] = "send" => op[2] \in Endpoints /\ OpCost(op) = 10
         /\ op[1] = "steps" => op[2] \in 0 .. ACTION_MAX_STEPS /\ OpCost(op) = 22 * op[2]
         /\ op[1] = "reset" => op = WDT_reset /\ OpCost(op) = 0
<1>1. CASE \E n \in {1, 2, 3, 5, 20} : op = DLY_ms(n)
  BY <1>1 DEF DLY_ms, OpCost
<1>2. CASE \E e \in Endpoints : op = Send(e)
  BY <1>2 DEF Send, OpCost, Endpoints
<1>3. CASE \E k \in 0 .. ACTION_MAX_STEPS : op = Repeat(k)
  BY <1>3, ClockAssumption DEF Repeat, OpCost
<1>4. CASE op = WDT_reset
  BY <1>4 DEF WDT_reset, OpCost
<1> QED
  BY <1>1, <1>2, <1>3, <1>4 DEF Ops

LEMMA CostType ==
  ASSUME NEW s \in Seq(Ops)
  PROVE  \A i \in Nat : CostAt(s, i) \in Nat
BY OpFacts DEF CostAt

\* The first operation and the others.
LEMMA CostTail ==
  ASSUME NEW s \in Seq(Ops), s # <<>>, Len(s) <= 6
  PROVE  /\ Cost(s) = OpCost(Head(s)) + Cost(Tail(s)) /\ Cost(Tail(s)) \in Nat
         /\ Head(s) \in Ops /\ Tail(s) \in Seq(Ops) /\ Len(Tail(s)) = Len(s) - 1
         /\ Head(s) = s[1] /\ \A i \in 1 .. Len(Tail(s)) : Tail(s)[i] = s[i + 1]
<1>1. /\ Head(s) \in Ops /\ Tail(s) \in Seq(Ops)
      /\ Len(Tail(s)) = Len(s) - 1 /\ Len(s) \in 1 .. 6 /\ Head(s) = s[1]
      /\ \A i \in 1 .. Len(Tail(s)) : Tail(s)[i] = s[i + 1]
  <2>1. Len(s) \in 1 .. 6
    <3>1. Len(s) \in Nat
      OBVIOUS
    <3>2. Len(s) # 0
      OBVIOUS
    <3>3. \A l \in Nat : l # 0 /\ l <= 6 => l \in 1 .. 6
      OBVIOUS
    <3> QED
      BY <3>1, <3>2, <3>3, Zenon
  <2>2. Head(s) = s[1]
    OBVIOUS
  <2> QED
    BY <2>1, <2>2, HeadTailProperties
<1>2. \A i \in 1 .. 6 : CostAt(Tail(s), i) = CostAt(s, i + 1)
  BY <1>1 DEF CostAt
<1>3. CostAt(s, 1) = OpCost(Head(s)) /\ CostAt(s, 7) = 0
  BY <1>1 DEF CostAt
<1>4. \A i \in 1 .. 7 : CostAt(s, i) \in Nat
  BY CostType
<1>5. \A i \in 1 .. 6 : CostAt(Tail(s), i) \in Nat
  BY <1>2, <1>4
<1>6. Cost(s) = OpCost(Head(s)) + Cost(Tail(s)) /\ Cost(Tail(s)) \in Nat
  <2>1. /\ CostAt(Tail(s), 1) = CostAt(s, 2) /\ CostAt(Tail(s), 2) = CostAt(s, 3)
        /\ CostAt(Tail(s), 3) = CostAt(s, 4) /\ CostAt(Tail(s), 4) = CostAt(s, 5)
        /\ CostAt(Tail(s), 5) = CostAt(s, 6) /\ CostAt(Tail(s), 6) = 0
    BY <1>2, <1>3
  <2>2. /\ CostAt(s, 1) \in Nat /\ CostAt(s, 2) \in Nat /\ CostAt(s, 3) \in Nat
        /\ CostAt(s, 4) \in Nat /\ CostAt(s, 5) \in Nat /\ CostAt(s, 6) \in Nat
    BY <1>4
  <2>3. Cost(s) = OpCost(Head(s)) + CostAt(s, 2) + CostAt(s, 3)
                    + CostAt(s, 4) + CostAt(s, 5) + CostAt(s, 6)
    BY <1>3 DEF Cost
  <2>4. Cost(Tail(s)) = CostAt(s, 2) + CostAt(s, 3) + CostAt(s, 4)
                          + CostAt(s, 5) + CostAt(s, 6) + 0
    BY <2>1 DEF Cost
  <2>5. OpCost(Head(s)) \in Nat
    BY <1>3, <2>2
  <2> DEFINE a == OpCost(Head(s))
             b == CostAt(s, 2)
             c == CostAt(s, 3)
             u == CostAt(s, 4)
             e == CostAt(s, 5)
             f == CostAt(s, 6)
  <2>6. a \in Nat /\ b \in Nat /\ c \in Nat /\ u \in Nat /\ e \in Nat /\ f \in Nat
    BY <2>2, <2>5
  <2>7. Cost(s) = a + b + c + u + e + f /\ Cost(Tail(s)) = b + c + u + e + f + 0
    BY <2>3, <2>4
  <2> HIDE DEF a, b, c, u, e, f
  <2>8. Cost(s) = a + Cost(Tail(s)) /\ Cost(Tail(s)) \in Nat
    BY <2>6, <2>7
  <2> QED
    BY <2>8 DEF a
<1> QED
  BY <1>1, <1>6

\* The most the handlers from the t-th on take before the watchdog has been reset, and
\* the millisecond after that.
Rest(t) == LET steps == 22 * ACTION_MAX_STEPS
           IN  CASE t = 1 -> 150 + 8 * steps
                 [] t = 2 -> 135 + 7 * steps
                 [] t = 3 -> 120 + 6 * steps
                 [] t = 4 -> 105 + 5 * steps
                 [] t = 5 -> 90 + 4 * steps
                 [] t = 6 -> 75 + 3 * steps
                 [] t = 7 -> 60 + 2 * steps
                 [] t = 8 -> 47 + steps
                 [] t = 9 -> 32
                 [] OTHER -> 2

\* A list a handler may leave to be done: no more than two operations come after the
\* steps of a binding, which leaves room for one of them in full.
Fitting == {s \in Seq(Ops) : /\ Len(s) <= 6
                             /\ \A i \in 1 .. Len(s) : s[i][1] = "steps" => Len(s) - i <= 2
                             /\ \A i \in 1 .. Len(s) : s[i][1] = "reset" => s \in EndOfRound}

\* What lists of up to four operations cost, and that they fit.
Plain == {op \in Ops : op[1] # "reset"}

LEMMA ShortLists ==
  /\ <<>> \in Fitting /\ Cost(<<>>) = 0
  /\ \A a \in Plain : <<a>> \in Fitting /\ Cost(<<a>>) = OpCost(a)
  /\ \A a, b \in Plain : <<a, b>> \in Fitting /\ Cost(<<a, b>>) = OpCost(a) + OpCost(b)
  /\ \A a, b, c \in Plain : /\ <<a, b, c>> \in Fitting
                            /\ Cost(<<a, b, c>>) = OpCost(a) + OpCost(b) + OpCost(c)
  /\ \A a, b, c, u \in Plain :
       /\ a[1] # "steps" => <<a, b, c, u>> \in Fitting
       /\ Cost(<<a, b, c, u>>) = OpCost(a) + OpCost(b) + OpCost(c) + OpCost(u)
<1>1. <<>> \in Fitting /\ Cost(<<>>) = 0
  BY DEF Cost, CostAt, Fitting
<1>2. ASSUME NEW a \in Plain PROVE <<a>> \in Fitting /\ Cost(<<a>>) = OpCost(a)
  BY OpFacts DEF Cost, CostAt, Fitting, Plain
<1>3. ASSUME NEW a \in Plain, NEW b \in Plain
      PROVE  <<a, b>> \in Fitting /\ Cost(<<a, b>>) = OpCost(a) + OpCost(b)
  BY OpFacts DEF Cost, CostAt, Fitting, Plain
<1>4. ASSUME NEW a \in Plain, NEW b \in Plain, NEW c \in Plain
      PROVE  /\ <<a, b, c>> \in Fitting
             /\ Cost(<<a, b, c>>) = OpCost(a) + OpCost(b) + OpCost(c)
  <2>1. <<a, b, c>> \in Fitting
    BY DEF Fitting, Plain
  <2> QED
    BY <2>1, OpFacts DEF Cost, CostAt, Plain
<1>5. ASSUME NEW a \in Plain, NEW b \in Plain, NEW c \in Plain, NEW u \in Plain
      PROVE  /\ a[1] # "steps" => <<a, b, c, u>> \in Fitting
             /\ Cost(<<a, b, c, u>>) = OpCost(a) + OpCost(b) + OpCost(c) + OpCost(u)
  <2>1. a[1] # "steps" => <<a, b, c, u>> \in Fitting
    BY DEF Fitting, Plain
  <2> QED
    BY <2>1, OpFacts DEF Cost, CostAt, Plain
<1> QED
  BY <1>1, <1>2, <1>3, <1>4, <1>5

\* The operations of the handlers, and what they cost.
LEMMA OpsOf ==
  /\ \A n \in {1, 2, 3, 5} : /\ DLY_ms(n) \in Plain /\ OpCost(DLY_ms(n)) = n
                            /\ DLY_ms(n)[1] = "ms"
  /\ \A e \in {1, 2} : Send(e) \in Plain /\ OpCost(Send(e)) = 10 /\ Send(e)[1] = "send"
  /\ \A k \in 0 .. ACTION_MAX_STEPS : Repeat(k) \in Plain /\ OpCost(Repeat(k)) = 22 * k
  /\ WDT_reset \in Ops /\ OpCost(WDT_reset) = 0 /\ WDT_reset[1] = "reset"
<1>1. \A n \in {1, 2, 3, 5} : /\ DLY_ms(n) \in Plain /\ OpCost(DLY_ms(n)) = n
                              /\ DLY_ms(n)[1] = "ms"
  BY DEF DLY_ms, OpCost, Ops, Plain
<1>2. \A e \in {1, 2} : Send(e) \in Plain /\ OpCost(Send(e)) = 10 /\ Send(e)[1] = "send"
  BY DEF Send, OpCost, Ops, Endpoints, Plain
<1>3. \A k \in 0 .. ACTION_MAX_STEPS : Repeat(k) \in Plain /\ OpCost(Repeat(k)) = 22 * k
  BY DEF Repeat, OpCost, Ops, Plain
<1>4. WDT_reset \in Ops /\ OpCost(WDT_reset) = 0 /\ WDT_reset[1] = "reset"
  BY DEF WDT_reset, OpCost, Ops
<1> QED
  BY <1>1, <1>2, <1>3, <1>4

\* The lists of HANDLE_INPUT and of the encoder, and their time.
LEMMA InputFits ==
  ASSUME NEW s \in Input
  PROVE  s \in Fitting /\ Cost(s) \in Nat /\ Cost(s) <= 15 + 22 * ACTION_MAX_STEPS
<1>1. ACTION_MAX_STEPS \in Nat \ {0} /\ Counts \subseteq 0 .. ACTION_MAX_STEPS
  BY ClockAssumption, CountAssumption
<1>2. CASE s \in {<<>>, <<DLY_ms(5)>>, <<DLY_ms(5), Send(2)>>}
  BY <1>1, <1>2, ShortLists, OpsOf
<1>3. CASE s \in {<<DLY_ms(5), Send(2), Send(1)>>, <<DLY_ms(5), Send(1), Send(2)>>}
  BY <1>1, <1>3, ShortLists, OpsOf
<1>4. CASE s = <<DLY_ms(5), Send(2), Send(1), Send(1)>>
  BY <1>1, <1>4, ShortLists, OpsOf
<1>5. ASSUME NEW k \in Counts, s = <<DLY_ms(5), Send(2), Repeat(k)>>
      PROVE  s \in Fitting /\ Cost(s) \in Nat /\ Cost(s) <= 15 + 22 * ACTION_MAX_STEPS
  BY <1>1, <1>5, ShortLists, OpsOf
<1> QED
  BY <1>2, <1>3, <1>4, <1>5 DEF Input

LEMMA RotationFits ==
  ASSUME NEW s \in Rotation
  PROVE  s \in Fitting /\ Cost(s) \in Nat /\ Cost(s) <= 13 + 22 * ACTION_MAX_STEPS
<1>1. ACTION_MAX_STEPS \in Nat \ {0} /\ Counts \subseteq 0 .. ACTION_MAX_STEPS
  BY ClockAssumption, CountAssumption
<1>2. CASE s \in {<<>>, <<Send(2), DLY_ms(3)>>, <<Send(1), Send(2), DLY_ms(3)>>}
  BY <1>1, <1>2, ShortLists, OpsOf
<1>3. CASE s = <<Send(1), Send(1), Send(2), DLY_ms(3)>>
  BY <1>1, <1>3, ShortLists, OpsOf
<1>4. ASSUME NEW k \in Counts, s = <<Repeat(k), Send(2), DLY_ms(3)>>
      PROVE  s \in Fitting /\ Cost(s) \in Nat /\ Cost(s) <= 13 + 22 * ACTION_MAX_STEPS
  BY <1>1, <1>4, ShortLists, OpsOf
<1> QED
  BY <1>2, <1>3, <1>4 DEF Rotation

LEMMA CommandFits ==
  ASSUME NEW s \in Command
  PROVE  s \in Fitting /\ Cost(s) \in Nat /\ Cost(s) <= 30
BY ShortLists, OpsOf DEF Command

LEMMA EndFits ==
  ASSUME NEW s \in EndOfRound
  PROVE  s \in Fitting /\ Cost(s) \in Nat /\ Cost(s) <= 2
<1>1. DLY_ms(1) \in Ops /\ DLY_ms(1)[1] = "ms" /\ OpCost(DLY_ms(1)) = 1
  BY OpsOf DEF Plain
<1>2. s \in Fitting
  <2>1. CASE s = <<WDT_reset, DLY_ms(1)>>
    BY <1>1, <2>1, OpsOf DEF Fitting
  <2>2. CASE s = <<DLY_ms(1), WDT_reset, DLY_ms(1)>>
    BY <1>1, <2>2, OpsOf DEF Fitting
  <2> QED
    BY <2>1, <2>2 DEF EndOfRound
<1>3. Cost(s) \in Nat /\ Cost(s) <= 2
  BY <1>1, OpsOf DEF EndOfRound, Cost, CostAt
<1> QED
  BY <1>2, <1>3

\* Every handler leaves a list that fits, and no more to do than Rest counts for it.
LEMMA HandlerFits ==
  ASSUME NEW t \in 1 .. 10, NEW s \in Round[t]
  PROVE  /\ s \in Fitting /\ Cost(s) \in Nat
         /\ IF t = 10 THEN s \in EndOfRound /\ Cost(s) <= Rest(t)
                      ELSE Cost(s) + Rest(t + 1) <= Rest(t)
<1>1. ACTION_MAX_STEPS \in Nat \ {0}
  BY ClockAssumption
<1>2. CASE t \in {1, 2, 3, 4, 5, 6, 8}
  <2>1. s \in Input
    BY <1>2 DEF Round
  <2> QED
    BY <1>1, <1>2, <2>1, InputFits DEF Rest
<1>3. CASE t = 7
  <2>1. s \in Rotation
    BY <1>3 DEF Round
  <2> QED
    BY <1>1, <1>3, <2>1, RotationFits DEF Rest
<1>4. CASE t = 9
  <2>1. s \in Command
    BY <1>4 DEF Round
  <2> QED
    BY <1>4, <2>1, CommandFits DEF Rest
<1>5. CASE t = 10
  <2>1. s \in EndOfRound
    BY <1>5 DEF Round
  <2> QED
    BY <1>5, <2>1, EndFits DEF Rest
<1> QED
  BY <1>2, <1>3, <1>4, <1>5

LEMMA RestFacts ==
  ASSUME NEW t \in 1 .. 10
  PROVE  Rest(t) \in Nat /\ Rest(t) <= Rest(1) /\ Rest(1) + 11 = LongestRound
BY ClockAssumption DEF Rest, LongestRound

\* One list after another.
LEMMA CostConcat ==
  ASSUME NEW p \in Seq(Ops), NEW r \in Seq(Ops), Len(p) \in 2 .. 4, Len(r) <= 2
  PROVE  Cost(p \o r) = Cost(p) + Cost(r)
<1> DEFINE q == p \o r
<1>1. /\ q \in Seq(Ops) /\ Len(q) = Len(p) + Len(r) /\ Len(r) \in 0 .. 2
      /\ \A i \in 1 .. Len(p) : q[i] = p[i]
      /\ \A i \in 1 .. Len(r) : q[Len(p) + i] = r[i]
  <2>1. Len(p) \in Nat /\ Len(r) \in Nat
    OBVIOUS
  <2>2. /\ q \in Seq(Ops) /\ Len(q) = Len(p) + Len(r)
        /\ \A i \in 1 .. Len(p) + Len(r) :
             q[i] = IF i <= Len(p) THEN p[i] ELSE r[i - Len(p)]
    BY ConcatProperties
  <2> HIDE DEF q
  <2>3. ASSUME NEW i \in 1 .. Len(p) PROVE q[i] = p[i]
    <3>1. i \in 1 .. Len(p) + Len(r) /\ i <= Len(p)
      BY <2>1
    <3> QED
      BY <2>2, <3>1
  <2>4. ASSUME NEW i \in 1 .. Len(r) PROVE q[Len(p) + i] = r[i]
    <3>1. /\ Len(p) + i \in 1 .. Len(p) + Len(r) /\ ~(Len(p) + i <= Len(p))
          /\ Len(p) + i - Len(p) = i
      BY <2>1
    <3> QED
      BY <2>2, <3>1
  <2>5. \A l \in Nat : l <= 2 => l \in 0 .. 2
    OBVIOUS
  <2>6. Len(r) \in 0 .. 2
    BY <2>1, <2>5, Zenon
  <2> QED
    BY <2>2, <2>3, <2>4, <2>6, Zenon
<1>2. \A i \in 1 .. Len(p) : CostAt(q, i) = CostAt(p, i)
  BY <1>1 DEF CostAt
<1>3. \A i \in 1 .. 4 : CostAt(q, Len(p) + i) = CostAt(r, i)
  BY <1>1 DEF CostAt
<1>4. /\ CostAt(r, 3) = 0 /\ CostAt(r, 4) = 0 /\ CostAt(r, 5) = 0 /\ CostAt(r, 6) = 0
      /\ \A i \in 1 .. 6 : i > Len(p) => CostAt(p, i) = 0
  BY <1>1 DEF CostAt
<1>5. /\ CostAt(r, 1) \in Nat /\ CostAt(r, 2) \in Nat /\ CostAt(p, 1) \in Nat
      /\ CostAt(p, 2) \in Nat /\ CostAt(p, 3) \in Nat /\ CostAt(p, 4) \in Nat
  BY CostType
<1> HIDE DEF q
<1>6. CASE Len(p) = 2
  <2>1. /\ CostAt(q, 1) = CostAt(p, 1) /\ CostAt(q, 2) = CostAt(p, 2)
        /\ CostAt(q, 3) = CostAt(r, 1) /\ CostAt(q, 4) = CostAt(r, 2)
        /\ CostAt(q, 5) = 0 /\ CostAt(q, 6) = 0
    BY <1>2, <1>3, <1>4, <1>6
  <2>2. CostAt(p, 3) = 0 /\ CostAt(p, 4) = 0 /\ CostAt(p, 5) = 0 /\ CostAt(p, 6) = 0
    BY <1>4, <1>6
  <2>3. Cost(q) = Cost(p) + Cost(r)
    BY <1>4, <1>5, <2>1, <2>2 DEF Cost
  <2> QED
    BY <2>3 DEF q
<1>7. CASE Len(p) = 3
  <2>1. /\ CostAt(q, 1) = CostAt(p, 1) /\ CostAt(q, 2) = CostAt(p, 2)
        /\ CostAt(q, 3) = CostAt(p, 3) /\ CostAt(q, 4) = CostAt(r, 1)
        /\ CostAt(q, 5) = CostAt(r, 2) /\ CostAt(q, 6) = 0
    BY <1>2, <1>3, <1>4, <1>7
  <2>2. CostAt(p, 4) = 0 /\ CostAt(p, 5) = 0 /\ CostAt(p, 6) = 0
    BY <1>4, <1>7
  <2>3. Cost(q) = Cost(p) + Cost(r)
    BY <1>4, <1>5, <2>1, <2>2 DEF Cost
  <2> QED
    BY <2>3 DEF q
<1>8. CASE Len(p) = 4
  <2>1. /\ CostAt(q, 1) = CostAt(p, 1) /\ CostAt(q, 2) = CostAt(p, 2)
        /\ CostAt(q, 3) = CostAt(p, 3) /\ CostAt(q, 4) = CostAt(p, 4)
        /\ CostAt(q, 5) = CostAt(r, 1) /\ CostAt(q, 6) = CostAt(r, 2)
    BY <1>2, <1>3, <1>8
  <2>2. CostAt(p, 5) = 0 /\ CostAt(p, 6) = 0
    BY <1>4, <1>8
  <2>3. Cost(q) = Cost(p) + Cost(r)
    BY <1>4, <1>5, <2>1, <2>2 DEF Cost
  <2> QED
    BY <2>3 DEF q
<1> QED
  BY <1>6, <1>7, <1>8

\* What typing takes.
LEMMA TypingFacts ==
  ASSUME NEW n \in 0 .. 2, NEW k \in 0 .. ACTION_MAX_STEPS
  PROVE  LET p == Typing(n, k)
         IN  /\ p \in Seq(Ops) /\ Len(p) \in 2 .. 4
             /\ \A i \in 1 .. Len(p) :
                  p[i][1] # "reset" /\ (p[i][1] = "steps" => i = Len(p))
             /\ Cost(p) \in Nat /\ Cost(p) <= 22 + 22 * k
<1>1. StepPause \in Plain /\ OpCost(StepPause) = 2 /\ StepPause[1] = "ms"
  BY OpsOf DEF StepPause
<1>2. Send(1) \in Plain /\ OpCost(Send(1)) = 10 /\ Send(1)[1] = "send"
  BY OpsOf
<1>3. Repeat(k) \in Plain /\ OpCost(Repeat(k)) = 22 * k /\ ACTION_MAX_STEPS \in Nat
  BY OpsOf, ClockAssumption
<1>4. CASE n = 0
  BY <1>1, <1>3, <1>4, ShortLists DEF Typing, Plain
<1>5. CASE n = 1
  BY <1>1, <1>2, <1>3, <1>5, ShortLists DEF Typing, Plain
<1>6. CASE n = 2
  BY <1>1, <1>2, <1>3, <1>6, ShortLists DEF Typing, Plain
<1> QED
  BY <1>4, <1>5, <1>6

\* The steps of a binding: one and the others.
LEMMA StepFits ==
  ASSUME NEW s \in Fitting, s # <<>>, Head(s)[1] = "steps", Head(s)[2] > 0, NEW n \in 0 .. 2
  PROVE  LET q == Typing(n, Head(s)[2] - 1) \o Tail(s)
         IN  q \in Fitting /\ Cost(q) \in Nat /\ Cost(q) <= Cost(s)
<1> DEFINE k == Head(s)[2] - 1
           p == Typing(n, k)
           r == Tail(s)
           q == p \o r
<1>1. /\ Head(s) \in Ops /\ r \in Seq(Ops) /\ Len(r) = Len(s) - 1 /\ Head(s) = s[1]
      /\ \A i \in 1 .. Len(r) : r[i] = s[i + 1]
      /\ Cost(s) = OpCost(Head(s)) + Cost(r) /\ Cost(r) \in Nat
  BY CostTail DEF Fitting
<1>2. k \in 0 .. ACTION_MAX_STEPS /\ k \in Nat /\ OpCost(Head(s)) = 22 * k + 22
  <2>1. Head(s)[2] \in 0 .. ACTION_MAX_STEPS /\ OpCost(Head(s)) = 22 * Head(s)[2]
    BY <1>1, OpFacts
  <2> QED
    BY <2>1, ClockAssumption
<1>3. Len(r) <= 2 /\ Len(r) \in Nat /\ Len(s) \in Nat
  <2>1. Len(s) \in Nat /\ Len(s) # 0 /\ Len(r) \in Nat
    BY <1>1 DEF Fitting
  <2>2. 1 \in 1 .. Len(s) /\ s[1][1] = "steps"
    BY <1>1, <2>1
  <2>3. Len(s) - 1 <= 2
    BY <2>2 DEF Fitting
  <2> QED
    BY <1>1, <2>1, <2>3
<1>4. \A i \in 1 .. Len(s) : s[i][1] # "reset"
  <2>1. s \notin EndOfRound
    BY <1>1, OpsOf DEF EndOfRound, Plain
  <2> QED
    BY <2>1 DEF Fitting
<1>5. /\ p \in Seq(Ops) /\ Len(p) \in 2 .. 4
      /\ \A i \in 1 .. Len(p) : p[i][1] # "reset" /\ (p[i][1] = "steps" => i = Len(p))
      /\ Cost(p) \in Nat /\ Cost(p) <= 22 + 22 * k
  BY <1>2, TypingFacts
<1> HIDE DEF p, r
<1>6. Cost(q) = Cost(p) + Cost(r)
  BY <1>1, <1>3, <1>5, CostConcat
<1>7. /\ q \in Seq(Ops) /\ Len(q) = Len(p) + Len(r)
      /\ \A i \in 1 .. Len(p) + Len(r) : q[i] = IF i <= Len(p) THEN p[i] ELSE r[i - Len(p)]
  BY <1>1, <1>5, ConcatProperties
<1> HIDE DEF q
<1>8. ASSUME NEW i \in 1 .. Len(q)
      PROVE  q[i][1] # "reset" /\ (q[i][1] = "steps" => Len(q) - i <= 2)
  <2>1. CASE i <= Len(p)
    BY <1>3, <1>5, <1>7, <2>1
  <2>2. CASE ~(i <= Len(p))
    <3> DEFINE j == i - Len(p)
    <3>1. j \in 1 .. Len(r) /\ Len(q) - i <= 2 /\ q[i] = r[j]
      BY <1>3, <1>5, <1>7, <2>2
    <3> HIDE DEF j
    <3>2. r[j] = s[j + 1] /\ j + 1 \in 1 .. Len(s)
      BY <1>1, <1>3, <3>1
    <3> QED
      BY <1>4, <3>1, <3>2
  <2> QED
    BY <2>1, <2>2
<1>9. q \in Fitting
  <2>1. \A l \in 2 .. 4, m \in Nat : m <= 2 => l + m <= 6
    OBVIOUS
  <2>2. Len(q) <= 6
    BY <1>3, <1>5, <1>7, <2>1, Zenon
  <2> QED
    BY <1>7, <1>8, <2>2, Zenon DEF Fitting
<1>10. Cost(q) \in Nat /\ Cost(q) <= Cost(s)
  BY <1>1, <1>2, <1>5, <1>6
<1> QED
  BY <1>9, <1>10 DEF p, q, r

-----------------------------------------------------------------------------
(* The invariant.                                                          *)

\* The time the loop may still take before it resets the watchdog.
Due(s, t) == Cost(s) + IF s \in EndOfRound THEN 0 ELSE Rest(t)

\* As long as the host has polled, the time that has gone by, what is left to wait for
\* a report, and the time due, are together no more than the longest round.
BudgetInv == ~stalled => /\ polling
                         /\ elapsed + Due(todo, turn) <= LongestRound
                         /\ \A e \in Endpoints : elapsed + left[e] + Due(todo, turn) <= LongestRound

TimeInv == TimeTypeOK /\ todo \in Fitting /\ BudgetInv

LEMMA PeriodType == Period \in Nat
<1>1. \A m, n \in Nat : n # 0 => m \div n \in Nat
  OBVIOUS
<1>2. 255 * (256 * 256) \in Nat
  OBVIOUS
<1> QED
  BY <1>1, <1>2, ClockAssumption, Zenon DEF Period

LEMMA DueType ==
  ASSUME TimeTypeOK, todo \in Fitting
  PROVE  Due(todo, turn) \in Nat /\ Cost(todo) \in Nat
<1>1. turn \in 1 .. 10
  BY DEF TimeTypeOK, Round
<1>2. Cost(todo) \in Nat
  <2>1. CASE todo = <<>>
    BY <2>1, ShortLists
  <2>2. CASE todo # <<>>
    <3>1. /\ Cost(todo) = OpCost(Head(todo)) + Cost(Tail(todo)) /\ Cost(Tail(todo)) \in Nat
          /\ Head(todo) \in Ops
      BY <2>2, CostTail DEF Fitting
    <3>2. OpCost(Head(todo)) \in Nat
      BY <3>1, OpFacts
    <3> QED
      BY <3>1, <3>2
  <2> QED
    BY <2>1, <2>2
<1> QED
  BY <1>1, <1>2, RestFacts DEF Due

\* n milliseconds go by while the host polls.
LEMMA PassFacts ==
  ASSUME TimeTypeOK, NEW n \in Nat, Pass(n)
  PROVE  /\ elapsed' \in 0 .. Period /\ elapsed' <= elapsed + n
         /\ left' \in [Endpoints -> 0 .. 10]
         /\ polling => \A e \in Endpoints : \/ left'[e] = 0
                                           \/ left'[e] = left[e] - n
<1>1. elapsed \in 0 .. Period /\ Period \in Nat
  BY PeriodType DEF TimeTypeOK
<1>2. elapsed' \in 0 .. Period /\ elapsed' <= elapsed + n
  BY <1>1 DEF Pass
<1>3. \A e \in Endpoints :
        Less(left[e], n) \in 0 .. 10 /\ Less(left[e], n) \in {0, left[e] - n}
  <2> SUFFICES ASSUME NEW e \in Endpoints
               PROVE  Less(left[e], n) \in 0 .. 10 /\ Less(left[e], n) \in {0, left[e] - n}
    OBVIOUS
  <2>1. left[e] \in 0 .. 10
    BY DEF TimeTypeOK
  <2> QED
    BY <2>1 DEF Less
<1> QED
  BY <1>2, <1>3 DEF Pass, TimeTypeOK

LEMMA InitTime == TimeInit => TimeInv
<1> SUFFICES ASSUME TimeInit PROVE TimeInv
  OBVIOUS
<1>1. TimeTypeOK /\ todo = <<>> /\ turn = 1 /\ elapsed = 0 /\ left = [e \in Endpoints |-> 0]
  BY PeriodType DEF TimeInit, TimeTypeOK, Round, Endpoints
<1>2. todo \in Fitting /\ todo \notin EndOfRound /\ Cost(todo) = 0
  BY <1>1, ShortLists DEF EndOfRound
<1>3. Due(todo, turn) = Rest(1) /\ Rest(1) \in Nat /\ Rest(1) + 11 = LongestRound
  BY <1>1, <1>2, RestFacts DEF Due
<1>4. BudgetInv
  <2>1. elapsed + Due(todo, turn) <= LongestRound /\ elapsed + 0 + Due(todo, turn) <= LongestRound
    BY <1>1, <1>3
  <2>2. \A e \in Endpoints : left[e] = 0
    BY <1>1
  <2>3. ~stalled => polling
    BY DEF TimeInit
  <2> QED
    BY <2>1, <2>2, <2>3 DEF BudgetInv
<1> QED
  BY <1>1, <1>2, <1>4 DEF TimeInv

\* The rest of a list fits, and takes less.
LEMMA TailFits ==
  ASSUME NEW s \in Fitting, s # <<>>, Head(s)[1] # "reset"
  PROVE  /\ Tail(s) \in Fitting /\ Cost(s) = OpCost(Head(s)) + Cost(Tail(s))
         /\ Cost(Tail(s)) \in Nat /\ Head(s) \in Ops
         /\ s \in EndOfRound => Tail(s) \in EndOfRound
<1>1. /\ Cost(s) = OpCost(Head(s)) + Cost(Tail(s)) /\ Cost(Tail(s)) \in Nat
      /\ Head(s) \in Ops /\ Tail(s) \in Seq(Ops) /\ Len(Tail(s)) = Len(s) - 1
      /\ Head(s) = s[1] /\ \A i \in 1 .. Len(Tail(s)) : Tail(s)[i] = s[i + 1]
  BY CostTail DEF Fitting
<1>2. Len(s) \in Nat /\ Len(Tail(s)) \in Nat /\ Len(s) <= 6
  BY <1>1 DEF Fitting
<1>3. s \in EndOfRound => Tail(s) \in EndOfRound
  <2>1. CASE s = <<WDT_reset, DLY_ms(1)>>
    BY <2>1, OpsOf
  <2>2. CASE s = <<DLY_ms(1), WDT_reset, DLY_ms(1)>>
    <3>1. \A a, b, c : Tail(<<a, b, c>>) = <<b, c>>
      OBVIOUS
    <3> QED
      BY <2>2, <3>1 DEF EndOfRound
  <2> QED
    BY <2>1, <2>2 DEF EndOfRound
<1> DEFINE r == Tail(s)
<1> HIDE DEF r
<1>4. ASSUME NEW i \in 1 .. Len(r)
      PROVE  /\ r[i] = s[i + 1] /\ i + 1 \in 1 .. Len(s) /\ Len(s) - (i + 1) = Len(r) - i
  BY <1>1, <1>2 DEF r
<1>5. ASSUME NEW i \in 1 .. Len(r), r[i][1] = "steps" PROVE Len(r) - i <= 2
  BY <1>4, <1>5 DEF Fitting
<1>6. ASSUME NEW i \in 1 .. Len(r), r[i][1] = "reset" PROVE r \in EndOfRound
  BY <1>3, <1>4, <1>6 DEF Fitting, r
<1>7. r \in Seq(Ops) /\ Len(r) <= 6
  BY <1>1, <1>2 DEF r
<1>8. r \in Fitting
  BY <1>5, <1>6, <1>7 DEF Fitting
<1> QED
  BY <1>1, <1>3, <1>8 DEF r

LEMMA TailDue ==
  ASSUME TimeTypeOK, todo \in Fitting, todo # <<>>, Op[1] # "reset",
         todo' = Tail(todo), turn' = turn
  PROVE  todo' \in Fitting /\ Due(todo', turn') \in Nat /\ Due(todo', turn') + OpCost(Op) <= Due(todo, turn)
<1>1. /\ todo' \in Fitting /\ Cost(todo) = OpCost(Op) + Cost(todo') /\ Cost(todo') \in Nat
      /\ OpCost(Op) \in Nat /\ (todo \in EndOfRound => todo' \in EndOfRound)
  BY TailFits, OpFacts DEF Op
<1>2. Rest(turn) \in Nat
  BY RestFacts DEF TimeTypeOK, Round
<1>3. Due(todo', turn') = Cost(todo') + IF todo' \in EndOfRound THEN 0 ELSE Rest(turn)
  BY DEF Due
<1> QED
  BY <1>1, <1>2, <1>3 DEF Due

\* The budget is kept by a step that takes no more time than was due, or waits no longer
\* than for a report.
LEMMA BudgetKept ==
  ASSUME TimeTypeOK, TimeTypeOK', BudgetInv, UNCHANGED <<polling, stalled>>,
         NEW due \in Nat, due = Due(todo, turn), NEW next \in Nat, next = Due(todo', turn'),
         polling => /\ \/ elapsed' + next <= elapsed + due
                       \/ \E f \in Endpoints : elapsed' + next <= elapsed + left[f] + due
                    /\ \A e \in Endpoints :
                         \/ left'[e] = 0
                         \/ elapsed' + left'[e] + next <= elapsed + due
                         \/ elapsed' + left'[e] + next <= elapsed + left[e] + due
  PROVE  BudgetInv'
<1> SUFFICES ASSUME ~stalled
             PROVE  /\ polling /\ elapsed' + next <= LongestRound
                    /\ \A e \in Endpoints : elapsed' + left'[e] + next <= LongestRound
  BY DEF BudgetInv
<1>1. /\ polling /\ elapsed + due <= LongestRound /\ LongestRound \in Nat
      /\ \A e \in Endpoints : elapsed + left[e] + due <= LongestRound
  BY ClockAssumption DEF BudgetInv, LongestRound
<1>2. elapsed \in Nat /\ elapsed' \in Nat
  BY PeriodType DEF TimeTypeOK
<1>3. ASSUME NEW e \in Endpoints PROVE left[e] \in Nat /\ left'[e] \in Nat
  <2>1. left[e] \in 0 .. 10 /\ left'[e] \in 0 .. 10
    BY DEF TimeTypeOK
  <2> QED
    BY <2>1
<1>4. elapsed' + next <= LongestRound
  BY <1>1, <1>2, <1>3
<1>5. ASSUME NEW e \in Endpoints PROVE elapsed' + left'[e] + next <= LongestRound
  BY <1>1, <1>2, <1>3, <1>4
<1> QED
  BY <1>1, <1>4, <1>5

\* A handler begins.
LEMMA HandleInv == TimeInv /\ Handle => TimeInv'
<1> SUFFICES ASSUME TimeInv, Handle PROVE TimeInv'
  OBVIOUS
<1>1. /\ turn \in 1 .. 10 /\ todo = <<>> /\ todo' \in Round[turn]
      /\ turn' = IF turn = 10 THEN 1 ELSE turn + 1
      /\ UNCHANGED <<left, elapsed, polling, stalled>>
  BY DEF TimeInv, TimeTypeOK, Handle, Round
<1>2. /\ todo' \in Fitting /\ Cost(todo') \in Nat
      /\ IF turn = 10 THEN todo' \in EndOfRound /\ Cost(todo') <= Rest(turn)
                      ELSE Cost(todo') + Rest(turn + 1) <= Rest(turn)
  BY <1>1, HandlerFits
<1>3. turn' \in 1 .. 10 /\ TimeTypeOK'
  BY <1>1, <1>2 DEF TimeInv, TimeTypeOK, Fitting, Round
<1>4. Due(todo, turn) = Rest(turn) /\ Rest(turn) \in Nat /\ Rest(turn') \in Nat
  <2>1. todo \notin EndOfRound /\ Cost(todo) = 0
    BY <1>1, ShortLists DEF EndOfRound
  <2>2. Rest(turn) \in Nat /\ Rest(turn') \in Nat
    BY <1>1, <1>3, RestFacts
  <2> QED
    BY <2>1, <2>2 DEF Due
<1>5. Due(todo', turn') = Cost(todo') + IF todo' \in EndOfRound THEN 0 ELSE Rest(turn')
  BY DEF Due
<1>6. Due(todo', turn') \in Nat /\ Due(todo', turn') <= Due(todo, turn)
  BY <1>1, <1>2, <1>4, <1>5
<1>7. /\ elapsed' = elapsed /\ left' = left /\ elapsed \in Nat
      /\ \A e \in Endpoints : left[e] \in Nat
  BY <1>1, PeriodType DEF TimeInv, TimeTypeOK
<1>8. /\ elapsed' + Due(todo', turn') <= elapsed + Due(todo, turn)
      /\ \A e \in Endpoints : elapsed' + left'[e] + Due(todo', turn') <= elapsed + left[e] + Due(todo, turn)
  BY <1>4, <1>6, <1>7
<1> QED
  BY <1>1, <1>2, <1>3, <1>4, <1>6, <1>8, BudgetKept DEF TimeInv

\* The loop of ACTION_trigger.
LEMMA StepInv == TimeInv /\ Step => TimeInv'
<1> SUFFICES ASSUME TimeInv, Step PROVE TimeInv'
  OBVIOUS
<1>1. /\ todo # <<>> /\ Op[1] = "steps" /\ TimeTypeOK /\ todo \in Fitting /\ turn \in 1 .. 10
      /\ UNCHANGED <<turn, left, elapsed, polling, stalled>>
  BY DEF Step, Doing, TimeInv, TimeTypeOK, Round
<1>2. todo' \in Fitting /\ Due(todo', turn') \in Nat /\ Due(todo', turn') <= Due(todo, turn) /\ Due(todo, turn) \in Nat
  <2>1. CASE todo' = Tail(todo)
    <3>1. todo' \in Fitting /\ Due(todo', turn') \in Nat /\ Due(todo', turn') + OpCost(Op) <= Due(todo, turn)
      BY <1>1, <2>1, TailDue
    <3>2. OpCost(Op) \in Nat /\ Due(todo, turn) \in Nat
      BY <1>1, TailFits, OpFacts, DueType DEF Op
    <3> QED
      BY <3>1, <3>2
  <2>2. ASSUME NEW n \in Sent, Op[2] > 0, todo' = Typing(n, Op[2] - 1) \o Tail(todo)
        PROVE  todo' \in Fitting /\ Due(todo', turn') \in Nat /\ Due(todo', turn') <= Due(todo, turn) /\ Due(todo, turn) \in Nat
    <3>1. n \in 0 .. 2
      BY CountAssumption
    <3>2. todo' \in Fitting /\ Cost(todo') \in Nat /\ Cost(todo') <= Cost(todo)
      BY <1>1, <2>2, <3>1, StepFits DEF Op
    <3>3. todo \notin EndOfRound
      BY <1>1, OpsOf DEF Op, EndOfRound
    <3>4. Due(todo, turn) = Cost(todo) + Rest(turn) /\ Cost(todo) \in Nat /\ Rest(turn) \in Nat
      BY <1>1, <3>3, DueType, RestFacts DEF Due
    <3>5. Due(todo', turn') = Cost(todo') + IF todo' \in EndOfRound THEN 0 ELSE Rest(turn)
      BY <1>1 DEF Due
    <3> QED
      BY <3>2, <3>4, <3>5
  <2> QED
    BY <2>1, <2>2 DEF Step
<1>3. TimeTypeOK'
  BY <1>1, <1>2 DEF TimeTypeOK, Fitting
<1>4. /\ elapsed' = elapsed /\ left' = left /\ elapsed \in Nat
      /\ \A e \in Endpoints : left[e] \in Nat
  BY <1>1, PeriodType DEF TimeTypeOK
<1>5. elapsed' + Due(todo', turn') <= elapsed + Due(todo, turn)
  BY <1>2, <1>4
<1>6. \A e \in Endpoints : elapsed' + left'[e] + Due(todo', turn') <= elapsed + left[e] + Due(todo, turn)
  BY <1>2, <1>4
<1> QED
  BY <1>1, <1>2, <1>3, <1>5, <1>6, BudgetKept DEF TimeInv

\* What an operation that is not the reset needs: its facts, and that its end leaves a
\* list that fits and less to do.
LEMMA OpDone ==
  ASSUME TimeInv, NEW kind \in {"ms", "send", "steps"}, Doing(kind), turn' = turn
  PROVE  /\ TimeTypeOK /\ todo \in Fitting /\ Due(todo, turn) \in Nat
         /\ Op \in Ops /\ OpCost(Op) \in Nat /\ elapsed \in Nat
         /\ todo' = Tail(todo) => /\ todo' \in Fitting /\ Due(todo', turn') \in Nat
                                 /\ Due(todo', turn') + OpCost(Op) <= Due(todo, turn)
<1>1. TimeTypeOK /\ todo \in Fitting /\ todo # <<>> /\ Op[1] = kind
  BY DEF TimeInv, Doing
<1>2. Op \in Ops /\ OpCost(Op) \in Nat
  <2>1. Op \in Ops
    BY <1>1, TailFits DEF Op
  <2> QED
    BY <2>1, OpFacts
<1>3. Due(todo, turn) \in Nat /\ elapsed \in Nat
  <2>1. elapsed \in 0 .. Period
    BY <1>1 DEF TimeTypeOK
  <2> QED
    BY <1>1, <2>1, DueType, PeriodType
<1> QED
  BY <1>1, <1>2, <1>3, TailDue

LEMMA DelayInv == TimeInv /\ Delay => TimeInv'
<1> SUFFICES ASSUME TimeInv, Delay PROVE TimeInv'
  OBVIOUS
<1> DEFINE n == Op[2]
<1>1. /\ Doing("ms") /\ Pass(n) /\ todo' = Tail(todo) /\ UNCHANGED <<turn, polling, stalled>>
      /\ Op[1] = "ms"
  BY DEF Delay, Doing
<1>2. /\ TimeTypeOK /\ Due(todo, turn) \in Nat /\ Op \in Ops /\ elapsed \in Nat
      /\ todo' \in Fitting /\ Due(todo', turn') \in Nat
      /\ Due(todo', turn') + OpCost(Op) <= Due(todo, turn)
  BY <1>1, OpDone
<1>3. n \in Nat /\ OpCost(Op) = n
  BY <1>1, <1>2, OpFacts
<1> HIDE DEF n
<1>4. /\ elapsed' \in 0 .. Period /\ elapsed' <= elapsed + n /\ left' \in [Endpoints -> 0 .. 10]
      /\ polling => \A e \in Endpoints : left'[e] = 0 \/ left'[e] = left[e] - n
  BY <1>1, <1>2, <1>3, PassFacts
<1>5. TimeTypeOK'
  BY <1>1, <1>2, <1>4 DEF TimeTypeOK, Fitting
<1>6. elapsed' \in Nat
  BY <1>4, PeriodType
<1>7. elapsed' + Due(todo', turn') <= elapsed + Due(todo, turn)
  BY <1>2, <1>3, <1>4, <1>6
<1>8. ASSUME polling, NEW e \in Endpoints
      PROVE  \/ left'[e] = 0
             \/ elapsed' + left'[e] + Due(todo', turn') <= elapsed + left[e] + Due(todo, turn)
  <2>1. left[e] \in Nat
    BY <1>2 DEF TimeTypeOK
  <2> QED
    BY <1>2, <1>3, <1>4, <1>6, <1>8, <2>1
<1> QED
  BY <1>1, <1>2, <1>5, <1>7, <1>8, BudgetKept DEF TimeInv

LEMMA SendInv == TimeInv /\ SendReport => TimeInv'
<1> SUFFICES ASSUME TimeInv, SendReport PROVE TimeInv'
  OBVIOUS
<1>1. /\ Doing("send") /\ todo' = Tail(todo) /\ UNCHANGED <<turn, elapsed, polling, stalled>>
      /\ Op[1] = "send"
  BY DEF SendReport, Doing
<1>2. PICK t \in PollTimes : left' = [left EXCEPT ![Op[2]] = t]
  BY DEF SendReport
<1>3. /\ TimeTypeOK /\ Due(todo, turn) \in Nat /\ Op \in Ops /\ elapsed \in Nat
      /\ todo' \in Fitting /\ Due(todo', turn') \in Nat
      /\ Due(todo', turn') + OpCost(Op) <= Due(todo, turn)
  BY <1>1, OpDone
<1>4. OpCost(Op) = 10 /\ t \in 1 .. 10
  BY <1>1, <1>3, OpFacts, PollAssumption
<1>5. TimeTypeOK'
  <2>1. left \in [Endpoints -> 0 .. 10] /\ t \in 0 .. 10
    BY <1>3, <1>4 DEF TimeTypeOK
  <2>2. left' \in [Endpoints -> 0 .. 10]
    BY <1>2, <2>1
  <2> QED
    BY <1>1, <1>3, <2>2 DEF TimeTypeOK, Fitting
<1>6. elapsed' + Due(todo', turn') <= elapsed + Due(todo, turn)
  BY <1>1, <1>3, <1>4
<1>7. ASSUME NEW e \in Endpoints
      PROVE  \/ elapsed' + left'[e] + Due(todo', turn') <= elapsed + Due(todo, turn)
             \/ elapsed' + left'[e] + Due(todo', turn') <= elapsed + left[e] + Due(todo, turn)
  <2>1. left[e] \in Nat
    BY <1>3 DEF TimeTypeOK
  <2>2. left'[e] = left[e] \/ left'[e] = t
    BY <1>2, <1>3 DEF TimeTypeOK
  <2> QED
    BY <1>1, <1>3, <1>4, <2>1, <2>2
<1> QED
  BY <1>1, <1>3, <1>5, <1>6, <1>7, BudgetKept DEF TimeInv

LEMMA WaitInv == TimeInv /\ WaitSend => TimeInv'
<1> SUFFICES ASSUME TimeInv, WaitSend PROVE TimeInv'
  OBVIOUS
<1> DEFINE f == Op[2]
           n == IF polling THEN left[f] ELSE Period
<1>1. /\ Doing("send") /\ Pass(n) /\ UNCHANGED <<turn, todo, polling, stalled>> /\ Op[1] = "send"
  BY DEF WaitSend, Doing
<1>2. TimeTypeOK /\ Due(todo, turn) \in Nat /\ Op \in Ops /\ elapsed \in Nat /\ todo \in Fitting
  BY <1>1, OpDone
<1>3. f \in Endpoints /\ left[f] \in 0 .. 10 /\ n \in Nat /\ (polling => n = left[f])
  <2>1. f \in Endpoints
    BY <1>1, <1>2, OpFacts
  <2> QED
    BY <1>2, <2>1, PeriodType DEF TimeTypeOK
<1> HIDE DEF f, n
<1>4. /\ elapsed' \in 0 .. Period /\ elapsed' <= elapsed + n /\ left' \in [Endpoints -> 0 .. 10]
      /\ polling => \A e \in Endpoints : left'[e] = 0 \/ left'[e] = left[e] - n
  BY <1>1, <1>2, <1>3, PassFacts
<1>5. TimeTypeOK'
  BY <1>1, <1>2, <1>4 DEF TimeTypeOK
<1>6. elapsed' \in Nat /\ Due(todo', turn') = Due(todo, turn)
  BY <1>1, <1>4, PeriodType
<1>7. polling => elapsed' + Due(todo', turn') <= elapsed + left[f] + Due(todo, turn)
  BY <1>2, <1>3, <1>4, <1>6
<1>8. ASSUME polling, NEW e \in Endpoints
      PROVE  \/ left'[e] = 0
             \/ elapsed' + left'[e] + Due(todo', turn') <= elapsed + left[e] + Due(todo, turn)
  <2>1. left[e] \in Nat
    BY <1>2 DEF TimeTypeOK
  <2> QED
    BY <1>2, <1>3, <1>4, <1>6, <1>8, <2>1
<1> QED
  BY <1>1, <1>2, <1>3, <1>5, <1>6, <1>7, <1>8, BudgetKept DEF TimeInv

\* The round begins, at a reset of the watchdog or of the chip.
LEMMA ResetInv == TimeInv /\ (Reset \/ Restart) => TimeInv'
<1> SUFFICES ASSUME TimeInv, Reset \/ Restart PROVE TimeInv'
  OBVIOUS
<1>1. TimeTypeOK /\ todo \in Fitting /\ turn \in 1 .. 10
  BY DEF TimeInv, TimeTypeOK, Round
<1>2. /\ elapsed' = 0 /\ stalled' = ~polling /\ polling' = polling /\ turn' \in 1 .. 10
      /\ left' \in [Endpoints -> 0 .. 10] /\ todo' \in {<<>>, <<DLY_ms(1)>>}
  <2>1. CASE Reset
    <3>1. todo # <<>> /\ Op[1] = "reset" /\ todo' = Tail(todo)
          /\ UNCHANGED <<turn, left, polling>> /\ elapsed' = 0 /\ stalled' = ~polling
      BY <2>1 DEF Reset, Doing
    <3>2. 1 \in 1 .. Len(todo) /\ todo[1][1] = "reset"
      BY <1>1, <3>1 DEF Fitting, Op
    <3>3. todo \in EndOfRound
      BY <1>1, <3>2 DEF Fitting
    <3>4. todo = <<WDT_reset, DLY_ms(1)>>
      BY <3>2, <3>3, OpsOf DEF EndOfRound
    <3>5. \A a, b : Tail(<<a, b>>) = <<b>>
      OBVIOUS
    <3> QED
      BY <1>1, <3>1, <3>4, <3>5 DEF TimeTypeOK
  <2>2. CASE Restart
    BY <2>2 DEF Restart, Start
  <2> QED
    BY <2>1, <2>2
<1>3. todo' \in Fitting /\ Cost(todo') \in 0 .. 1
  BY <1>2, ShortLists, OpsOf
<1>4. TimeTypeOK'
  BY <1>1, <1>2, <1>3, PeriodType DEF TimeTypeOK, Fitting, Round
<1>5. Rest(turn') \in Nat /\ Rest(turn') + 11 <= LongestRound /\ LongestRound \in Nat
  <2>1. /\ Rest(turn') \in Nat /\ Rest(1) \in Nat /\ Rest(turn') <= Rest(1)
        /\ Rest(1) + 11 = LongestRound
    <3>1. turn' \in 1 .. 10 /\ 1 \in 1 .. 10
      BY <1>2
    <3> QED
      BY <3>1, RestFacts, Zenon
  <2> QED
    BY <2>1
<1>6. Due(todo', turn') \in Nat /\ Due(todo', turn') + 10 <= LongestRound
  BY <1>3, <1>5 DEF Due
<1>7. ASSUME NEW e \in Endpoints PROVE elapsed' + left'[e] + Due(todo', turn') <= LongestRound
  <2>1. left'[e] \in 0 .. 10
    BY <1>2
  <2> QED
    BY <1>2, <1>5, <1>6, <2>1
<1>8. elapsed' + Due(todo', turn') <= LongestRound
  BY <1>2, <1>5, <1>6
<1>9. ~stalled' => polling'
  BY <1>2
<1> QED
  BY <1>3, <1>4, <1>7, <1>8, <1>9 DEF TimeInv, BudgetInv

\* The host stops or goes on, or resets the bus.
LEMMA HostInv == TimeInv /\ (HostStops \/ HostResumes \/ ResetFrees) => TimeInv'
<1> SUFFICES ASSUME TimeInv, HostStops \/ HostResumes \/ ResetFrees PROVE TimeInv'
  OBVIOUS
<1>1. /\ TimeTypeOK /\ todo \in Fitting /\ BudgetInv
      /\ Due(todo, turn) \in Nat /\ elapsed \in Nat
  <2>1. elapsed \in 0 .. Period /\ TimeTypeOK /\ todo \in Fitting /\ BudgetInv
    BY DEF TimeInv, TimeTypeOK
  <2> QED
    BY <2>1, DueType, PeriodType
<1>2. CASE HostStops
  <2>1. PICK t \in PollTimes : left' = [e \in Endpoints |-> IF left[e] = 0 THEN 0 ELSE t]
    BY <1>2 DEF HostStops
  <2>2. left' \in [Endpoints -> 0 .. 10]
    BY <2>1, PollAssumption
  <2>3. UNCHANGED <<turn, todo, elapsed>> /\ polling' = FALSE /\ stalled' = TRUE
    BY <1>2 DEF HostStops
  <2> QED
    BY <1>1, <2>2, <2>3 DEF TimeInv, TimeTypeOK, BudgetInv
<1>3. CASE HostResumes
  BY <1>1, <1>3 DEF HostResumes, TimeInv, TimeTypeOK, BudgetInv
<1>4. CASE ResetFrees
  <2>1. left' = [e \in Endpoints |-> 0] /\ UNCHANGED <<turn, todo, elapsed, polling, stalled>>
    BY <1>4 DEF ResetFrees
  <2>2. TimeTypeOK' /\ \A e \in Endpoints : left'[e] = 0
    BY <1>1, <2>1 DEF TimeTypeOK
  <2>3. elapsed' + Due(todo', turn') <= elapsed + Due(todo, turn)
    BY <1>1, <2>1
  <2> QED
    BY <1>1, <2>1, <2>2, <2>3, BudgetKept DEF TimeInv
<1> QED
  BY <1>2, <1>3, <1>4

\* TimeInv is an invariant.
THEOREM TimeInvariance == TimeSpec => []TimeInv
<1>1. ASSUME TimeInv, TimeNext PROVE TimeInv'
  BY <1>1, HandleInv, StepInv, DelayInv, SendInv, WaitInv, ResetInv, HostInv DEF TimeNext
<1>2. ASSUME TimeInv, UNCHANGED timing PROVE TimeInv'
  BY <1>2 DEF timing, TimeInv, TimeTypeOK, BudgetInv
<1> QED
  BY <1>1, <1>2, InitTime, PTL DEF TimeSpec

\* TimeTypeOK: no wait is longer than an interval, and nothing but the operations of the
\* handlers is ever left to be done (macropad_test.c:84-115).
THEOREM TimeTypeCorrect == TimeSpec => []TimeTypeOK
<1>1. TimeInv => TimeTypeOK
  BY DEF TimeInv
<1> QED
  BY <1>1, TimeInvariance, PTL

\* When the period of the watchdog exceeds the longest round, a host that polls its
\* endpoints every ten milliseconds, or more often, never sees the device restart,
\* whatever is pressed, turned and commanded (RoundFitsWatchdog; macropad_test.c:84-114).
THEOREM NoRestartWhilePolled ==
  ASSUME LongestRound < Period
  PROVE  TimeSpec => []RoundFitsWatchdog
<1>1. TimeInv => RoundFitsWatchdog
  <2> SUFFICES ASSUME TimeInv, ~stalled PROVE ~Overdue
    BY DEF RoundFitsWatchdog
  <2>1. TimeTypeOK /\ todo \in Fitting /\ elapsed \in Nat /\ Period \in Nat
    BY PeriodType DEF TimeInv, TimeTypeOK
  <2>2. Due(todo, turn) \in Nat /\ elapsed + Due(todo, turn) <= LongestRound /\ LongestRound \in Nat
    BY <2>1, DueType, ClockAssumption DEF TimeInv, BudgetInv, LongestRound
  <2> QED
    BY <2>1, <2>2 DEF Overdue
<1> QED
  BY <1>1, TimeInvariance, PTL
=============================================================================
