----------------------------- MODULE KbdReport ------------------------------
(***************************************************************************)
(* The keyboard and consumer reports and the functions that edit them      *)
(* (usb_conkbd.c), as operators on a record d:                             *)
(*   d.kbd, d.con        KBD_report and CON_report without identifier      *)
(*   d.sentKbd, d.sentCon  the last of each given to HID_sendReport        *)
(* The identifier, the reserved byte 2 and the wait in HID_sendReport are  *)
(* left out; a set of bit numbers stands for the modifier byte.            *)
(***************************************************************************)
EXTENDS Integers, Sequences

CONSTANTS Slots,     \* key slots of KBD_report: 6
          ConSlots,  \* two-byte slots of CON_report: 4
          KBD_map    \* ASCII to key code, 128 set for a shifted key

Mods  == 0 .. 7
Codes == 0 .. 255

ASSUME SlotsAssumption == Slots \in Nat \ {0} /\ ConSlots \in Nat \ {0}
ASSUME MapAssumption   == KBD_map \in [0 .. 127 -> Codes]

\* Mutant: the key for the bit.
LeftShiftKey == 129
LeftShift    == 1  \* 0x02

NoKeys     == [mods |-> {}, keys |-> [s \in 1 .. Slots |-> 0]]
NoConsumer == [s \in 1 .. ConSlots |-> <<0, 0>>]

Blank == [kbd |-> NoKeys, con |-> NoConsumer, sentKbd |-> NoKeys, sentCon |-> NoConsumer]

Reports == [kbd     : [mods : SUBSET Mods, keys : [1 .. Slots -> Codes]],
            con     : [1 .. ConSlots -> Codes \X Codes],
            sentKbd : [mods : SUBSET Mods, keys : [1 .. Slots -> Codes]],
            sentCon : [1 .. ConSlots -> Codes \X Codes]]

\* The nonzero codes of a keyboard report.
CodesIn(report) == {report.keys[s] : s \in DOMAIN report.keys} \ {0}

KBD_sendReport(d) == [d EXCEPT !.sentKbd = d.kbd]
CON_sendReport(d) == [d EXCEPT !.sentCon = d.con]

AddMods(d, mods)    == [d EXCEPT !.kbd.mods = @ \cup mods]
RemoveMods(d, mods) == [d EXCEPT !.kbd.mods = @ \ mods]

\* Mutant: always the first slot.
FirstSlotFixed(slots) == 1
FirstSlot(slots)      == CHOOSE s \in slots : \A t \in slots : s <= t

-----------------------------------------------------------------------------
(* The keyboard report, by key code.                                       *)

\* Mutant: the search for the code is left out.
PresentMissing(d, code) == FALSE
Present(d, code)        == \E s \in 1 .. Slots : d.kbd.keys[s] = code

\* A code that is in the report, or that finds no empty slot, sends nothing.
InsertCode(d, code) ==
  LET empty == {s \in 1 .. Slots : d.kbd.keys[s] = 0}
  IN  IF Present(d, code) \/ empty = {} THEN d
      ELSE KBD_sendReport([d EXCEPT !.kbd.keys[FirstSlot(empty)] = code])

\* Mutant: the report without the code is not sent.
DeleteCodeUnsent(d, code) ==
  [d EXCEPT !.kbd.keys = [s \in 1 .. Slots |-> IF @[s] = code THEN 0 ELSE @[s]]]

DeleteCode(d, code) ==
  KBD_sendReport([d EXCEPT !.kbd.keys =
                    [s \in 1 .. Slots |-> IF @[s] = code THEN 0 ELSE @[s]]])

KBD_code_press(d, mods, code) ==
  IF code = 0 THEN d ELSE InsertCode(AddMods(d, mods), code)

KBD_code_release(d, mods, code) ==
  IF code = 0 THEN d ELSE DeleteCode(RemoveMods(d, mods), code)

KBD_code_type(d, mods, code) ==
  KBD_code_release(KBD_code_press(d, mods, code), mods, code)

KBD_releaseAll(d) == KBD_sendReport([d EXCEPT !.kbd = NoKeys])

-----------------------------------------------------------------------------
(* The keyboard report, by key: ASCII, a modifier, or a code plus 136.     *)

Chord(key) ==
  CASE key >= 136               -> [mods |-> {}, code |-> key - 136]
    [] key \in 128 .. 135       -> [mods |-> {key - 128}, code |-> 0]
    [] key < 128 /\ KBD_map[key] >= 128 ->
                                   [mods |-> {LeftShift}, code |-> KBD_map[key] - 128]
    [] OTHER                    -> [mods |-> {}, code |-> KBD_map[key]]

\* An ASCII character without a key.
Unmapped(key) == key < 128 /\ KBD_map[key] = 0

KBD_press(d, key) ==
  IF Unmapped(key) THEN d ELSE InsertCode(AddMods(d, Chord(key).mods), Chord(key).code)

KBD_release(d, key) ==
  IF Unmapped(key) THEN d ELSE DeleteCode(RemoveMods(d, Chord(key).mods), Chord(key).code)

KBD_type(d, key) == KBD_release(KBD_press(d, key), key)

-----------------------------------------------------------------------------
(* The consumer report: the low and the high byte of each key.             *)

Low(key)  == key % 256
High(key) == key \div 256

\* C reads  CON_report[i] == key & 0xFF  as  (CON_report[i] == key) & 0xFF : the
\* low byte is compared with the whole key.
Matches(slot, key) == slot[1] = key /\ slot[2] = High(key)

CON_press(d, key) ==
  LET empty == {s \in 1 .. ConSlots : d.con[s] = <<0, 0>>}
  IN  IF (\E s \in 1 .. ConSlots : Matches(d.con[s], key)) \/ empty = {} THEN d
      ELSE CON_sendReport([d EXCEPT !.con[FirstSlot(empty)] = <<Low(key), High(key)>>])

\* Mutant: the report without the key is not sent.
CON_releaseUnsent(d, key) ==
  [d EXCEPT !.con = [s \in 1 .. ConSlots |-> IF Matches(@[s], key) THEN <<0, 0>> ELSE @[s]]]

CON_release(d, key) ==
  CON_sendReport([d EXCEPT !.con =
    [s \in 1 .. ConSlots |-> IF Matches(@[s], key) THEN <<0, 0>> ELSE @[s]]])

CON_type(d, key) == CON_release(CON_press(d, key), key)

CON_releaseAll(d) == CON_sendReport([d EXCEPT !.con = NoConsumer])

-----------------------------------------------------------------------------
\* A bus reset clears both reports and sends neither; the host forgets what it got.
KBD_resetState(d) == Blank
=============================================================================
