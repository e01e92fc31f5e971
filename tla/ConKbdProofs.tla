---------------------------- MODULE ConKbdProofs ----------------------------
(***************************************************************************)
(* Proofs about ConKbd, for every number of slots, every key map and every *)
(* set of calls: type correctness, no code in two slots, the host knows    *)
(* the reports, the keyboard report implements KeySet, and a consumer tap  *)
(* of a key below 256 ends.                                                *)
(*                                                                         *)
(* The calls are compositions of a few edits of the reports, so the lemmas *)
(* are about the edits and speak of reports r, not of the variable.        *)
(***************************************************************************)
EXTENDS ConKbd, FiniteSetTheorems, TLAPS

Distinct(r) ==
  \A s, t \in 1 .. Slots : r.kbd.keys[s] = r.kbd.keys[t] /\ s # t => r.kbd.keys[s] = 0

Told(r) == r.sentKbd.keys = r.kbd.keys /\ r.sentCon = r.con

Good(r) == r \in Reports /\ Distinct(r) /\ Told(r)

IInv == Good(d)

\* What an edit does to the set of codes: none, or one more of those that fit.
Unchanged(r, q)      == CodesIn(q.kbd) = CodesIn(r.kbd)
Inserted(r, q, code) == /\ code # 0 /\ code \notin CodesIn(r.kbd)
                        /\ Cardinality(CodesIn(r.kbd)) < Slots
                        /\ CodesIn(q.kbd) = CodesIn(r.kbd) \cup {code}
Deleted(r, q, code)  == CodesIn(q.kbd) = CodesIn(r.kbd) \ {code}

-----------------------------------------------------------------------------
(* The first slot of some.                                                 *)

\* The search for an empty slot ends at one of the empty slots.
LEMMA FirstSlotIsOne ==
  ASSUME NEW S \in SUBSET Nat, S # {}
  PROVE  FirstSlot(S) \in S
<1>1. PICK s \in S : \A t \in S : ~ (<<t, s>> \in OpToRel(<, Nat))
  BY NatLessThanWellFounded, WFMin, Zenon
<1>2. \A t \in S : s <= t
  <2> SUFFICES ASSUME NEW t \in S PROVE s <= t
    OBVIOUS
  <2>1. ~ (<<t, s>> \in OpToRel(<, Nat))
    BY <1>1
  <2>2. s \in Nat /\ t \in Nat
    OBVIOUS
  <2>3. ~ (t < s)
    BY <2>1, <2>2 DEF OpToRel
  <2> QED
    BY <2>2, <2>3
<1> QED
  BY <1>2 DEF FirstSlot

\* A report with an empty slot holds fewer codes than it has slots.
LEMMA EmptySlotLeavesRoom ==
  ASSUME NEW r \in Reports, NEW e \in 1 .. Slots, r.kbd.keys[e] = 0
  PROVE  Cardinality(CodesIn(r.kbd)) < Slots
<1> DEFINE full == {s \in 1 .. Slots : r.kbd.keys[s] # 0}
           f    == [s \in full |-> r.kbd.keys[s]]
<1>1. Slots \in Nat /\ Slots > 0
  BY SlotsAssumption
<1>2. IsFiniteSet(1 .. Slots) /\ Cardinality(1 .. Slots) = Slots
  BY <1>1, FS_Interval
<1>3. full \in SUBSET (1 .. Slots) /\ e \notin full
  OBVIOUS
<1>4. IsFiniteSet(full) /\ Cardinality(full) <= Slots /\ Cardinality(full) # Slots
  BY <1>2, <1>3, FS_Subset
<1>5. r.kbd.keys \in [1 .. Slots -> Codes]
  BY DEF Reports
<1>6. CodesIn(r.kbd) = {f[s] : s \in full}
  BY <1>5 DEF CodesIn
<1>7. f \in Surjection(full, CodesIn(r.kbd))
  BY <1>6 DEF Surjection
<1>8. IsFiniteSet(CodesIn(r.kbd)) /\ Cardinality(CodesIn(r.kbd)) <= Cardinality(full)
  BY <1>4, <1>7, FS_Surjection
<1>9. Cardinality(full) \in Nat /\ Cardinality(CodesIn(r.kbd)) \in Nat
  BY <1>4, <1>8, FS_CardinalityType
<1> QED
  BY <1>1, <1>4, <1>8, <1>9

-----------------------------------------------------------------------------
(* The edits of the keyboard report.                                       *)

\* Adding modifiers changes no key and tells nothing.
LEMMA AddModsGood ==
  ASSUME NEW r, Good(r), NEW mods \in SUBSET Mods
  PROVE  Good(AddMods(r, mods)) /\ Unchanged(r, AddMods(r, mods))
BY DEF Good, Reports, Distinct, Told, Unchanged, CodesIn, AddMods

\* Nor does removing them.
LEMMA RemoveModsGood ==
  ASSUME NEW r, Good(r), NEW mods \in SUBSET Mods
  PROVE  Good(RemoveMods(r, mods)) /\ Unchanged(r, RemoveMods(r, mods))
BY DEF Good, Reports, Distinct, Told, Unchanged, CodesIn, RemoveMods

\* Inserting a code changes nothing or puts it, alone, into an empty slot.
LEMMA InsertGood ==
  ASSUME NEW r, Good(r), NEW code \in Codes
  PROVE  LET q == InsertCode(r, code)
         IN  Good(q) /\ (Unchanged(r, q) \/ Inserted(r, q, code))
<1> DEFINE empty == {s \in 1 .. Slots : r.kbd.keys[s] = 0}
           e     == FirstSlot(empty)
           q     == InsertCode(r, code)
<1>1. CASE Present(r, code) \/ empty = {}
  BY <1>1 DEF InsertCode, Unchanged
<1>2. CASE ~Present(r, code) /\ empty # {}
  <2>1. e \in 1 .. Slots /\ r.kbd.keys[e] = 0
    <3>1. empty \in SUBSET Nat
      OBVIOUS
    <3>2. e \in empty
      BY <1>2, <3>1, FirstSlotIsOne
    <3> QED
      BY <3>2
  <2> HIDE DEF e
  <2>2. q = KBD_sendReport([r EXCEPT !.kbd.keys[e] = code])
    BY <1>2 DEF InsertCode, e
  <2> HIDE DEF empty, q
  <2>3. r \in Reports /\ r.kbd.keys \in [1 .. Slots -> Codes]
    BY DEF Good, Reports
  <2>4. /\ q.kbd.keys = [r.kbd.keys EXCEPT ![e] = code]
        /\ q.sentKbd.keys = q.kbd.keys /\ q.con = r.con /\ q.sentCon = r.sentCon
        /\ q \in Reports
    BY <2>1, <2>2, <2>3 DEF KBD_sendReport, Reports
  <2>5. \A s \in 1 .. Slots : r.kbd.keys[s] # code
    BY <1>2 DEF Present
  <2>6. Distinct(q)
    BY <2>1, <2>3, <2>4, <2>5 DEF Good, Distinct
  <2>7. code # 0 /\ code \notin CodesIn(r.kbd)
    BY <2>1, <2>3, <2>5 DEF CodesIn
  <2>8. CodesIn(q.kbd) = CodesIn(r.kbd) \cup {code}
    <3>1. CodesIn(q.kbd) \subseteq CodesIn(r.kbd) \cup {code}
      BY <2>1, <2>3, <2>4 DEF CodesIn
    <3>2. CodesIn(r.kbd) \subseteq CodesIn(q.kbd)
      BY <2>1, <2>3, <2>4 DEF CodesIn
    <3>3. q.kbd.keys[e] = code /\ e \in DOMAIN q.kbd.keys
      BY <2>1, <2>3, <2>4
    <3>4. code \in CodesIn(q.kbd)
      BY <2>7, <3>3 DEF CodesIn
    <3> QED
      BY <3>1, <3>2, <3>4
  <2> QED
    BY <2>1, <2>3, <2>4, <2>6, <2>7, <2>8, EmptySlotLeavesRoom DEF Good, Told, Inserted, q
<1> QED
  BY <1>1, <1>2

\* Deleting a code removes it from every slot, and nothing else.
LEMMA DeleteGood ==
  ASSUME NEW r, Good(r), NEW code \in Codes
  PROVE  LET q == DeleteCode(r, code)
         IN  Good(q) /\ Deleted(r, q, code)
<1> DEFINE q == DeleteCode(r, code)
<1>1. r \in Reports /\ r.kbd.keys \in [1 .. Slots -> Codes]
  BY DEF Good, Reports
<1> DEFINE keys == [s \in 1 .. Slots |-> IF r.kbd.keys[s] = code THEN 0 ELSE r.kbd.keys[s]]
<1>2. q = KBD_sendReport([r EXCEPT !.kbd.keys = keys])
  BY DEF DeleteCode
<1>3. keys \in [1 .. Slots -> Codes]
  <2> SUFFICES ASSUME NEW s \in 1 .. Slots
               PROVE  (IF r.kbd.keys[s] = code THEN 0 ELSE r.kbd.keys[s]) \in Codes
    OBVIOUS
  <2>1. r.kbd.keys[s] \in Codes
    BY <1>1
  <2>2. 0 \in Codes
    BY DEF Codes
  <2> QED
    BY <2>1, <2>2
<1>4. /\ q.kbd.keys = [s \in 1 .. Slots |-> IF r.kbd.keys[s] = code THEN 0 ELSE r.kbd.keys[s]]
      /\ q.sentKbd.keys = q.kbd.keys /\ q.con = r.con /\ q.sentCon = r.sentCon
      /\ q \in Reports
  <2> HIDE DEF keys, q
  <2>1. q.kbd.keys = keys /\ q.sentKbd.keys = keys /\ q.con = r.con /\ q.sentCon = r.sentCon
    BY <1>1, <1>2 DEF KBD_sendReport, Reports
  <2>2. q \in Reports
    BY <1>1, <1>2, <1>3 DEF KBD_sendReport, Reports
  <2> QED
    BY <2>1, <2>2 DEF keys
<1> HIDE DEF q
<1>5. Distinct(q)
  BY <1>1, <1>4 DEF Good, Distinct
<1>6. CodesIn(q.kbd) = CodesIn(r.kbd) \ {code}
  BY <1>1, <1>4 DEF CodesIn
<1> QED
  BY <1>4, <1>5, <1>6 DEF Good, Told, Deleted, q

-----------------------------------------------------------------------------
(* The calls that edit the keyboard report.                                *)

\* Modifiers and a code: KBD_code_press and KBD_press have this in common.
LEMMA PressGood ==
  ASSUME NEW r, Good(r), NEW mods \in SUBSET Mods, NEW code \in Codes
  PROVE  LET q == InsertCode(AddMods(r, mods), code)
         IN  Good(q) /\ (Unchanged(r, q) \/ Inserted(r, q, code))
<1> DEFINE p == AddMods(r, mods)
<1>1. Good(p) /\ CodesIn(p.kbd) = CodesIn(r.kbd)
  BY AddModsGood DEF Unchanged
<1> HIDE DEF p
<1>2. LET q == InsertCode(p, code) IN Good(q) /\ (Unchanged(p, q) \/ Inserted(p, q, code))
  BY <1>1, InsertGood
<1> QED
  BY <1>1, <1>2 DEF p, Unchanged, Inserted

\* And KBD_code_release and KBD_release this.
LEMMA ReleaseGood ==
  ASSUME NEW r, Good(r), NEW mods \in SUBSET Mods, NEW code \in Codes
  PROVE  LET q == DeleteCode(RemoveMods(r, mods), code)
         IN  Good(q) /\ Deleted(r, q, code)
<1> DEFINE p == RemoveMods(r, mods)
<1>1. Good(p) /\ CodesIn(p.kbd) = CodesIn(r.kbd)
  BY RemoveModsGood DEF Unchanged
<1> HIDE DEF p
<1>2. LET q == DeleteCode(p, code) IN Good(q) /\ Deleted(p, q, code)
  BY <1>1, DeleteGood
<1> QED
  BY <1>1, <1>2 DEF p, Deleted

\* What is pressed and then released is no longer there, and nothing else has changed.
LEMMA TapGood ==
  ASSUME NEW r, Good(r), NEW mods \in SUBSET Mods, NEW code \in Codes
  PROVE  LET p == InsertCode(AddMods(r, mods), code)
             q == DeleteCode(RemoveMods(p, mods), code)
         IN  Good(q) /\ Deleted(r, q, code)
<1> DEFINE p == InsertCode(AddMods(r, mods), code)
<1>1. Good(p) /\ (Unchanged(r, p) \/ Inserted(r, p, code))
  BY PressGood
<1> HIDE DEF p
<1>2. LET q == DeleteCode(RemoveMods(p, mods), code) IN Good(q) /\ Deleted(p, q, code)
  BY <1>1, ReleaseGood
<1> QED
  BY <1>1, <1>2 DEF p, Unchanged, Inserted, Deleted

\* Every key has modifiers and a code.
LEMMA ChordType ==
  ASSUME NEW key \in Codes
  PROVE  Chord(key).mods \in SUBSET Mods /\ Chord(key).code \in Codes
<1>1. key < 128 => KBD_map[key] \in Codes
  <2>1. key < 128 => key \in 0 .. 127
    BY DEF Codes
  <2> QED
    BY <2>1, MapAssumption
<1>2. CASE key >= 136
  BY <1>2 DEF Chord, Codes
<1>3. CASE key \in 128 .. 135
  BY <1>3 DEF Chord, Codes, Mods
<1>4. CASE key < 128 /\ KBD_map[key] >= 128
  BY <1>1, <1>4 DEF Chord, Codes, Mods, LeftShift
<1>5. CASE key < 128 /\ ~(KBD_map[key] >= 128)
  BY <1>1, <1>5 DEF Chord, Codes
<1> QED
  BY <1>2, <1>3, <1>4, <1>5 DEF Codes

\* Releasing all empties the report and tells the host.
LEMMA ReleaseAllGood ==
  ASSUME NEW r, Good(r)
  PROVE  Good(KBD_releaseAll(r)) /\ CodesIn(KBD_releaseAll(r).kbd) = {}
<1> DEFINE q == KBD_releaseAll(r)
<1>1. NoKeys \in [mods : SUBSET Mods, keys : [1 .. Slots -> Codes]]
  BY DEF NoKeys, Codes
<1>2. /\ q.kbd = NoKeys /\ q.sentKbd = NoKeys /\ q.con = r.con /\ q.sentCon = r.sentCon
      /\ q \in Reports
  BY <1>1 DEF KBD_releaseAll, KBD_sendReport, Good, Reports
<1> HIDE DEF q
<1>3. NoKeys.keys = [s \in 1 .. Slots |-> 0]
  BY DEF NoKeys
<1> QED
  BY <1>2, <1>3 DEF q, Good, Distinct, Told, CodesIn

\* So does a reset, without telling: the host forgets.
LEMMA BlankGood == Good(Blank) /\ CodesIn(Blank.kbd) = {}
<1>1. NoKeys \in [mods : SUBSET Mods, keys : [1 .. Slots -> Codes]]
  BY DEF NoKeys, Codes
<1>2. NoConsumer \in [1 .. ConSlots -> Codes \X Codes]
  BY DEF NoConsumer, Codes
<1>3. Blank \in Reports
  BY <1>1, <1>2 DEF Blank, Reports
<1>4. NoKeys.keys = [s \in 1 .. Slots |-> 0]
  BY DEF NoKeys
<1> QED
  BY <1>3, <1>4 DEF Blank, Good, Distinct, Told, CodesIn
-----------------------------------------------------------------------------
(* The calls that edit the consumer report leave the keyboard report alone. *)

\* A consumer key is two bytes.
LEMMA ConKeyBytes ==
  ASSUME NEW key \in Nat, High(key) \in Codes
  PROVE  <<Low(key), High(key)>> \in Codes \X Codes
<1>1. Low(key) \in Codes
  BY DEF Low, Codes
<1> QED
  BY <1>1

\* And so is an empty slot.
LEMMA EmptySlotBytes == <<0, 0>> \in Codes \X Codes
<1>1. 0 \in Codes
  BY DEF Codes
<1> QED
  BY <1>1

\* A press puts the key into an empty slot, or changes nothing.
LEMMA ConPressGood ==
  ASSUME NEW r, Good(r), NEW key \in Nat, High(key) \in Codes
  PROVE  LET q == CON_press(r, key) IN Good(q) /\ Unchanged(r, q)
<1> DEFINE empty == {s \in 1 .. ConSlots : r.con[s] = <<0, 0>>}
           e     == FirstSlot(empty)
           q     == CON_press(r, key)
<1>1. CASE q = r
  BY <1>1 DEF Unchanged
<1>2. CASE empty # {} /\ q = CON_sendReport([r EXCEPT !.con[e] = <<Low(key), High(key)>>])
  <2>1. empty \in SUBSET Nat
    OBVIOUS
  <2>2. e \in 1 .. ConSlots
    BY <1>2, <2>1, FirstSlotIsOne
  <2> HIDE DEF e, q
  <2>3. r \in Reports /\ <<Low(key), High(key)>> \in Codes \X Codes
    BY ConKeyBytes DEF Good
  <2>4. /\ q.kbd = r.kbd /\ q.sentKbd = r.sentKbd /\ q.sentCon = q.con
        /\ q \in Reports
    BY <1>2, <2>2, <2>3 DEF CON_sendReport, Reports
  <2> QED
    BY <2>4 DEF q, Good, Distinct, Told, Unchanged
<1> QED
  BY <1>1, <1>2 DEF CON_press

\* A release empties the slots of the key.
LEMMA ConReleaseGood ==
  ASSUME NEW r, Good(r), NEW key \in Nat, High(key) \in Codes
  PROVE  LET q == CON_release(r, key) IN
         /\ Good(q) /\ Unchanged(r, q)
         /\ q.sentCon = [s \in 1 .. ConSlots |->
                           IF Matches(r.con[s], key) THEN <<0, 0>> ELSE r.con[s]]
<1> DEFINE q     == CON_release(r, key)
           slots == [s \in 1 .. ConSlots |->
                       IF Matches(r.con[s], key) THEN <<0, 0>> ELSE r.con[s]]
<1>1. q = CON_sendReport([r EXCEPT !.con = slots])
  BY DEF CON_release
<1>2. r \in Reports /\ r.con \in [1 .. ConSlots -> Codes \X Codes]
  BY DEF Good, Reports
<1>3. slots \in [1 .. ConSlots -> Codes \X Codes]
  BY <1>2, EmptySlotBytes
<1> HIDE DEF q, slots
<1>4. /\ q.kbd = r.kbd /\ q.sentKbd = r.sentKbd /\ q.con = slots /\ q.sentCon = slots
      /\ q \in Reports
  BY <1>1, <1>2, <1>3 DEF CON_sendReport, Reports
<1> QED
  BY <1>4 DEF q, slots, Good, Distinct, Told, Unchanged

\* Releasing all empties every slot.
LEMMA ConReleaseAllGood ==
  ASSUME NEW r, Good(r)
  PROVE  LET q == CON_releaseAll(r) IN Good(q) /\ Unchanged(r, q)
<1> DEFINE q == CON_releaseAll(r)
<1>1. NoConsumer \in [1 .. ConSlots -> Codes \X Codes]
  BY EmptySlotBytes DEF NoConsumer
<1>2. q = CON_sendReport([r EXCEPT !.con = NoConsumer])
  BY DEF CON_releaseAll
<1> HIDE DEF q
<1>3. /\ q.kbd = r.kbd /\ q.sentKbd = r.sentKbd /\ q.sentCon = q.con
      /\ q \in Reports
  BY <1>1, <1>2 DEF CON_sendReport, Good, Reports
<1> QED
  BY <1>3 DEF q, Good, Distinct, Told, Unchanged

-----------------------------------------------------------------------------
(* The calls.                                                              *)

\* What a call may do to the set of codes.
KeyStep(r, q) == \/ Unchanged(r, q)
                 \/ \E code \in Codes : Inserted(r, q, code) \/ Deleted(r, q, code)
                 \/ CodesIn(q.kbd) = {}

Called(r, q) == Good(q) /\ KeyStep(r, q)

\* The calls by code.
LEMMA CodeCalls ==
  ASSUME NEW r, Good(r), NEW mods \in SUBSET Mods, NEW code \in Codes
  PROVE  /\ Called(r, KBD_code_press(r, mods, code))
         /\ Called(r, KBD_code_release(r, mods, code))
         /\ Called(r, KBD_code_type(r, mods, code))
<1>1. CASE code = 0
  <2>1. Called(r, r)
    BY DEF Called, KeyStep, Unchanged
  <2> QED
    BY <1>1, <2>1 DEF KBD_code_press, KBD_code_release, KBD_code_type
<1>2. CASE code # 0
  <2>1. Called(r, InsertCode(AddMods(r, mods), code))
    BY PressGood DEF Called, KeyStep
  <2>2. Called(r, DeleteCode(RemoveMods(r, mods), code))
    BY ReleaseGood DEF Called, KeyStep
  <2>3. Called(r, DeleteCode(RemoveMods(InsertCode(AddMods(r, mods), code), mods), code))
    BY TapGood DEF Called, KeyStep
  <2> QED
    BY <1>2, <2>1, <2>2, <2>3 DEF KBD_code_press, KBD_code_release, KBD_code_type
<1> QED
  BY <1>1, <1>2

\* The calls by key.
LEMMA KeyCalls ==
  ASSUME NEW r, Good(r), NEW key \in Codes
  PROVE  /\ Called(r, KBD_press(r, key))
         /\ Called(r, KBD_release(r, key))
         /\ Called(r, KBD_type(r, key))
<1> DEFINE mods == Chord(key).mods
           code == Chord(key).code
<1>1. CASE Unmapped(key)
  <2>1. Called(r, r)
    BY DEF Called, KeyStep, Unchanged
  <2> QED
    BY <1>1, <2>1 DEF KBD_press, KBD_release, KBD_type
<1>2. CASE ~Unmapped(key)
  <2>1. mods \in SUBSET Mods /\ code \in Codes
    BY ChordType
  <2>2. /\ KBD_press(r, key) = InsertCode(AddMods(r, mods), code)
        /\ KBD_release(r, key) = DeleteCode(RemoveMods(r, mods), code)
        /\ KBD_type(r, key) =
             DeleteCode(RemoveMods(InsertCode(AddMods(r, mods), code), mods), code)
    BY <1>2 DEF KBD_press, KBD_release, KBD_type
  <2> HIDE DEF mods, code
  <2>3. Called(r, InsertCode(AddMods(r, mods), code))
    BY <2>1, PressGood DEF Called, KeyStep
  <2>4. Called(r, DeleteCode(RemoveMods(r, mods), code))
    BY <2>1, ReleaseGood DEF Called, KeyStep
  <2>5. Called(r, DeleteCode(RemoveMods(InsertCode(AddMods(r, mods), code), mods), code))
    BY <2>1, TapGood DEF Called, KeyStep
  <2> QED
    BY <2>2, <2>3, <2>4, <2>5
<1> QED
  BY <1>1, <1>2

\* The consumer calls.
LEMMA ConCalls ==
  ASSUME NEW r, Good(r), NEW key \in Nat, High(key) \in Codes
  PROVE  /\ Called(r, CON_press(r, key))
         /\ Called(r, CON_release(r, key))
         /\ Called(r, CON_type(r, key))
<1> DEFINE p == CON_press(r, key)
           q == CON_release(p, key)
<1>1. Good(p) /\ Unchanged(r, p)
  BY ConPressGood
<1>2. Called(r, CON_release(r, key))
  BY ConReleaseGood DEF Called, KeyStep
<1> HIDE DEF p
<1>3. Good(q) /\ Unchanged(p, q)
  BY <1>1, ConReleaseGood
<1> HIDE DEF q
<1>4. Called(r, p) /\ Called(r, q)
  BY <1>1, <1>3 DEF Called, KeyStep, Unchanged
<1>5. CON_type(r, key) = q
  BY DEF CON_type, p, q
<1> QED
  BY <1>2, <1>4, <1>5 DEF p

\* The calls without a key.
LEMMA AllCalls ==
  ASSUME NEW r, Good(r)
  PROVE  /\ Called(r, KBD_releaseAll(r))
         /\ Called(r, CON_releaseAll(r))
         /\ Called(r, KBD_resetState(r))
<1>1. Called(r, KBD_releaseAll(r))
  BY ReleaseAllGood DEF Called, KeyStep
<1>2. Called(r, CON_releaseAll(r))
  BY ConReleaseAllGood DEF Called, KeyStep
<1>3. Called(r, Blank)
  BY BlankGood DEF Called, KeyStep
<1> QED
  BY <1>1, <1>2, <1>3 DEF KBD_resetState

\* Every step of the library is one of them.
LEMMA NextCalled == IInv /\ Next => Called(d, d')
<1> SUFFICES ASSUME Good(d), Next PROVE Called(d, d')
  BY DEF IInv
<1>1. ASSUME NEW c \in Chords,
             CodePress(c[1], c[2]) \/ CodeRelease(c[1], c[2]) \/ CodeType(c[1], c[2])
      PROVE  Called(d, d')
  <2>1. c[1] \in SUBSET Mods /\ c[2] \in Codes
    BY CallsAssumption
  <2> QED
    BY <1>1, <2>1, CodeCalls DEF CodePress, CodeRelease, CodeType
<1>2. ASSUME NEW key \in Keys, Press(key) \/ Release(key) \/ Type(key)
      PROVE  Called(d, d')
  BY <1>2, CallsAssumption, KeyCalls DEF Press, Release, Type
<1>3. ASSUME NEW key \in ConKeys, ConPress(key) \/ ConRelease(key) \/ ConType(key)
      PROVE  Called(d, d')
  <2>1. key \in Nat /\ High(key) \in Codes
    BY CallsAssumption
  <2> QED
    BY <1>3, <2>1, ConCalls DEF ConPress, ConRelease, ConType
<1>4. CASE ReleaseAll \/ ConReleaseAll \/ ResetState
  BY <1>4, AllCalls DEF ReleaseAll, ConReleaseAll, ResetState
<1> QED
  BY <1>1, <1>2, <1>3, <1>4 DEF Next

\* What a call does to the set of codes, KeySet may do.
LEMMA KeyStepAllowed == KeyStep(d, d') => Down!Next \/ Unchanged(d, d')
<1>0. \A S : Down!Cardinality(S) = Cardinality(S)
  BY DEF Cardinality, Down!Cardinality
<1>1. ASSUME NEW code \in Codes, Inserted(d, d', code) PROVE Down!Next
  BY <1>0, <1>1 DEF Inserted, Down!Next, Down!Press
<1>2. ASSUME NEW code \in Codes, Deleted(d, d', code)
      PROVE  Down!Next \/ Unchanged(d, d')
  <2>1. CASE code = 0
    BY <1>2, <2>1 DEF Deleted, Unchanged, CodesIn
  <2>2. CASE code # 0
    BY <1>2, <2>2 DEF Deleted, Down!Next, Down!Release
  <2> QED
    BY <2>1, <2>2
<1>3. CodesIn(d'.kbd) = {} => Down!Next
  BY DEF Down!Next, Down!ReleaseAll
<1> QED
  BY <1>1, <1>2, <1>3 DEF KeyStep

\* The reports stay good, whatever is called in whatever order.
THEOREM Invariance == Spec => []IInv
<1>1. Init => IInv
  BY BlankGood DEF Init, IInv
<1>2. IInv /\ [Next]_vars => IInv'
  BY NextCalled DEF Called, vars, IInv
<1> QED
  BY <1>1, <1>2, PTL DEF Spec

\* The reports are arrays of bytes (TypeOK; usb_conkbd.c:36-39).
THEOREM TypeCorrect == Spec => []TypeOK
<1>1. IInv => TypeOK
  BY DEF IInv, Good, TypeOK
<1> QED
  BY <1>1, Invariance, PTL

\* No code is ever in two slots of the keyboard report (OneSlotPerCode;
\* usb_conkbd.c:60-63, 148-152).
THEOREM NoCodeTwice == Spec => []OneSlotPerCode
<1>1. IInv => OneSlotPerCode
  BY DEF IInv, Good, Distinct, OneSlotPerCode
<1> QED
  BY <1>1, Invariance, PTL

\* The host always knows which keys are in the reports (HostKnowsKeys; the calls of
\* KBD_sendReport and CON_sendReport in usb_conkbd.c).
THEOREM HostUpToDate == Spec => []HostKnowsKeys
<1>1. IInv => HostKnowsKeys
  BY DEF IInv, Good, Told, HostKnowsKeys
<1> QED
  BY <1>1, Invariance, PTL

\* The keyboard report implements a set of at most Slots codes (IsKeySet): a press, a
\* release or a tap of one code never changes another.
THEOREM KeySetImplemented == Spec => IsKeySet
<1>1. Init => Down!Init
  BY BlankGood DEF Init, Down!Init
<1>2. IInv /\ [Next]_vars => [Down!Next]_(CodesIn(d.kbd))
  BY NextCalled, KeyStepAllowed DEF Called, vars, Unchanged
<1> QED
  BY <1>1, <1>2, Invariance, PTL DEF Spec, IsKeySet, Down!Spec

\* After a tap of a consumer key that fits into one byte, as the keys of the bindings do,
\* the host does not see the key down (ConTapEnds; usb_conkbd.c:178-210, 231-234).
THEOREM TapsEnd ==
  ASSUME ConKeys \subseteq Codes
  PROVE  Spec => ConTapEnds
<1>1. ASSUME IInv, NEW key \in ConKeys \ {0}, ConType(key)
      PROVE  ~ConDown(d'.sentCon, key)
  <2> DEFINE p == CON_press(d, key)
  <2>1. key \in Nat /\ High(key) \in Codes /\ Low(key) = key /\ High(key) = 0
    BY DEF Codes, Low, High
  <2>2. Good(p)
    BY <1>1, <2>1, ConPressGood DEF IInv
  <2>3. d' = CON_release(p, key)
    BY <1>1 DEF ConType, CON_type
  <2> HIDE DEF p
  <2>4. d'.sentCon = [s \in 1 .. ConSlots |->
                        IF Matches(p.con[s], key) THEN <<0, 0>> ELSE p.con[s]]
    BY <2>1, <2>2, <2>3, ConReleaseGood
  <2> SUFFICES ASSUME NEW s \in 1 .. ConSlots, d'.sentCon[s] = <<key, 0>> PROVE FALSE
    BY <2>1, <2>4 DEF ConDown
  <2>5. CASE Matches(p.con[s], key)
    BY <1>1, <2>4, <2>5
  <2>6. CASE ~Matches(p.con[s], key)
    BY <2>1, <2>4, <2>6 DEF Matches
  <2> QED
    BY <2>5, <2>6
<1>2. IInv => [\A key \in ConKeys \ {0} : ConType(key) => ~ConDown(d'.sentCon, key)]_vars
  BY <1>1
<1> QED
  BY <1>2, Invariance, PTL DEF ConTapEnds
=============================================================================
