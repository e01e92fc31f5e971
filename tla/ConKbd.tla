------------------------------- MODULE ConKbd -------------------------------
(***************************************************************************)
(* The keyboard library as its callers use it: one action per function of  *)
(* usb_conkbd.h, called in any order with any key, and the bus reset that  *)
(* clears the reports between two calls.  The input actions of the         *)
(* firmware use the calls by code and the consumer tap; the calls by key   *)
(* are the library's other half (KBD_print is KBD_type on each character). *)
(***************************************************************************)
EXTENDS KbdReport, FiniteSets

CONSTANTS Chords,   \* <<modifiers, code>> of the calls by code
          Keys,     \* keys of the calls by key
          ConKeys   \* consumer keys, 16 bits

ASSUME CallsAssumption == /\ Chords \subseteq (SUBSET Mods) \X Codes
                          /\ Keys \subseteq Codes
                          /\ \A key \in ConKeys : key \in Nat /\ High(key) \in Codes

VARIABLE d

vars == <<d>>

Init == d = Blank

CodePress(mods, code)   == d' = KBD_code_press(d, mods, code)
CodeRelease(mods, code) == d' = KBD_code_release(d, mods, code)
CodeType(mods, code)    == d' = KBD_code_type(d, mods, code)
Press(key)              == d' = KBD_press(d, key)
Release(key)            == d' = KBD_release(d, key)
Type(key)               == d' = KBD_type(d, key)
ReleaseAll              == d' = KBD_releaseAll(d)
ConPress(key)           == d' = CON_press(d, key)
ConRelease(key)         == d' = CON_release(d, key)
ConType(key)            == d' = CON_type(d, key)
ConReleaseAll           == d' = CON_releaseAll(d)
ResetState              == d' = KBD_resetState(d)

Next == \/ \E c \in Chords : \/ CodePress(c[1], c[2])
                             \/ CodeRelease(c[1], c[2])
                             \/ CodeType(c[1], c[2])
        \/ \E key \in Keys : Press(key) \/ Release(key) \/ Type(key)
        \/ \E key \in ConKeys : ConPress(key) \/ ConRelease(key) \/ ConType(key)
        \/ ReleaseAll
        \/ ConReleaseAll
        \/ ResetState

Spec == Init /\ [][Next]_vars

-----------------------------------------------------------------------------
TypeOK == d \in Reports

\* A code never takes two of the six slots, whatever presses, taps and releases
\* came before (usb_conkbd.c:60-63, 148-152).
OneSlotPerCode ==
  \A s, t \in 1 .. Slots : d.kbd.keys[s] = d.kbd.keys[t] /\ s # t => d.kbd.keys[s] = 0

\* The keys the host last heard of are those in the reports: a key is never added
\* or removed without a report being sent.
HostKnowsKeys == d.sentKbd.keys = d.kbd.keys /\ d.sentCon = d.con

\* The keyboard report is a set of at most Slots codes (KeySet): a call affects no
\* code but its own.
Down == INSTANCE KeySet WITH Keys <- Codes \ {0}, Limit <- Slots, down <- CodesIn(d.kbd)
IsKeySet == Down!Spec

ConDown(report, key) == \E s \in DOMAIN report : report[s] = <<Low(key), High(key)>>

\* "Press and release a consumer key on keyboard" (usb_conkbd.c:231): after
\* CON_type the host does not see the key down.
ConTapEnds == [][\A key \in ConKeys \ {0} : ConType(key) => ~ConDown(d'.sentCon, key)]_vars

\* KBD_press is to "press a key on keyboard" (usb_conkbd.h:13), a modifier key
\* like any other: the host is told of it.
ModifierIsSent ==
  [][\A key \in Keys \cap 128 .. 135 : Press(key) => key - 128 \in d'.sentKbd.mods]_vars
=============================================================================
