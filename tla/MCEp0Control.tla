---------------------------- MODULE MCEp0Control ----------------------------
(***************************************************************************)
(* Instances of Ep0Control: the descriptors of the device, asked for by    *)
(* hosts that know them and in one way there is no descriptor for; and     *)
(* packets of 3 bytes with one descriptor shorter than a packet, one of    *)
(* exactly two and one of two and a byte.                                  *)
(***************************************************************************)
EXTENDS Enumeration

\* Device, configuration, both report descriptors, one of an interface there is not,
\* a text, and a text without a descriptor of its own (the languages are sent).
MCAsked == {Wanted(1, 0, 0), Wanted(2, 0, 0), Wanted(34, 0, 0), Wanted(34, 0, 1),
            Wanted(34, 0, 2), Wanted(3, 2, 0), Wanted(3, 3, 0)}

MCLen      == [d \in DOMAIN Table |-> Len(Table[d])]
MCSelected == [w \in MCAsked |-> ChosenFor(w)]
MCMeant    == [w \in MCAsked |-> MeantBy(w)]

\* What the theorem DriverUnderstands asks of the constants holds for the device's.
ASSUME DeviceAssumption ==
  Descrs = DOMAIN Table => OfDevice /\ \A d \in {"CONFIG", "KEYBOARD", "RAW"} : Agrees[d]

SmallDescrs   == {"short", "exact", "longer"}
SmallLen      == [short |-> 2, exact |-> 6, longer |-> 7]
SmallAsked    == SmallDescrs \cup {"other"}
SmallSelected == [w \in SmallAsked |-> IF w = "other" THEN Unknown ELSE w]
=============================================================================
