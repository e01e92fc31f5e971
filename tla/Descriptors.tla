---------------------------- MODULE Descriptors ----------------------------
(***************************************************************************)
(* The descriptors of the device, byte for byte, the choice GET_DESCRIPTOR *)
(* makes among them, the layout of the endpoint buffers, and what a HID    *)
(* driver (external) reads out of the bytes.                               *)
(*                                                                         *)
(* A text is described by its length.  Report descriptors are sequences of *)
(* items.                                                                  *)
(***************************************************************************)
EXTENDS Integers, SequencesExt

EP0_SIZE == 64
EP1_SIZE == 16
EP2_SIZE == 32

CONTROL_PACKET_SIZE == 32

Word(n) == <<n % 256, n \div 256>>

\* A descriptor of a type with these fields after its length and type.
Sized(type, fields) == <<Len(fields) + 2, type>> \o fields

-----------------------------------------------------------------------------
(* Device and configuration.                                               *)

DevDescr == Sized(1, Word(272) \o <<0, 0, 0, EP0_SIZE>> \o Word(16969) \o Word(17031)
                     \o Word(256) \o <<1, 2, 0, 1>>)

USB_CFG_DESCR(total, interfaces)         == Sized(2, Word(total) \o <<interfaces, 1, 0, 128, 25>>)
USB_ITF_DESCR(number, sub, protocol, text) == Sized(4, <<number, 0, 2, 3, sub, protocol, text>>)
USB_HID_DESCR(length)                    == Sized(33, Word(272) \o <<33, 1, 34>> \o Word(length))
USB_ENDP_DESCR(address, size)            == Sized(5, <<address, 3>> \o Word(size) \o <<10>>)

-----------------------------------------------------------------------------
(* Report descriptors.                                                     *)

ReportDescr == <<
  <<5, 1>>, <<9, 6>>, <<161, 1>>,                     \* Generic Desktop, Keyboard
    <<133, 1>>,                                       \* REPORT_ID
    <<5, 7>>, <<25, 224>>, <<41, 231>>, <<21, 0>>, <<37, 1>>,
    <<149, 8>>, <<117, 1>>, <<129, 2>>,               \* modifiers
    <<149, 1>>, <<117, 8>>, <<129, 3>>,               \* a constant byte
    <<149, 6>>, <<117, 8>>, <<21, 0>>, <<38, 255, 0>>,
    <<5, 7>>, <<25, 0>>, <<41, 231>>, <<129, 0>>,     \* six key codes
    <<5, 8>>, <<25, 1>>, <<41, 5>>, <<21, 0>>, <<37, 1>>,
    <<149, 5>>, <<117, 1>>, <<145, 2>>,               \* five LEDs
    <<149, 1>>, <<117, 3>>, <<145, 3>>, <<192>>,
  <<5, 12>>, <<9, 1>>, <<161, 1>>,                    \* Consumer Control
    <<133, 2>>,                                       \* REPORT_ID
    <<21, 0>>, <<38, 255, 3>>, <<25, 0>>, <<42, 255, 3>>,
    <<149, 4>>, <<117, 16>>, <<129, 0>>, <<192>> >>   \* four usages

RawHIDReportDescriptor == <<
  <<6, 96, 255>>, <<9, 97>>, <<161, 1>>,              \* Vendor 0xFF60
    <<9, 98>>, <<21, 0>>, <<38, 255, 0>>, <<149, 32>>, <<117, 8>>, <<145, 2>>,
    <<9, 99>>, <<149, 32>>, <<117, 8>>, <<129, 2>>, <<192>> >>

KeyboardBytes == FlattenSeq(ReportDescr)
RawBytes      == FlattenSeq(RawHIDReportDescriptor)

CfgDescr ==
  LET rest == USB_ITF_DESCR(0, 1, 1, 4) \o USB_HID_DESCR(Len(KeyboardBytes))
                \o USB_ENDP_DESCR(129, EP1_SIZE) \o USB_ENDP_DESCR(1, EP1_SIZE)
                \o USB_ITF_DESCR(1, 0, 0, 0) \o USB_HID_DESCR(Len(RawBytes))
                \o USB_ENDP_DESCR(130, EP2_SIZE) \o USB_ENDP_DESCR(2, EP2_SIZE)
  IN  USB_CFG_DESCR(9 + Len(rest), 2) \o rest

\* A text of n characters.
Text(n) == Sized(3, [c \in 1 .. 2 * n |-> 0])

Table == [DEVICE |-> DevDescr, CONFIG |-> CfgDescr,
          KEYBOARD |-> KeyboardBytes, RAW |-> RawBytes,
          LANG |-> Text(1), MANUF |-> Text(11), PROD |-> Text(17), INTERF |-> Text(12)]

\* The descriptor for a type, an index (wValueL) and an interface (wIndexL);
\* "none" is answered with a stall.
Wanted(type, index, interface) == [type |-> type, index |-> index, interface |-> interface]

\* Mutant: the report descriptor is chosen by wValueL.
ReportByValue(w) == CASE w.index = 0 -> "KEYBOARD" [] w.index = 1 -> "RAW" [] OTHER -> "none"

ReportOf(w) == CASE w.interface = 0 -> "KEYBOARD" [] w.interface = 1 -> "RAW" [] OTHER -> "none"

TextOf(w) == CASE w.index = 1 -> "MANUF" [] w.index = 2 -> "PROD" [] w.index = 4 -> "INTERF"
               [] OTHER -> "LANG"

Selected(w) == CASE w.type = 1  -> "DEVICE"
                 [] w.type = 2  -> "CONFIG"
                 [] w.type = 3  -> TextOf(w)
                 [] w.type = 34 -> ReportOf(w)
                 [] OTHER       -> "none"

-----------------------------------------------------------------------------
(* Endpoint buffers.                                                       *)

EP_BUF_SIZE(size) == IF size + 2 < 64 THEN size + 2 ELSE 64

EP1_ADDR == EP_BUF_SIZE(EP0_SIZE)
EP2_ADDR == EP1_ADDR + EP_BUF_SIZE(EP1_SIZE)

Area(from, size) == from .. from + size - 1

\* The engine takes IN packets from 64 bytes behind the OUT buffer.
Buffers == <<Area(0, EP_BUF_SIZE(EP0_SIZE)),
             Area(EP1_ADDR, EP_BUF_SIZE(EP1_SIZE)), Area(EP1_ADDR + 64, EP_BUF_SIZE(EP1_SIZE)),
             Area(EP2_ADDR, EP_BUF_SIZE(EP2_SIZE)), Area(EP2_ADDR + 64, EP_BUF_SIZE(EP2_SIZE))>>

\* XRAM_LOC: the variables of the program begin here.
XRAM_LOC == 256

\* No two buffers share a byte, and none reaches the variables.
ASSUME BuffersApart == \A m, n \in DOMAIN Buffers :
                         /\ m # n => Buffers[m] \cap Buffers[n] = {}
                         /\ \A a \in Buffers[m] : a < XRAM_LOC

-----------------------------------------------------------------------------
(* A HID driver (external).                                                *)

\* The places where the sections of a configuration begin, found by their lengths.
Sections(bytes) ==
  LET next[n \in 0 .. Len(bytes)] ==
        IF n = 0 THEN 1
        ELSE LET s == next[n - 1]
             IN  IF s > Len(bytes) THEN s ELSE s + bytes[s]
  IN  {next[n] : n \in DOMAIN next}

\* The bytes of type t among them, each with the last interface before it.
Found(bytes, t) ==
  LET starts == {s \in Sections(bytes) : s <= Len(bytes)}
      interface(s) == bytes[Max({b \in starts : b <= s /\ bytes[b + 1] = 4}) + 2]
  IN  {[interface |-> interface(s), at |-> s] : s \in {s \in starts : bytes[s + 1] = t}}

\* Input and output reports of a report descriptor: identifier and size in bytes,
\* the identifier included.
Parsed(items) ==
  LET start == [id |-> 0, size |-> 0, count |-> 0, bits |-> [in |-> 0, out |-> 0]]
      add(s, way) == [s EXCEPT !.bits[way] = @ + s.size * s.count]
      item(s, i) == CASE i[1] = 133 -> [start EXCEPT !.id = i[2]]
                      [] i[1] = 117 -> [s EXCEPT !.size = i[2]]
                      [] i[1] = 149 -> [s EXCEPT !.count = i[2]]
                      [] i[1] = 129 -> add(s, "in")
                      [] i[1] = 145 -> add(s, "out")
                      [] OTHER -> s
      state[n \in 0 .. Len(items)] == IF n = 0 THEN start ELSE item(state[n - 1], items[n])
      ends == {n \in DOMAIN items : n = Len(items) \/ items[n + 1][1] = 133}
      report(n, way) == [id |-> state[n].id, way |-> way,
                         len |-> (IF state[n].id = 0 THEN 0 ELSE 1) + state[n].bits[way] \div 8]
  IN  {report(p[1], p[2]) : p \in {q \in ends \X {"in", "out"} : state[q[1]].bits[q[2]] > 0}}
=============================================================================
