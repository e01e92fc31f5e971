----------------------------- MODULE Enumeration -----------------------------
(***************************************************************************)
(* Endpoint 0 composed with the descriptors of the device: what a HID      *)
(* driver that has read them expects, against what the firmware sends and  *)
(* takes.                                                                  *)
(***************************************************************************)
EXTENDS Ep0Control, Descriptors

\* The descriptor a host means: the report descriptor is the interface's own, and the
\* languages are no answer to a text there is not.
MeantBy(w) == CASE w.type = 34 /\ w.interface = 0 -> "KEYBOARD"
                [] w.type = 34 /\ w.interface = 1 -> "RAW"
                [] w.type = 3 /\ w.index \notin {0, 1, 2, 4} -> Unknown
                [] Selected(w) = "none" -> Unknown
                [] OTHER -> Selected(w)

\* The choice of the firmware; none is answered with a stall.
ChosenFor(w) == IF Selected(w) = "none" THEN Unknown ELSE Selected(w)

\* The constants of endpoint 0 are those of the device, for whatever is asked.
OfDevice == /\ Packet = EP0_SIZE
            /\ Descrs = DOMAIN Table /\ DescrLen = [d \in Descrs |-> Len(Table[d])]
            /\ Choice = [w \in Asked |-> ChosenFor(w)]
            /\ Meant = [w \in Asked |-> MeantBy(w)]

\* Reports of each interface, identifier included: those the firmware sends, and those
\* its OUT handlers take apart.
KBD_report  == [id |-> 1, way |-> "in", len |-> 9]
CON_report  == [id |-> 2, way |-> "in", len |-> 9]
LED_report  == [id |-> 1, way |-> "out", len |-> 2]
RawReports  == {[id |-> 0, way |-> w, len |-> CONTROL_PACKET_SIZE] : w \in {"in", "out"}}

Firmware(interface) == IF interface = 0 THEN {KBD_report, CON_report, LED_report} ELSE RawReports

\* The endpoint registers HID_setup enables, by interface and direction.
Endpoint(interface, way) == (IF way = "in" THEN 128 ELSE 0) + interface + 1

\* A configuration is made of its sections; it has the interfaces it says, each with a
\* report descriptor of the length it says, and each report of an interface fits a
\* packet of its endpoint.
ConfigAgrees(bytes) ==
  LET end == bytes[3] + 256 * bytes[4]
      interfaces == {f.interface : f \in Found(bytes, 4)}
  IN  /\ end = Len(bytes) /\ end + 1 \in Sections(bytes)
      /\ Cardinality(interfaces) = bytes[5]
      /\ \A f \in Found(bytes, 33) :
           bytes[f.at + 7] = DescrLen[MeantBy(Wanted(34, 0, f.interface))]
      /\ \A i \in interfaces : \A r \in Firmware(i) :
           \E f \in Found(bytes, 5) : /\ f.interface = i
                                      /\ bytes[f.at + 2] = Endpoint(i, r.way)
                                      /\ bytes[f.at + 4] >= r.len

\* The checks, once for every descriptor.
Agrees == [d \in Descrs |->
             CASE d = "DEVICE"   -> Table[d][8] = Packet
               [] d = "CONFIG"   -> ConfigAgrees(Table[d])
               [] d = "KEYBOARD" -> Parsed(ReportDescr) = Firmware(0)
               [] d = "RAW"      -> Parsed(RawHIDReportDescriptor) = Firmware(1)
               [] OTHER          -> Table[d][1] = Len(Table[d])]

\* Whatever a host has read in full agrees with the firmware: packet size of endpoint
\* 0, sections, interfaces and endpoints of the configuration, and the sizes and
\* identifiers of every report as they are sent and taken apart; and what it read is
\* what it meant, the raw interface's report descriptor not the keyboard's
\* (usb_handler.c:103-118; usb_descr.c:13-206; usb_conkbd.c:11-20; device_control.c:27).
DriverAgrees ==
  stage = "statusOut" /\ Known /\ asked.req = "GET_DESCRIPTOR" =>
    LET d == received[1].of
    IN  received # <<>> /\ count = DescrLen[d] => d = Meant[asked.of] /\ Agrees[d]
=============================================================================
