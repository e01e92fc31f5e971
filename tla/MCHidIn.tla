------------------------------ MODULE MCHidIn -------------------------------
(***************************************************************************)
(* Instances of HidIn: the live-source keyboard endpoint and the Raw HID   *)
(* endpoint, reports of an identifier and one payload byte.  Byte 0 is the *)
(* value a reset stores; 9 is the report identifier.                       *)
(***************************************************************************)
EXTENDS HidIn

MCReports == {<<9, 0>>, <<9, 1>>, <<9, 2>>}
FewReports == {<<9, 0>>, <<9, 1>>}
=============================================================================
