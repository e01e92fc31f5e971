------------------------------ MODULE MCHidOut ------------------------------
(***************************************************************************)
(* Instances of HidOut: command packets of two bytes, so that a read has a *)
(* first and a last byte, shorter packets that are drained, and a byte     *)
(* counter that wraps at 8.                                                *)
(***************************************************************************)
EXTENDS HidOut
=============================================================================
