--------------------------- MODULE MCNativeFlasher ---------------------------
(***************************************************************************)
(* Instances of NativeFlasher: sectors of two words of two bytes, three of *)
(* them code and one always erased; chunks of three words, which straddle  *)
(* sectors.  Images: of the size of the code flash, one ending within a    *)
(* word and within a sector, an empty one and one too large.               *)
(***************************************************************************)
EXTENDS NativeFlasher

MCSize == [full |-> 12, odd |-> 5, empty |-> 0, large |-> 13]

MCImages == DOMAIN MCSize
=============================================================================
