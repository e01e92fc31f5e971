------------------------------ MODULE MCConKbd ------------------------------
(***************************************************************************)
(* Instances of ConKbd: reports of two or three slots, so that they fill   *)
(* up, and keys of each class: plain, shifted and unmapped ASCII, a        *)
(* modifier, a non-printing key with the code of an ASCII one.             *)
(***************************************************************************)
EXTENDS ConKbd

SmallMap == [a \in 0 .. 127 |-> CASE a = 97 -> 4 [] a = 65 -> 132 [] a = 98 -> 5
                                  [] OTHER -> 0]
SmallChords == {<<{0}, 4>>, <<{0, 1}, 6>>, <<{}, 0>>}
SmallKeys == {65, 97, 9, 129, 140}
=============================================================================
