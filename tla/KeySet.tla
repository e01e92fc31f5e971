------------------------------- MODULE KeySet -------------------------------
(***************************************************************************)
(* What the keyboard report promises its callers: a set of at most Limit   *)
(* key codes held down.  A call about one code changes that code only; a   *)
(* press into a full set is lost; a tap leaves its code up.                *)
(***************************************************************************)
EXTENDS FiniteSets, Naturals

CONSTANTS Keys, Limit

VARIABLE down

Init == down = {}

Press(k) == /\ k \notin down
            /\ Cardinality(down) < Limit
            /\ down' = down \cup {k}

Release(k) == down' = down \ {k}

ReleaseAll == down' = {}

Next == (\E k \in Keys : Press(k) \/ Release(k)) \/ ReleaseAll

Spec == Init /\ [][Next]_down
=============================================================================
