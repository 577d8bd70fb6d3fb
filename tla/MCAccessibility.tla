--------------------------- MODULE MCAccessibility ---------------------------
(* Instances of Accessibility for TLC. *)
EXTENDS Accessibility

CONSTANTS mail, window, button, field

TwoElements == [a \in {mail} |-> <<window, button>>]
ThreeElements == [a \in {mail} |-> <<window, button, field>>]
=============================================================================
