---------------------------- MODULE MCSessionLoop ----------------------------
(* Instances of SessionLoop for TLC.                                        *)
EXTENDS SessionLoop

CONSTANTS w1, w2

Watches == {w1, w2}

=============================================================================
