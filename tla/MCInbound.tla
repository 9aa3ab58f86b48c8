----------------------------- MODULE MCInbound ------------------------------
(***************************************************************************)
(* Instances of Inbound for TLC.                                           *)
(***************************************************************************)
EXTENDS Inbound

CONSTANTS k1, k2        \* an http key and a message key

OneKey   == {k1}
TwoKeys  == {k1, k2}

\* Two timestamps for three events: equal and reversed clocks both occur.
FewTicks == 1..2
=============================================================================
