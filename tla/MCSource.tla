------------------------------ MODULE MCSource ------------------------------
(***************************************************************************)
(* Instances of Source for TLC.                                            *)
(***************************************************************************)
EXTENDS Source, TLC

CONSTANTS c1, t1, t2, s1, s2

OneTarget == {t1}
TwoTargets == {t1, t2}
SecondTarget == {t2}
OnePass == {s1}
TwoPasses == {s1, s2}

\* Passes are interchangeable (safety only).
Passes == Permutations(TwoPasses)
=============================================================================
