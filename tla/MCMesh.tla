------------------------------- MODULE MCMesh -------------------------------
(***************************************************************************)
(* Instances of Mesh for TLC.                                              *)
(***************************************************************************)
EXTENDS Mesh, TLC

CONSTANTS n1, n2, n3

\* Two peers with management adapters and one that only receives.
ThreePeers == {n1, n2, n3}
TwoPeers == {n1, n2}

\* The peers with management adapters are interchangeable.
Both == Permutations(TwoPeers)
=============================================================================
