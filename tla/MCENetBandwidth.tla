-------------------------- MODULE MCENetBandwidth ---------------------------
(***************************************************************************)
(* Three peers, slow and fast, with and without limits of their own, which *)
(* may be told apart only by these.                                        *)
(***************************************************************************)
EXTENDS ENetBandwidth, TLC

CONSTANTS p1, p2, p3

Interchangeable == Permutations(Peers)
=============================================================================
