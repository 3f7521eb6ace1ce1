----------------------------- MODULE MCENetPeers -----------------------------
(***************************************************************************)
(* Two peers of a host.  They are interchangeable: no definition of        *)
(* ENetPeers tells them apart.                                             *)
(***************************************************************************)
EXTENDS ENetPeers, TLC

CONSTANTS p1, p2

Interchangeable == Permutations(Peers)
=============================================================================
