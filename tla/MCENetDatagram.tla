--------------------------- MODULE MCENetDatagram ---------------------------
(***************************************************************************)
(* Two peers, and two session ids, which come again after two connections. *)
(* The configurations say for which peers encryption fails.                *)
(***************************************************************************)
EXTENDS ENetDatagram
=============================================================================
