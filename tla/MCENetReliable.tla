--------------------------- MODULE MCENetReliable ---------------------------
(***************************************************************************)
(* One reliable channel on 6 windows of 2 numbers.  The configurations     *)
(* choose the sizes of packets, how many commands there are (enough to     *)
(* wrap around the 12 numbers in MCReliableWrap), how much may be in       *)
(* transit and waiting, and what the network does.                         *)
(***************************************************************************)
EXTENDS ENetReliable
=============================================================================
