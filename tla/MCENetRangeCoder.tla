-------------------------- MODULE MCENetRangeCoder --------------------------
(***************************************************************************)
(* Bytes of 8 values, of which datagrams use the least, the greatest and   *)
(* one between, and so few symbols that they are freed in most datagrams.  *)
(***************************************************************************)
EXTENDS ENetRangeCoder
=============================================================================
