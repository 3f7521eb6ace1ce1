-------------------------- MODULE MCENetUnreliable --------------------------
(***************************************************************************)
(* One channel with packets of all kinds, on 6 windows of one number, its  *)
(* reliable numbers at the start and about to wrap around.                 *)
(***************************************************************************)
EXTENDS ENetUnreliable
=============================================================================
