--------------------------- MODULE MCENetOutgoing ---------------------------
(***************************************************************************)
(* Two peers with two channels each.  A window has one number, and the     *)
(* guard covers all 4 windows, so that each channel waits for the          *)
(* acknowledgement of its last command.  The throttle is open (4, the      *)
(* scale) or shut (0), where only the counter at 0 lets a packet through.  *)
(***************************************************************************)
EXTENDS ENetOutgoing

CONSTANTS p1, p2    \* the peers
=============================================================================
