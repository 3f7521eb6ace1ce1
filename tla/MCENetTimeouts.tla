--------------------------- MODULE MCENetTimeouts ---------------------------
(***************************************************************************)
(* Words of 5 bits with a day of 16, of which 3 bits travel: clocks that   *)
(* start at 0 and shortly before the end of the word, so that both the     *)
(* word and what travels of it wrap while commands are on their way.       *)
(***************************************************************************)
EXTENDS ENetTimeouts
=============================================================================
