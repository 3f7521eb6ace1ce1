-------------------------- MODULE MCENetConnection --------------------------
(***************************************************************************)
(* Host a connects to host b, and may again when that is over.  b has      *)
(* more slots, fewer channels and a smaller mtu; a takes less data.        *)
(***************************************************************************)
EXTENDS ENetConnection

CONSTANTS a, b

PeerCounts == [h \in Hosts |-> IF h = a THEN 1 ELSE 2]
Mtus == [h \in Hosts |-> IF h = a THEN 3 ELSE 2]
Incomings == [h \in Hosts |-> IF h = a THEN 1 ELSE 3]
Outgoings == [h \in Hosts |-> IF h = a THEN 0 ELSE 2]
=============================================================================
