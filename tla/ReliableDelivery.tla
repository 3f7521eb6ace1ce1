-------------------------- MODULE ReliableDelivery --------------------------
(***************************************************************************)
(* What a reliable channel promises the two applications, with nothing of  *)
(* windows, numbers, fragments and datagrams: packets are given to the     *)
(* application in the order they were sent, each once, and a packet is     *)
(* only confirmed to its sender when it has arrived as a whole.            *)
(***************************************************************************)
EXTENDS Integers, Sequences

VARIABLES
    offered,     \* how many packets have been sent: they are 1..offered
    arrived,     \* those that are with the receiving host
    delivered,   \* what the receiving application was given, in order
    confirmed    \* those the sending host knows to have arrived

Init ==
    /\ offered = 0
    /\ arrived = {}
    /\ delivered = <<>>
    /\ confirmed = {}

Offer ==
    /\ offered' = offered + 1
    /\ UNCHANGED <<arrived, delivered, confirmed>>

Arrive(p) ==
    /\ p \notin arrived
    /\ arrived' = arrived \cup {p}
    /\ UNCHANGED <<offered, delivered, confirmed>>

Deliver ==
    /\ Len(delivered) + 1 \in arrived
    /\ delivered' = Append(delivered, Len(delivered) + 1)
    /\ UNCHANGED <<offered, arrived, confirmed>>

Confirm(p) ==
    /\ p \in arrived \ confirmed
    /\ confirmed' = confirmed \cup {p}
    /\ UNCHANGED <<offered, arrived, delivered>>

Next ==
    \/ Offer
    \/ Deliver
    \/ \E p \in 1 .. offered : Arrive(p) \/ Confirm(p)

Spec == Init /\ [][Next]_<<offered, arrived, delivered, confirmed>>
=============================================================================
