-------------------------- MODULE SequencedDelivery --------------------------
(***************************************************************************)
(* What a channel promises for reliable and unreliable packets together:   *)
(* they are delivered in the order in which they were sent, each at most   *)
(* once, and no reliable packet is passed over.                            *)
(***************************************************************************)
EXTENDS Naturals, Sequences, SequencesExt

VARIABLES
    sent,       \* sequence of BOOLEAN: was the k-th packet sent reliably?
    delivered   \* increasing sequence of positions in sent

Offer(reliable) == sent' = Append(sent, reliable) /\ UNCHANGED delivered

(* Any packet after the last one delivered, but the next reliable one at    *)
(* most.                                                                    *)
MayFollow(p, history) ==
    LET last == IF history = <<>> THEN 0 ELSE history[Len(history)] IN
    p > last /\ \A q \in last + 1 .. p - 1 : ~ sent[q]

(* One datagram may release several packets.                                *)
Deliver ==
    /\ Len(delivered') > Len(delivered)
    /\ IsPrefix(delivered, delivered')
    /\ \A k \in Len(delivered) + 1 .. Len(delivered') :
          /\ delivered'[k] \in DOMAIN sent
          /\ MayFollow(delivered'[k], SubSeq(delivered', 1, k - 1))
    /\ UNCHANGED sent

Spec ==
    /\ sent = <<>> /\ delivered = <<>>
    /\ [][(\E reliable \in BOOLEAN : Offer(reliable)) \/ Deliver]_<<sent, delivered>>
=============================================================================
