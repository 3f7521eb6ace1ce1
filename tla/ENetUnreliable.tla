--------------------------- MODULE ENetUnreliable ---------------------------
(***************************************************************************)
(* One channel that carries packets of all kinds: reliable, unreliable,    *)
(* unreliable in fragments, and unsequenced.                               *)
(*                                                                         *)
(* An unreliable packet is numbered by a pair: the number of the reliable  *)
(* packet before it, and its own since then.  The receiver holds it back   *)
(* until that reliable packet is dispatched, and drops it when a later one *)
(* is.  What the sender and the receiver do for reliable packets alone is  *)
(* the subject of ENetReliable; here they are packets of one command, each *)
(* of which arrives some time, in any order within the receive window.     *)
(*                                                                         *)
(* Unreliable datagrams may arrive in any order, any number of times, or   *)
(* never, as long as the network keeps them.                               *)
(***************************************************************************)
EXTENDS ENetSequence, ENetUnsequenced, FiniteSets, Sequences, SequencesExt

CONSTANTS
    Kinds,          \* the kinds of packets the application sends
    MaxPackets,     \* bound on the packets it sends
    Fragments,      \* fragments of a packet sent in fragments
    UnreliableLimit,      \* outgoingUnreliableSequenceNumber at most   (0xFFFF)
    MaximumWaitingData,   \* host->maximumWaitingData, in fragments
    Lifetime,   \* for how many further reliable packets a datagram is kept
    Backlog,    \* bound: reliable packets sent and not yet put in order
    Starts      \* where the numbers may stand when it all begins

ASSUME UnreliableAssumption ==
    /\ Kinds \subseteq {"reliable", "unreliable", "fragments", "unsequenced"}
    /\ Fragments \in Nat \ {0, 1}
    /\ {MaxPackets, UnreliableLimit, MaximumWaitingData} \subseteq Nat \ {0}
    /\ Lifetime \in 0 .. (FreeWindows + 1) * WindowSize
    /\ Backlog \in 1 .. (Windows - 1) * WindowSize
    /\ Starts \subseteq Nat

VARIABLES
    packets,   \* the packets sent, in order
    outgoingReliableSequenceNumber,     \* absolute
    outgoingUnreliableSequenceNumber,
    channel,   \* the receiver's channel and the dispatched packets of the peer
    state,     \* of the receiving peer: CONNECTED or DISCONNECT_LATER
    received   \* history: packets given to the application

senderVars == <<packets, outgoingReliableSequenceNumber,
                outgoingUnreliableSequenceNumber>>

vars == <<senderVars, unsequencedVars, channel, state, received>>

(* A connection some time after it was made, with everything delivered.     *)
Init ==
    \E first \in Starts :
        /\ packets = <<>>
        /\ outgoingReliableSequenceNumber = first
        /\ outgoingUnreliableSequenceNumber = 0
        /\ channel = [incomingReliableSequenceNumber |-> first,   \* absolute
                      incomingUnreliableSequenceNumber |-> 0,
                      reliable   |-> {},    \* reliable packets that came early
                      unreliable |-> <<>>,  \* incomingUnreliableCommands
                      dispatched |-> <<>>,  \* dispatchedCommands
                      totalWaitingData |-> 0]
        /\ UnsequencedInit(first)
        /\ state = "CONNECTED"
        /\ received = <<>>

-----------------------------------------------------------------------------

(* Mutant: the number goes on over the limit.                               *)
BugGoesReliable(kind) == kind = "reliable"

(* What is sent as a reliable command: also an unreliable packet, when the  *)
(* unreliable numbers are used up.                                          *)
GoesReliable(kind) ==
    \/ kind = "reliable"
    \/ /\ kind \in {"unreliable", "fragments"}
       /\ outgoingUnreliableSequenceNumber >= UnreliableLimit

(* enet_peer_setup_outgoing_command: a packet has one unreliable number,    *)
(* counted at its first fragment.                                           *)
NextUnreliable(kind) ==
    CASE kind = "unsequenced" -> outgoingUnreliableSequenceNumber
      [] GoesReliable(kind)   -> 0
      [] OTHER -> (outgoingUnreliableSequenceNumber + 1) % (UnreliableLimit + 1)

(* enet_peer_send.                                                          *)
Send(kind) ==
    /\ Len(packets) < MaxPackets
    /\ GoesReliable(kind) =>
          outgoingReliableSequenceNumber - channel.incomingReliableSequenceNumber < Backlog
    /\ outgoingReliableSequenceNumber' =
           outgoingReliableSequenceNumber + (IF GoesReliable(kind) THEN 1 ELSE 0)
    /\ outgoingUnreliableSequenceNumber' = NextUnreliable(kind)
    /\ IF kind = "unsequenced" THEN SendUnsequenced ELSE UNCHANGED unsequencedVars
    /\ packets' = Append(packets,
          [kind       |-> IF GoesReliable(kind) THEN "reliable" ELSE kind,
           reliable   |-> outgoingReliableSequenceNumber',
           unreliable |-> NextUnreliable(kind),
           group      |-> outgoingUnsequencedGroup'])
    /\ UNCHANGED <<channel, state, received>>

-----------------------------------------------------------------------------

FragmentCount(p) == IF packets[p].kind = "fragments" THEN Fragments ELSE 0

(* The space a packet takes.                                                *)
Size(p) == IF packets[p].kind = "fragments" THEN Fragments ELSE 1

SpaceOf(ps) ==
    Len(ps) + (Fragments - 1) * Cardinality({k \in DOMAIN ps : Size(ps[k]) # 1})

PacketsOf(entries) == [k \in DOMAIN entries |-> entries[k].packet]

(* The numbers of a set in their order: SetToSortSeq(S, <), by the rank of  *)
(* each, so that theorems can be proved of it.                              *)
Ascending(S) ==
    [j \in 1 .. Cardinality(S) |-> CHOOSE n \in S : Cardinality({m \in S : m <= n}) = j]

(* The elements of list at some of its positions.                           *)
Pick(list, positions) ==
    LET places == Ascending(positions) IN [j \in DOMAIN places |-> list[places[j]]]

(* An entry of incomingUnreliableCommands; from is the packets its          *)
(* fragments were taken from.                                               *)
Entry(p) ==
    [kind       |-> packets[p].kind,
     reliable   |-> Wire(packets[p].reliable),
     unreliable |-> packets[p].unreliable,
     missing    |-> 1 .. FragmentCount(p),
     packet     |-> p,
     from       |-> {}]

WithFragment(entry, p, f) ==
    [entry EXCEPT !.missing = @ \ {f},
                  !.from = IF f \in entry.missing THEN @ \cup {p} ELSE @]

(* The last reliable number dispatched, as the code has it.                 *)
Incoming(ch) == Wire(ch.incomingReliableSequenceNumber)

IsUnsequenced(entry) == entry.kind = "unsequenced"

(* Nothing reliable is missing before it, and nothing after it dispatched.  *)
IsPresent(ch, entry) == IsUnsequenced(entry) \/ entry.reliable = Incoming(ch)

IsFuture(ch, entry) ==
    ~ IsPresent(ch, entry) /\ InReceiveWindow(entry.reliable, Incoming(ch))

(* Mutant: a partial packet gives back the space of what is missing.        *)
BugWithoutDropped(waiting, dropped) ==
    waiting - FoldSeq(LAMBDA entry, sum : sum + Cardinality(entry.missing), 0, dropped)

(* enet_peer_remove_incoming_commands gives the space of a packet back,     *)
(* whether it was complete or not.                                          *)
WithoutDropped(waiting, dropped) ==
    waiting - Min({waiting, SpaceOf(PacketsOf(dropped))})

(* enet_peer_dispatch_incoming_unreliable_commands.  The pass over the list *)
(* stops at the first entry that waits for a reliable packet.  Before it,   *)
(* what is complete is dispatched, and what is old is dropped, together     *)
(* with the partial packets before the last thing dispatched; at the end of *)
(* the list two partial packets in a row are kept.  keep is the entry that  *)
(* is just being queued, which is not dropped.                              *)
DispatchUnreliable(ch, keep) ==
    LET list == ch.unreliable
        future == SelectInSeq(list, LAMBDA e : IsFuture(ch, e))
        last == IF future = 0 THEN Len(list) ELSE future - 1
        present == {k \in 1 .. last : IsPresent(ch, list[k])}
        ready == {k \in present : list[k].missing = {}}
        partial == present \ ready
        limit == CASE last \in partial /\ last - 1 \in partial -> last - 1
                   [] last \in partial /\ last - 1 \notin partial -> last
                   [] OTHER -> last + 1
        dropped == {k \in 1 .. limit - 1 : k \notin ready /\ list[k].packet # keep}
        sequenced == {k \in ready : ~ IsUnsequenced(list[k])}
    IN  [ch EXCEPT
           !.unreliable = Pick(list, DOMAIN list \ (ready \cup dropped)),
           !.dispatched = @ \o PacketsOf(Pick(list, ready)),
           !.incomingUnreliableSequenceNumber =
                IF sequenced = {} THEN @ ELSE list[Max(sequenced)].unreliable,
           !.totalWaitingData = WithoutDropped(@, Pick(list, dropped))]

(* enet_peer_dispatch_incoming_reliable_commands: the reliable packets that *)
(* are next, then the unreliable ones that waited for them.                 *)
DispatchReliable(ch) ==
    LET inc == ch.incomingReliableSequenceNumber
        IsNext(p) == \A n \in inc + 1 .. packets[p].reliable :
                         \E q \in ch.reliable : packets[q].reliable = n
        next == {p \in ch.reliable : IsNext(p)}
    IN  IF next = {} THEN ch
        ELSE DispatchUnreliable(
               [ch EXCEPT !.incomingReliableSequenceNumber = @ + Cardinality(next),
                          !.incomingUnreliableSequenceNumber = 0,
                          !.reliable = @ \ next,
                          !.dispatched = @ \o Ascending(next)], 0)

-----------------------------------------------------------------------------

(* The place where the scan from the end of the list stops.  Numbers before *)
(* the last one dispatched are one circle further on.                       *)
ScanStop(ch, entry) ==
    LET inc == Incoming(ch)
        Stops(e) ==
            IF (entry.reliable >= inc) = (e.reliable >= inc)
              THEN \/ e.reliable < entry.reliable
                   \/ e.reliable = entry.reliable /\ e.unreliable <= entry.unreliable
              ELSE entry.reliable < inc
    IN  SelectLastInSeq(ch.unreliable, Stops)

IsQueued(ch, entry) ==
    LET k == ScanStop(ch, entry)
    IN  /\ k # 0
        /\ ch.unreliable[k].reliable = entry.reliable
        /\ ch.unreliable[k].unreliable = entry.unreliable

(* Mutant: a late packet is delivered late.                                 *)
BugIsTooLate(ch, entry) == ~ InReceiveWindow(entry.reliable, Incoming(ch))

IsTooLate(ch, entry) ==
    \/ ~ InReceiveWindow(entry.reliable, Incoming(ch))
    \/ /\ entry.reliable = Incoming(ch)
       /\ entry.unreliable <= ch.incomingUnreliableSequenceNumber

IsFull == channel.totalWaitingData >= MaximumWaitingData

(* enet_peer_queue_incoming_command of an unreliable packet that has room   *)
(* and is not thrown away; an unsequenced one goes to the front.            *)
Queue(ch, p) ==
    LET place == IF IsUnsequenced(Entry(p)) THEN 1 ELSE ScanStop(ch, Entry(p)) + 1
    IN  DispatchUnreliable(
          [ch EXCEPT !.unreliable = InsertAt(@, place, Entry(p)),
                     !.totalWaitingData = @ + Size(p)], p)

(* The fragment f of packet p, put into the entry at position k.            *)
PutFragment(ch, k, p, f) ==
    LET entry == WithFragment(ch.unreliable[k], p, f)
        filled == [ch EXCEPT !.unreliable[k] = entry]
    IN  IF entry # ch.unreliable[k] /\ entry.missing = {}
          THEN DispatchUnreliable(filled, 0)
          ELSE filled

(* What the network may still deliver of the unreliable packets.            *)
MayArrive(p) ==
    outgoingReliableSequenceNumber - packets[p].reliable <= Lifetime

Unsent == <<senderVars, outgoingUnsequencedGroup>>

(* The reliable packet p arrives for the first time.  The sender never has  *)
(* more in flight than ENetReliableSender!InFlightSpan allows.              *)
ReceiveReliable(p) ==
    /\ packets[p].kind = "reliable"
    /\ state = "CONNECTED"
    /\ packets[p].reliable - channel.incomingReliableSequenceNumber
           \in 1 .. (FreeWindows - 1) * WindowSize
    /\ InReceiveWindow(Wire(packets[p].reliable), Incoming(channel))
    /\ p \notin channel.reliable
    /\ ~ IsFull
    /\ channel' = DispatchReliable([channel EXCEPT !.reliable = @ \cup {p},
                                                   !.totalWaitingData = @ + 1])
    /\ UNCHANGED <<senderVars, unsequencedVars, state, received>>

(* enet_protocol_handle_send_unreliable.  What is too late, repeated, or    *)
(* has no room leaves everything as it was.                                 *)
ReceiveUnreliable(p) ==
    /\ packets[p].kind = "unreliable"
    /\ state = "CONNECTED"
    /\ MayArrive(p)
    /\ ~ IsTooLate(channel, Entry(p))
    /\ ~ IsQueued(channel, Entry(p))
    /\ ~ IsFull
    /\ channel' = Queue(channel, p)
    /\ UNCHANGED <<senderVars, unsequencedVars, state, received>>

(* enet_protocol_handle_send_unreliable_fragment: for a packet on the list, *)
(* unless it is one of another kind, also in DISCONNECT_LATER ...           *)
AddFragment(p, f) ==
    LET k == ScanStop(channel, Entry(p))
    IN  /\ IsQueued(channel, Entry(p))
        /\ channel.unreliable[k].kind = "fragments"
        /\ channel' = PutFragment(channel, k, p, f)

(* ... and for one that is not yet on it, which enet_peer_queue_incoming_   *)
(* command throws away in DISCONNECT_LATER.                                 *)
StartFragments(p, f) ==
    LET queued == Queue(channel, p)
        k == SelectLastInSeq(queued.unreliable, LAMBDA e : e.packet = p)
    IN  /\ state = "CONNECTED"
        /\ ~ IsQueued(channel, Entry(p))
        /\ ~ IsFull
        /\ channel' = PutFragment(queued, k, p, f)

ReceiveFragment(p, f) ==
    /\ packets[p].kind = "fragments"
    /\ MayArrive(p)
    /\ ~ IsTooLate(channel, Entry(p))
    /\ AddFragment(p, f) \/ StartFragments(p, f)
    /\ UNCHANGED <<senderVars, unsequencedVars, state, received>>

(* enet_protocol_handle_send_unsequenced.  In DISCONNECT_LATER the packet   *)
(* is thrown away, but its bit is set.                                      *)
ReceiveUnsequencedPacket(p) ==
    LET stored == state = "DISCONNECT_LATER" \/ ~ IsFull
    IN  /\ packets[p].kind = "unsequenced"
        /\ IsAlive(packets[p].group)
        /\ ReceiveUnsequenced(packets[p].group, stored)
        /\ channel' = IF state = "CONNECTED" /\ stored THEN Queue(channel, p) ELSE channel
        /\ UNCHANGED <<senderVars, state, received>>

(* enet_peer_disconnect_later of a peer that still has something to send:   *)
(* enet_peer_queue_incoming_command throws away what comes from now on, but *)
(* the fragments of a packet begun before are taken until it is complete.   *)
DisconnectLater ==
    /\ state' = "DISCONNECT_LATER"
    /\ UNCHANGED <<senderVars, unsequencedVars, channel, received>>

(* enet_peer_receive.                                                       *)
PeerReceive ==
    /\ channel.dispatched # <<>>
    /\ LET p == Head(channel.dispatched)
       IN  /\ received' = Append(received, p)
           /\ channel' = [channel EXCEPT !.dispatched = Tail(@),
                                         !.totalWaitingData = @ - Min({@, Size(p)})]
    /\ UNCHANGED <<senderVars, unsequencedVars, state>>

Next ==
    \/ \E kind \in Kinds : Send(kind)
    \/ \E p \in DOMAIN packets :
          \/ ReceiveReliable(p)
          \/ ReceiveUnreliable(p)
          \/ \E f \in 1 .. FragmentCount(p) : ReceiveFragment(p, f)
          \/ ReceiveUnsequencedPacket(p)
    \/ DisconnectLater
    \/ PeerReceive

Spec == Init /\ [][Next]_vars

-----------------------------------------------------------------------------

Delivered == received \o channel.dispatched

IsSequenced(p) == packets[p].kind # "unsequenced"

Sequenced == INSTANCE SequencedDelivery WITH
                 sent      <- [p \in DOMAIN packets |-> packets[p].kind = "reliable"],
                 delivered <- Pick(Delivered, {k \in DOMAIN Delivered :
                                                 IsSequenced(Delivered[k])})

(* Reliable and unreliable packets of a channel reach the application in    *)
(* the order in which they were sent, none twice, and none while a reliable *)
(* packet before it is missing: however late or often datagrams come, and   *)
(* also when the numbers wrap.                                              *)
ImplementsSequenced == Sequenced!Spec

(* totalWaitingData is the space of the packets on the lists, so that what  *)
(* was dropped, unfinished or passed over, takes no room for ever.          *)
WaitingExact ==
    channel.totalWaitingData =
        SpaceOf(PacketsOf(channel.unreliable)) + Cardinality(channel.reliable)
            + SpaceOf(channel.dispatched)

(* A partial packet is made of fragments of the packet it was begun for.    *)
OwnFragments ==
    \A k \in DOMAIN channel.unreliable :
        channel.unreliable[k].from \subseteq {channel.unreliable[k].packet}
=============================================================================
