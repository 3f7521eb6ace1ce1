---------------------------- MODULE ENetOutgoing ----------------------------
(***************************************************************************)
(* What a host sends to its peers, and when: the lists of outgoing         *)
(* commands of a peer, shared by its channels; the pass over them that     *)
(* fills a datagram; the throttle that drops unreliable packets; the       *)
(* packets, which are shared by the commands that carry them, also those   *)
(* of several peers; and the disconnect that waits for all of it.          *)
(*                                                                         *)
(* ENetReliableSender looks at one channel and one command at a time.      *)
(* Here a pass is one step, with everything enet_protocol_check_outgoing_  *)
(* commands does to all the commands it comes by.  Sizes are counted in    *)
(* commands.  Times are left out: any command sent may have expired.       *)
(***************************************************************************)
EXTENDS ENetSequence, FiniteSets, Sequences, SequencesExt

CONSTANTS
    Peers,
    Channels,          \* 0 .. channelCount - 1
    Kinds,             \* the kinds of packets the application sends
    MaxCommands,       \* bound: commands ever queued, but for disconnects
    Capacity,          \* commands in a datagram
    Fragments,         \* fragments of an unreliable packet sent in fragments
    ThrottleScale,     \* ENET_PEER_PACKET_THROTTLE_SCALE     (32)
    ThrottleCounter,   \* ENET_PEER_PACKET_THROTTLE_COUNTER   (7)
    ThrottleStep,      \* packetThrottleAcceleration and -Deceleration   (2)
    SendWindow         \* peer->windowSize, with an mtu of 1

ASSUME OutgoingAssumption ==
    /\ IsFiniteSet(Peers) /\ IsFiniteSet(Channels)
    /\ Kinds \subseteq {"reliable", "unreliable", "fragments", "unsequenced"}
    /\ {Capacity, Fragments, ThrottleScale, ThrottleCounter, ThrottleStep,
        SendWindow} \subseteq Nat \ {0}
    /\ MaxCommands \in Nat

VARIABLES
    peers,      \* [Peers -> what the host keeps of the peer]
    packets,    \* the packets sent, with their counters
    totalQueued \* the clock of the lists: commands ever queued

vars == <<peers, packets, totalQueued>>

NoPacket == 0

(* The channel of commands without a packet (0xFF).                        *)
ControlChannel == 255

NewPeer ==
    [state      |-> "CONNECTED",
     outgoing   |-> <<>>,    \* outgoingCommands
     reliable   |-> <<>>,    \* outgoingSendReliableCommands
     sent       |-> <<>>,    \* sentReliableCommands
     number     |-> [c \in Channels \cup {ControlChannel} |-> 0],
                             \* outgoingReliableSequenceNumber of each
     unreliable |-> [c \in Channels |-> 0],  \* outgoingUnreliableSequenceNumber
     windows    |-> [c \in Channels |-> [w \in WindowNum |-> 0]],
     inTransit  |-> 0,       \* reliableDataInTransit
     throttle   |-> ThrottleScale,   \* packetThrottle
     counter    |-> 0,       \* packetThrottleCounter
     cut        |-> FALSE]   \* history: enet_peer_disconnect was called

Init ==
    /\ peers = [p \in Peers |-> NewPeer]
    /\ packets = <<>>
    /\ totalQueued = 0

-----------------------------------------------------------------------------

(* FLAG_ACKNOWLEDGE is set.                                                 *)
IsReliable(command) == command.kind \in {"reliable", "control"}

(* enet_peer_setup_outgoing_command for command number f of a packet, the   *)
(* queueTime counted by the caller.                                         *)
Command(peer, kind, channel, packet, f, time) ==
    [kind       |-> kind,
     channel    |-> channel,
     packet     |-> packet,
     fragment   |-> f,
     number     |-> CASE kind \in {"reliable", "control"} -> peer.number[channel] + 1
                      [] kind = "unsequenced"             -> 0
                      [] OTHER                            -> peer.number[channel],
     unreliable |-> IF kind \in {"unreliable", "fragments"}
                      THEN peer.unreliable[channel] + 1 ELSE 0,
     queueTime  |-> time + f,
     attempted  |-> FALSE]

CountOf(kind) == IF kind = "fragments" THEN Fragments ELSE 1

Commands(peer, kind, channel, packet, time) ==
    [f \in 1 .. CountOf(kind) |-> Command(peer, kind, channel, packet, f, time)]

(* ... and the list and the numbers it leaves.                              *)
Queue(peer, kind, channel, packet, time) ==
    LET commands == Commands(peer, kind, channel, packet, time) IN
    CASE kind = "reliable" ->
            [peer EXCEPT !.reliable = @ \o commands,
                         !.number[channel] = @ + 1,
                         !.unreliable[channel] = 0]
      [] kind = "control" ->
            [peer EXCEPT !.outgoing = @ \o commands, !.number[channel] = @ + 1]
      [] kind = "unsequenced" ->
            [peer EXCEPT !.outgoing = @ \o commands]
      [] OTHER ->
            [peer EXCEPT !.outgoing = @ \o commands, !.unreliable[channel] = @ + 1]

HasOutgoing(peer) == peer.outgoing # <<>> \/ peer.reliable # <<>> \/ peer.sent # <<>>

Everything(peer) == peer.outgoing \o peer.reliable \o peer.sent

-----------------------------------------------------------------------------
(* The state of the whole host: handlers are operators from one to another. *)

Host == [peers |-> peers, packets |-> packets, queued |-> totalQueued]

Becomes(h) == /\ peers' = h.peers
              /\ packets' = h.packets
              /\ totalQueued' = h.queued

Queued(h, p, kind, channel, packet) ==
    [h EXCEPT !.peers[p] = Queue(@, kind, channel, packet, h.queued),
              !.queued = @ + CountOf(kind)]

(* A command leaves the lists and its packet loses a reference; with the    *)
(* last the packet is destroyed, and its remainingFragments forgotten.      *)
Released(packet) ==
    [packet EXCEPT !.referenceCount = @ - 1,
                   !.remainingFragments = IF packet.referenceCount = 1 THEN 0 ELSE @]

Freed(h, command) ==
    IF command.packet = NoPacket THEN h
    ELSE [h EXCEPT !.packets[command.packet] = Released(@)]

FreedAll(h, commands) == FoldLeft(Freed, h, commands)

(* enet_peer_reset_queues: the channels are freed with the lists, but       *)
(* reliableDataInTransit stays.                                             *)
ResetQueues(h, p) ==
    [FreedAll(h, Everything(h.peers[p]))
       EXCEPT !.peers[p].outgoing = <<>>, !.peers[p].reliable = <<>>,
              !.peers[p].sent = <<>>,
              !.peers[p].windows = NewPeer.windows,
              !.peers[p].unreliable = NewPeer.unreliable,
              !.peers[p].number = [NewPeer.number EXCEPT
                                     ![ControlChannel] = h.peers[p].number[ControlChannel]]]

(* enet_peer_disconnect of a peer CONNECTED or in DISCONNECT_LATER.         *)
PeerDisconnect(h, p) ==
    [Queued(ResetQueues(h, p), p, "control", ControlChannel, NoPacket)
       EXCEPT !.peers[p].state = "DISCONNECTING"]

(* Mutant: the disconnect does not wait for acknowledgements.               *)
BugDisconnectLater(h, p) ==
    IF /\ h.peers[p].state = "DISCONNECT_LATER"
       /\ h.peers[p].outgoing = <<>> /\ h.peers[p].reliable = <<>>
    THEN PeerDisconnect(h, p) ELSE h

(* What stands at the end of a pass, of the datagram and of an ack.         *)
DisconnectIfDone(h, p) ==
    IF h.peers[p].state = "DISCONNECT_LATER" /\ ~ HasOutgoing(h.peers[p])
    THEN PeerDisconnect(h, p) ELSE h

-----------------------------------------------------------------------------
(* The pass over the lists.  s.host is the host so far, s.used the commands *)
(* in the datagram, s.dropped those the throttle dropped, s.ended that the  *)
(* reliable list is done with for this pass, s.full that the datagram is    *)
(* (CONTINUE_SENDING).                                                      *)

(* The first command of a window waits for the windows around it.           *)
IsWindowBlocked(peer, command) ==
    LET w == WindowOf(Wire(command.number))
        counts == peer.windows[command.channel]
    IN  /\ ~ command.attempted
        /\ Wire(command.number) % WindowSize = 0
        /\ \/ counts[(w + Windows - 1) % Windows] >= WindowSize
           \/ \E v \in GuardWindows(w) : counts[v] > 0

(* Mutant: there is not always room for one command.                        *)
BugTransitLimit(peer) == (peer.throttle * SendWindow) \div ThrottleScale

TransitLimit(peer) ==
    LET throttled == (peer.throttle * SendWindow) \div ThrottleScale
    IN  IF throttled > 1 THEN throttled ELSE 1

IsTransitBlocked(peer) == peer.inTransit + 1 > TransitLimit(peer)

(* Which list comes next: the one whose head was queued first.              *)
TakesReliable(s, peer) ==
    /\ ~ s.ended
    /\ peer.reliable # <<>>
    /\ peer.outgoing # <<>> => Head(peer.reliable).queueTime < Head(peer.outgoing).queueTime

(* Mutant: a command sent again is counted again.                           *)
BugCounted(peer, command) ==
    [peer EXCEPT !.windows[command.channel][WindowOf(Wire(command.number))] = @ + 1]

(* The window of a command sent for the first time counts it.               *)
Counted(peer, command) ==
    IF command.attempted THEN peer
    ELSE [peer EXCEPT !.windows[command.channel][WindowOf(Wire(command.number))] = @ + 1]

SendReliable(s, p, command) ==
    [s EXCEPT
       !.used = @ + 1,
       !.host.peers[p] =
          IF command.packet = NoPacket
          THEN [@ EXCEPT !.outgoing = Tail(@),
                         !.sent = Append(@, [command EXCEPT !.attempted = TRUE])]
          ELSE [Counted(@, command) EXCEPT
                         !.reliable = Tail(@),
                         !.inTransit = @ + 1,
                         !.sent = Append(@, [command EXCEPT !.attempted = TRUE])]]

(* The unreliable command of a packet leaves the lists with its datagram.   *)
SendUnreliable(s, p, command) ==
    [s EXCEPT !.used = @ + 1,
              !.host = [Freed(@, command) EXCEPT !.peers[p].outgoing = Tail(@)]]

(* Mutant: only the first fragment is dropped.                              *)
BugDropLength(list) == 1

(* A dropped packet takes along the commands next to it with its numbers:   *)
(* its other fragments, but also any unsequenced packets behind it.         *)
DropLength(list) ==
    LET differs == {i \in 1 .. Len(list) :
                      \/ list[i].number # list[1].number
                      \/ list[i].unreliable # list[1].unreliable}
    IN  IF differs = {} THEN Len(list) ELSE Min(differs) - 1

Drop(s, p) ==
    LET list == s.host.peers[p].outgoing
        n == DropLength(list)
    IN  [s EXCEPT !.dropped = @ \o SubSeq(list, 1, n),
                  !.host = [FreedAll(@, SubSeq(list, 1, n))
                              EXCEPT !.peers[p].outgoing = SubSeq(list, n + 1, Len(list))]]

NextCounter(peer) == (peer.counter + ThrottleCounter) % ThrottleScale

(* The first command of an unreliable packet: dropped or sent.              *)
Throttle(s, p, command) ==
    LET counted == [s EXCEPT !.host.peers[p].counter = NextCounter(s.host.peers[p])]
    IN  IF NextCounter(s.host.peers[p]) > s.host.peers[p].throttle
        THEN Drop(counted, p)
        ELSE SendUnreliable(counted, p, command)

(* One round of the loop.                                                   *)
Step(s, p) ==
    LET peer == s.host.peers[p]
        takesReliable == TakesReliable(s, peer)
        command == IF takesReliable THEN Head(peer.reliable) ELSE Head(peer.outgoing)
    IN  IF s.full \/ (~ takesReliable /\ peer.outgoing = <<>>) THEN s
        ELSE IF takesReliable /\ (IsWindowBlocked(peer, command) \/ IsTransitBlocked(peer))
             THEN [s EXCEPT !.ended = TRUE]
        ELSE IF s.used = Capacity     THEN [s EXCEPT !.full = TRUE]
        ELSE IF IsReliable(command)   THEN SendReliable(s, p, command)
        ELSE IF command.fragment = 1  THEN Throttle(s, p, command)
        ELSE SendUnreliable(s, p, command)

(* A round removes a command, or ends the reliable list or the pass.        *)
Pass(h, p) ==
    LET rounds == Len(h.peers[p].outgoing) + Len(h.peers[p].reliable) + 2
    IN  FoldLeft(LAMBDA s, k : Step(s, p),
                 [host |-> h, used |-> 0, dropped |-> <<>>, ended |-> FALSE, full |-> FALSE],
                 [k \in 1 .. rounds |-> k])

(* Mutant: expired commands are put back at the end of their list.          *)
BugPutBack(commands, list) == list \o commands

PutBack(commands, list) == commands \o list

(* Mutant: what leaves sentReliableCommands stays in transit.               *)
BugOutOfTransit(peer, n) == peer

OutOfTransit(peer, n) == [peer EXCEPT !.inTransit = @ - n]

WithData(commands) == SelectSeq(commands, LAMBDA c : c.packet # NoPacket)

(* enet_protocol_check_timeouts: the expired commands go in front of what   *)
(* their list held before.                                                  *)
Expired(peer, times) ==
    LET expired == SelectSeq(peer.sent, LAMBDA c : c.queueTime \in times)
        data == WithData(expired)
    IN  [OutOfTransit(peer, Len(data)) EXCEPT
           !.sent = SelectSeq(@, LAMBDA c : c.queueTime \notin times),
           !.reliable = PutBack(data, @),
           !.outgoing = PutBack(SelectSeq(expired, LAMBDA c : c \notin ToSet(data)), @)]

TimesOf(list) == {list[i].queueTime : i \in 1 .. Len(list)}

-----------------------------------------------------------------------------

(* Mutant: a broadcast packet has the references of one peer.               *)
BugNewPacket(kind, receivers) ==
    [referenceCount |-> CountOf(kind), remainingFragments |-> CountOf(kind)]

(* referenceCount grows with every peer, remainingFragments is set anew.    *)
NewPacket(kind, receivers) ==
    [referenceCount     |-> receivers * CountOf(kind),
     remainingFragments |-> CountOf(kind)]

Connected == {p \in Peers : peers[p].state = "CONNECTED"}

(* And those that are to be disconnected later.                             *)
Leaving == {p \in Peers : peers[p].state = "DISCONNECT_LATER"}

(* enet_peer_send to each of the receivers.                                 *)
Send(receivers, kind, channel) ==
    /\ totalQueued + Cardinality(receivers) * CountOf(kind) <= MaxCommands
    /\ LET new == [Host EXCEPT !.packets = Append(@, NewPacket(kind, Cardinality(receivers)))]
       IN  Becomes(FoldLeft(LAMBDA h, p : Queued(h, p, kind, channel, Len(packets) + 1),
                            new, SetToSeq(receivers)))

PeerSend(p, kind, channel) ==
    /\ p \in Connected
    /\ Send({p}, kind, channel)

(* enet_host_broadcast; without a peer to send it to, the packet is         *)
(* destroyed.                                                               *)
Broadcast(kind, channel) ==
    /\ Connected # {}
    /\ Send(Connected, kind, channel)

(* The limits of enet_host_bandwidth_throttle, enet_peer_ping of peers      *)
(* CONNECTED, and enet_peer_throttle_configure, which looks at no state but *)
(* is called for peers in use.                                              *)
Control(p) ==
    /\ p \in Connected \cup Leaving
    /\ totalQueued < MaxCommands
    /\ Becomes(Queued(Host, p, "control", ControlChannel, NoPacket))

(* check_outgoing_commands looks before the unreliable commands are freed,  *)
(* remove_sent_unreliable_commands after it.                                *)
EndOfPass(h, p) == DisconnectIfDone(h, p)

(* enet_protocol_send_outgoing_commands reaching the peer: the commands     *)
(* queued at times have expired (none, when called by enet_host_flush).     *)
Passed(p, times) ==
    EndOfPass(Pass([Host EXCEPT !.peers[p] = Expired(@, times)], p).host, p)

ServicePass(p, times) ==
    /\ HasOutgoing(peers[p])
    /\ Becomes(Passed(p, times))

(* enet_protocol_check_timeouts giving the peer up, which resets it.        *)
TimeOut(p) ==
    /\ peers[p].sent # <<>>
    /\ Becomes([ResetQueues(Host, p) EXCEPT !.peers[p] = [NewPeer EXCEPT !.state = "GONE"]])

-----------------------------------------------------------------------------

(* The places of command number of channel on a list that was searched up   *)
(* to the first reliable command that has not been sent.                    *)
Places(list, channel, number) ==
    {i \in 1 .. Len(list) :
        /\ list[i].channel = channel /\ list[i].number = number
        /\ \A j \in 1 .. i : IsReliable(list[j]) => list[j].attempted
        /\ IsReliable(list[i])}

(* The counts of a channel without the command.                             *)
Uncounted(peer, channel, number) ==
    LET w == WindowOf(Wire(number)) IN
    IF channel \in Channels /\ peer.windows[channel][w] > 0
    THEN [peer EXCEPT !.windows[channel][w] = @ - 1]
    ELSE peer

(* The packet of a command acknowledged while on sentReliableCommands.  At  *)
(* 0 acknowledgeCallback is called.                                         *)
FragmentAcknowledged(packet) == [packet EXCEPT !.remainingFragments = @ - 1]

(* enet_protocol_remove_sent_reliable_command.                              *)
Removed(h, p, channel, number) ==
    LET peer == h.peers[p]
        sent == Places(peer.sent, channel, number)
        outgoing == Places(peer.outgoing, channel, number)
        reliable == Places(peer.reliable, channel, number)
        uncounted == [h EXCEPT !.peers[p] = Uncounted(@, channel, number)]
    IN  CASE sent # {} ->
               LET command == peer.sent[Min(sent)]
                   taken == [uncounted EXCEPT !.peers[p].sent = RemoveAt(@, Min(sent))]
               IN  IF command.packet = NoPacket THEN taken
                   ELSE Freed([taken EXCEPT !.peers[p] = OutOfTransit(@, 1),
                                            !.packets[command.packet] = FragmentAcknowledged(@)],
                              command)
          [] sent = {} /\ outgoing # {} ->
               [uncounted EXCEPT !.peers[p].outgoing = RemoveAt(@, Min(outgoing))]
          [] sent = {} /\ outgoing = {} /\ reliable # {} ->
               Freed([uncounted EXCEPT !.peers[p].reliable = RemoveAt(@, Min(reliable))],
                     peer.reliable[Min(reliable)])
          [] OTHER -> h

(* What enet_peer_throttle may make of the throttle, with its limit at the  *)
(* scale.                                                                   *)
Throttles(throttle) ==
    {throttle, ThrottleScale,
     IF throttle + ThrottleStep > ThrottleScale THEN ThrottleScale ELSE throttle + ThrottleStep,
     IF throttle > ThrottleStep THEN throttle - ThrottleStep ELSE 0}

(* enet_protocol_handle_acknowledge.  While DISCONNECTING the DISCONNECT is *)
(* all there is to acknowledge, and ends the connection.                    *)
Acknowledge(p, channel, number) ==
    \E throttle \in Throttles(peers[p].throttle) :
        LET removed == Removed([Host EXCEPT !.peers[p].throttle = throttle], p, channel, number)
        IN  /\ peers[p].state # "GONE"
            /\ Becomes(
                 IF peers[p].state = "DISCONNECTING" /\ ~ HasOutgoing(removed.peers[p])
                 THEN [removed EXCEPT !.peers[p] = [NewPeer EXCEPT !.state = "GONE"]]
                 ELSE DisconnectIfDone(removed, p))

(* The reliable commands the other side may have received.                  *)
Attempted(peer) == {c \in ToSet(Everything(peer)) : c.attempted}

AcknowledgeAny(p) ==
    \E c \in Attempted(peers[p]) : Acknowledge(p, c.channel, c.number)

-----------------------------------------------------------------------------

(* enet_peer_disconnect_later, which may be called again.                   *)
DisconnectLater(p) ==
    /\ p \in Connected \cup Leaving
    /\ IF HasOutgoing(peers[p])
         THEN Becomes([Host EXCEPT !.peers[p].state = "DISCONNECT_LATER"])
         ELSE Becomes(PeerDisconnect(Host, p))

(* enet_peer_disconnect, also of a peer that was to be disconnected later.  *)
Disconnect(p) ==
    /\ p \in Connected \cup Leaving
    /\ Becomes([PeerDisconnect(Host, p) EXCEPT !.peers[p].cut = TRUE])

AnyPass(p) == \E times \in SUBSET TimesOf(peers[p].sent) : ServicePass(p, times)

Next ==
    \/ \E kind \in Kinds, channel \in Channels :
          \/ Broadcast(kind, channel)
          \/ \E p \in Peers : PeerSend(p, kind, channel)
    \/ \E p \in Peers :
          \/ Control(p)
          \/ AnyPass(p)
          \/ TimeOut(p)
          \/ AcknowledgeAny(p)
          \/ DisconnectLater(p)
          \/ Disconnect(p)

(* Weak fairness, with what it is to be enabled spelled out: the host is    *)
(* served also when nothing has expired, and the other side acknowledges    *)
(* what is sent to it.                                                      *)
HasWork(p) == HasOutgoing(peers[p]) /\ Passed(p, {}) # Host

Fairness ==
    \A p \in Peers :
        /\ []<>~ HasWork(p) \/ []<><<ServicePass(p, {})>>_vars
        /\ []<>(Attempted(peers[p]) = {}) \/ []<><<AcknowledgeAny(p)>>_vars

Spec == Init /\ [][Next]_vars /\ Fairness

-----------------------------------------------------------------------------

(* A packet is destroyed exactly when no command of any peer points to it:  *)
(* sent to several peers, dropped by the throttle, acknowledged late or     *)
(* thrown away with a connection.                                           *)
ReferencesExact ==
    \A k \in 1 .. Len(packets) :
        packets[k].referenceCount =
            Cardinality({c \in UNION {ToSet(Everything(peers[p])) : p \in Peers} :
                           c.packet = k})

(* What is counted in transit is the data on sentReliableCommands, of all   *)
(* channels together.                                                       *)
TransitExact ==
    \A p \in Peers :
        peers[p].state # "DISCONNECTING" => peers[p].inTransit =
            Cardinality({c \in ToSet(peers[p].sent) : c.packet # NoPacket})

(* The windows of each channel count its own unacknowledged commands, with  *)
(* all channels on the same lists and commands sent again after others of   *)
(* their window.                                                            *)
WindowsExact ==
    \A p \in Peers, c \in Channels, w \in WindowNum :
        peers[p].windows[c][w] =
            Cardinality({d \in Attempted(peers[p]) :
                           d.channel = c /\ WindowOf(Wire(d.number)) = w})

(* So neither the limit nor the windows of a channel can shrink for good.   *)
LimitsExact == TransitExact /\ WindowsExact

(* outgoingSendReliableCommands is a run of commands that were sent before, *)
(* and then those that never were in the order of their queueing: what      *)
(* ENetReliableSender takes for granted, and what the search for an         *)
(* acknowledged command, which stops at the first never sent, relies on.    *)
ExpiredFirst ==
    \A p \in Peers :
        LET list == peers[p].reliable IN
        \A i, j \in 1 .. Len(list) :
            i < j /\ ~ list[i].attempted =>
                ~ list[j].attempted /\ list[i].queueTime < list[j].queueTime

(* The throttle drops an unreliable packet as a whole or not at all: what   *)
(* the next pass drops has all the fragments of its packets.                *)
FragmentsWhole ==
    \A p \in Peers :
        LET dropped == ToSet(Pass(Host, p).dropped) IN
        \A c \in dropped :
            CountOf(c.kind) = Cardinality({d \in dropped : d.packet = c.packet})

(* Unless the application calls enet_peer_disconnect after all, a peer      *)
(* leaves DISCONNECT_LATER for DISCONNECTING only with the last             *)
(* acknowledgement, or in a pass when nothing is left to acknowledge: the   *)
(* disconnect throws away nothing queued before it, nor the bandwidth       *)
(* limits queued after it, whichever of the three places that look for the  *)
(* end finds it.                                                            *)
LaterLosesNothing ==
    [][\A p \in Peers :
          /\ peers[p].state = "DISCONNECT_LATER"
          /\ peers'[p].state = "DISCONNECTING" /\ ~ peers'[p].cut
          => IF AcknowledgeAny(p) THEN Len(Everything(peers[p])) = 1
             ELSE \A c \in ToSet(Everything(peers[p])) : ~ IsReliable(c)]_vars

(* Everything queued gets off the lists in the end, and a disconnect that   *)
(* waits for it comes, also when what it waited for was dropped: no channel *)
(* at the end of its window and no throttle holds up the others for ever.   *)
(* (MaxCommands stops the application from adding more for ever.)           *)
AllSettled ==
    []<>(\A p \in Peers :
            ~ HasOutgoing(peers[p]) /\ peers[p].state # "DISCONNECT_LATER")
=============================================================================
