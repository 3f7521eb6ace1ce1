--------------------------- MODULE ENetConnection ---------------------------
(***************************************************************************)
(* How two hosts come to agree that they are connected, and on what, and   *)
(* how they part: CONNECT, VERIFY_CONNECT, the acknowledgements, and       *)
(* DISCONNECT, over a network that loses, repeats and delays datagrams     *)
(* while the slots of the hosts are used for one connection after another. *)
(*                                                                         *)
(* Both hosts run the same code; Clients says which of them call           *)
(* enet_host_connect.  ENetPeers has what one host does with arbitrary     *)
(* commands, and the ways its services report it; here services are given  *)
(* an event, and commands are those the other host really sent.  Of pings  *)
(* only the effect is here that a connected peer may time out at any time. *)
(***************************************************************************)
EXTENDS Integers, FiniteSets

CONSTANTS
    Hosts,           \* the two hosts
    Clients,         \* those that call enet_host_connect
    PeerCount,       \* host->peerCount of each host
    ChannelLimit,    \* host->channelLimit
    AskedChannels,   \* the channelCount of enet_host_connect
    Mtu,             \* host->mtu of each host
    Incoming,        \* host->incomingBandwidth of each host, 0 for no limit,
    Outgoing,        \* and outgoingBandwidth, in ENET_PEER_WINDOW_SIZE_SCALEs
    MaxWindow,       \* ENET_PROTOCOL_MAXIMUM_WINDOW_SIZE, in minimum ones
    DuplicatePeers,  \* host->duplicatePeers
    Sessions,        \* session ids in a header: (SESSION_MASK >> SHIFT) + 1
    MaxUses,         \* bound: how often a slot is taken into use
    Lifetime         \* bound: a datagram is gone when so many more were taken

NoPeerID == 4095     \* ENET_PROTOCOL_MAXIMUM_PEER_ID

ASSUME ConnectionAssumption ==
    /\ \E a, b \in Hosts : a # b /\ Hosts = {a, b}
    /\ Clients \subseteq Hosts
    /\ {ChannelLimit, AskedChannels, DuplicatePeers, Sessions,
        MaxUses, Lifetime} \subseteq Nat
    /\ MaxWindow \in Nat \ {0}
    /\ PeerCount \in [Hosts -> 0 .. NoPeerID]
    /\ {Mtu, Incoming, Outgoing} \subseteq [Hosts -> Nat]

VARIABLES
    peers,       \* peers[h][s]: slot s of host h
    network,     \* the datagrams sent that may still arrive, once or more
    uses,        \* how often a slot of either host was taken into use
    accepted     \* the connections whose VERIFY_CONNECT was accepted

vars == <<peers, network, uses, accepted>>

Slots(h) == 0 .. PeerCount[h] - 1

Other(h) == CHOOSE g \in Hosts : g # h

NoSession == 255     \* the session ids of a slot never used
NoConnection == 0
NoLimits == [channels |-> 0, mtu |-> 0, window |-> 0]    \* set by each connection

(* Mutant: a slot forgets its session ids.                                  *)
BugReset(peer) ==
    [state |-> "DISCONNECTED", connectID |-> NoConnection, outgoingPeerID |-> NoPeerID,
     incomingSessionID |-> NoSession, outgoingSessionID |-> NoSession,
     used |-> peer.used, partner |-> 0, number |-> 0, outgoing |-> {},
     acknowledgements |-> {},
     limits |-> NoLimits]

(* enet_peer_reset.  The session ids stay.                                  *)
Reset(peer) ==
    [state             |-> "DISCONNECTED",
     connectID         |-> NoConnection,
     outgoingPeerID    |-> NoPeerID,
     incomingSessionID |-> peer.incomingSessionID,
     outgoingSessionID |-> peer.outgoingSessionID,
     used              |-> peer.used,    \* not in the code: how often it was,
     partner           |-> 0,            \* and the other slot when they met
     number            |-> 0,     \* outgoingReliableSequenceNumber
     outgoing          |-> {},    \* the commands sent till acknowledged
     acknowledgements  |-> {},    \* the commands to acknowledge
     limits            |-> NoLimits]

(* enet_host_create.                                                        *)
Unused == [incomingSessionID |-> NoSession, outgoingSessionID |-> NoSession, used |-> 0]

Init ==
    /\ peers = [h \in Hosts |-> [s \in Slots(h) |-> Reset(Unused)]]
    /\ network = {}
    /\ uses = 0
    /\ accepted = {}

-----------------------------------------------------------------------------

(* enet_peer_queue_outgoing_command of a command to be acknowledged.        *)
Queued(peer, kind, data) ==
    [peer EXCEPT !.number = @ + 1,
                 !.outgoing = @ \cup {[kind |-> kind, number |-> peer.number + 1,
                                       data |-> data]}]

NoData == <<>>

(* A datagram with one command.  The header has the slot and the session of *)
(* the other side, as far as they are known.                                *)
Datagram(h, s, command) ==
    LET peer == peers[h][s] IN
    [to        |-> Other(h),
     peerID    |-> peer.outgoingPeerID,
     sessionID |-> IF peer.outgoingPeerID = NoPeerID THEN 0 ELSE peer.outgoingSessionID,
     command   |-> command,
     \* not on the wire:
     from |-> s, connectID |-> peer.connectID, used |-> peer.used,
     partner |-> peer.partner, sentAt |-> uses]

Least(m, n) == IF m < n THEN m ELSE n

(* The windowSize a bandwidth allows, in ENET_PROTOCOL_MINIMUM_WINDOW_SIZEs.*)
WindowOf(bandwidth) ==
    IF bandwidth = 0 \/ bandwidth > MaxWindow THEN MaxWindow ELSE bandwidth

(* Another slot is taken, and what has been under way for too long is gone. *)
UseSlot ==
    /\ uses < MaxUses
    /\ uses' = uses + 1
    /\ network' = {d \in network : uses + 1 <= d.sentAt + Lifetime}

(* enet_host_connect, for the slot it takes.                                *)
Begun(h, peer, s, c) ==
    LET limits == [channels |-> AskedChannels, mtu |-> Mtu[h],
                   window |-> WindowOf(Outgoing[h])]
    IN  Queued([peer EXCEPT !.state = "CONNECTING",
                            !.connectID = c,
                            !.used = @ + 1,
                            !.limits = limits],
               "CONNECT",
               [outgoingPeerID    |-> s,
                incomingSessionID |-> peer.incomingSessionID,
                outgoingSessionID |-> peer.outgoingSessionID,
                limits            |-> limits,
                incomingBandwidth |-> Incoming[h],
                connectID         |-> c])

Connect(h, s) ==
    /\ h \in Clients
    /\ peers[h][s].state = "DISCONNECTED"
    /\ \A t \in 0 .. s - 1 : peers[h][t].state # "DISCONNECTED"
    /\ UseSlot
    /\ peers' = [peers EXCEPT ![h][s] = Begun(h, @, s, uses + 1)]
    /\ UNCHANGED accepted

(* A pass of enet_protocol_send_outgoing_commands: acknowledgements, and    *)
(* the commands not acknowledged, for the first time or again.  With the    *)
(* acknowledgement of its DISCONNECT the peer is done.                      *)
Transmit(h, s) ==
    LET peer == peers[h][s]
        acks == {[kind |-> "ACKNOWLEDGE", number |-> c.number, data |-> NoData] :
                    c \in peer.acknowledgements}
    IN  /\ peer.state \notin {"DISCONNECTED", "ZOMBIE"}
        /\ acks \cup peer.outgoing # {}
        /\ network' = network \cup {Datagram(h, s, c) : c \in acks \cup peer.outgoing}
        /\ peers' = [peers EXCEPT ![h][s].acknowledgements = {},
                                  ![h][s].state =
                        IF \E c \in peer.acknowledgements : c.kind = "DISCONNECT"
                        THEN "ZOMBIE" ELSE @]
        /\ UNCHANGED <<uses, accepted>>

(* enet_peer_disconnect.  Before the connection stands, and by              *)
(* enet_peer_disconnect_now, the DISCONNECT is sent once and for all.       *)
ResetQueues(peer) == [peer EXCEPT !.outgoing = {}, !.acknowledgements = {}]

Disconnect(h, s) ==
    /\ peers[h][s].state = "CONNECTED"
    /\ peers' = [peers EXCEPT ![h][s] =
          [Queued(ResetQueues(@), "DISCONNECT", NoData) EXCEPT !.state = "DISCONNECTING"]]
    /\ UNCHANGED <<network, uses, accepted>>

DisconnectNow(h, s) ==
    /\ peers[h][s].state \in {"CONNECTING", "ACKNOWLEDGING_CONNECT", "CONNECTED",
                              "ACKNOWLEDGING_DISCONNECT"}
    /\ network' = network \cup
          {Datagram(h, s, [kind |-> "DISCONNECT_NOW", number |-> 0, data |-> NoData])}
    /\ peers' = [peers EXCEPT ![h][s] = Reset(@)]
    /\ UNCHANGED <<uses, accepted>>

(* enet_protocol_check_timeouts giving a peer up: a command is not          *)
(* acknowledged, of a connected peer perhaps a ping.  enet_peer_reset by    *)
(* the application, and the dispatch of a ZOMBIE.                           *)
TimeOut(h, s) ==
    /\ \/ peers[h][s].state = "CONNECTED"
       \/ peers[h][s].state # "ZOMBIE" /\ peers[h][s].outgoing # {}
    /\ peers' = [peers EXCEPT ![h][s] = Reset(@)]
    /\ UNCHANGED <<network, uses, accepted>>

PeerReset(h, s) ==
    /\ peers[h][s].state # "DISCONNECTED"
    /\ peers' = [peers EXCEPT ![h][s] = Reset(@)]
    /\ UNCHANGED <<network, uses, accepted>>

Dispatch(h, s) ==
    /\ peers[h][s].state = "ZOMBIE"
    /\ peers' = [peers EXCEPT ![h][s] = Reset(@)]
    /\ UNCHANGED <<network, uses, accepted>>

-----------------------------------------------------------------------------
(* The handlers, as operators from the slot to what becomes of it.          *)

(* Mutant: the session is that of the last connection.                      *)
BugNextSession(asked, own) == IF asked = NoSession THEN 0 ELSE asked

(* The session id of a new connection: after the one the slot of the other  *)
(* side had, and not the one this slot had.                                 *)
NextSession(asked, own) ==
    LET last == IF asked = NoSession THEN own ELSE asked
        next == (last + 1) % Sessions
    IN  IF next = own THEN (next + 1) % Sessions ELSE next

(* Mutant: what the other side can take is forgotten.                       *)
BugAccepted(h, asked, bandwidth) ==
    [channels |-> Least(asked.channels, ChannelLimit),
     mtu      |-> Least(asked.mtu, Mtu[h]),
     window   |-> WindowOf(Outgoing[h])]

(* The limits of a new connection: windowSize of the slot by the bandwidth  *)
(* from here to there, and the one answered by the bandwidth back.          *)
Accepted(h, asked, bandwidth) ==
    [channels |-> Least(asked.channels, ChannelLimit),
     mtu      |-> Least(asked.mtu, Mtu[h]),
     window   |-> WindowOf(IF 0 \in {Outgoing[h], bandwidth}
                             THEN Outgoing[h] + bandwidth
                             ELSE Least(Outgoing[h], bandwidth))]

(* enet_protocol_handle_connect, for the slot it takes.                     *)
HandleConnect(h, peer, s, c) ==
    LET incoming == NextSession(c.incomingSessionID, peer.outgoingSessionID)
        outgoing == NextSession(c.outgoingSessionID, peer.incomingSessionID)
        limits   == Accepted(h, c.limits, c.incomingBandwidth)
    IN  Queued([peer EXCEPT
                  !.state = "ACKNOWLEDGING_CONNECT",
                  !.connectID = c.connectID,
                  !.used = @ + 1,
                  !.outgoingPeerID = c.outgoingPeerID,
                  !.outgoingSessionID = incoming,
                  !.incomingSessionID = outgoing,
                  !.limits = limits],
               "VERIFY_CONNECT",
               [outgoingPeerID    |-> s,
                incomingSessionID |-> incoming,
                outgoingSessionID |-> outgoing,
                limits            |-> [limits EXCEPT !.window =
                                         Least(WindowOf(Incoming[h]), c.limits.window)],
                connectID         |-> c.connectID])

(* Mutant: a duplicate is looked for among the connected peers only.        *)
BugDuplicates(slots) == {s \in DOMAIN slots : slots[s].state = "CONNECTED"}

(* The peers at the address of a CONNECT, which is always that of the other *)
(* host, but for those that do not have an answer from there.               *)
Duplicates(slots) ==
    {s \in DOMAIN slots : slots[s].state \notin {"DISCONNECTED", "CONNECTING"}}

ReceiveConnect(h, d) ==
    LET c == d.command.data
        free == {s \in Slots(h) : peers[h][s].state = "DISCONNECTED"}
        duplicates == Duplicates(peers[h])
    IN  /\ UseSlot
        /\ \A s \in duplicates : peers[h][s].connectID # c.connectID
        /\ Cardinality(duplicates) < DuplicatePeers
        /\ \E s \in free :
              /\ \A t \in free : s <= t
              /\ peers' = [peers EXCEPT ![h][s] =
                    [HandleConnect(h, @, s, c) EXCEPT !.partner = d.used]]

(* enet_protocol_remove_sent_reliable_command.                              *)
Found(peer, number) == {d \in peer.outgoing : d.number = number}

(* Mutant: the connectID is not compared.                                   *)
BugIsVerified(peer, c) == TRUE

IsVerified(peer, c) == c.connectID = peer.connectID

(* enet_protocol_handle_verify_connect.                                     *)
HandleVerifyConnect(peer, c) ==
    IF peer.state # "CONNECTING" THEN peer
    ELSE IF ~ IsVerified(peer, c) THEN [peer EXCEPT !.state = "ZOMBIE"]
    ELSE [peer EXCEPT
            !.state = "CONNECTED",
            !.outgoing = @ \ Found(peer, 1),
            !.outgoingPeerID = c.outgoingPeerID,
            !.incomingSessionID = c.incomingSessionID,
            !.outgoingSessionID = c.outgoingSessionID,
            !.limits = [channels |-> Least(@.channels, c.limits.channels),
                        mtu      |-> Least(@.mtu, c.limits.mtu),
                        window   |-> Least(@.window, c.limits.window)]]

(* enet_protocol_handle_disconnect.                                         *)
HandleDisconnect(peer, c) ==
    CASE peer.state = "ACKNOWLEDGING_DISCONNECT" -> peer
      [] peer.state \in {"DISCONNECTING", "CONNECTING"} ->
            [ResetQueues(peer) EXCEPT !.state = "ZOMBIE"]
      [] peer.state = "ACKNOWLEDGING_CONNECT" -> Reset(peer)
      [] peer.state = "CONNECTED" ->
            [ResetQueues(peer) EXCEPT !.state =
                IF c.kind = "DISCONNECT" THEN "ACKNOWLEDGING_DISCONNECT" ELSE "ZOMBIE"]

(* enet_protocol_handle_acknowledge: a command with the number is removed;  *)
(* two of them are what the peer was waiting for.                           *)
HandleAcknowledge(peer, c) ==
    LET found == Found(peer, c.number)
        removed == [peer EXCEPT !.outgoing = @ \ found]
    IN  CASE peer.state = "ACKNOWLEDGING_CONNECT" /\ \E d \in found : d.kind = "VERIFY_CONNECT" ->
                [removed EXCEPT !.state = "CONNECTED"]
          [] peer.state = "DISCONNECTING" /\ \E d \in found : d.kind = "DISCONNECT" ->
                Reset(removed)
          [] OTHER -> removed

(* Mutant: a peer on its way out acknowledges nothing.                      *)
BugAcknowledged(peer, c) ==
    IF peer.state \in {"CONNECTING", "CONNECTED"}
    THEN [peer EXCEPT !.acknowledgements = @ \cup {[kind |-> c.kind, number |-> c.number]}]
    ELSE peer

(* What becomes of a reliable command after its handler.                    *)
Acknowledged(peer, c) ==
    IF \/ peer.state \in {"CONNECTING", "CONNECTED"}
       \/ peer.state = "ACKNOWLEDGING_DISCONNECT" /\ c.kind = "DISCONNECT"
    THEN [peer EXCEPT !.acknowledgements = @ \cup {[kind |-> c.kind, number |-> c.number]}]
    ELSE peer

(* The handler of a command and what follows it; one that fails also ends   *)
(* the datagram.                                                            *)
Handled(peer, c) ==
    CASE c.kind = "VERIFY_CONNECT" -> Acknowledged(HandleVerifyConnect(peer, c.data), c)
      [] c.kind = "DISCONNECT"     -> Acknowledged(HandleDisconnect(peer, c), c)
      [] c.kind = "DISCONNECT_NOW" -> HandleDisconnect(peer, c)
      [] c.kind = "ACKNOWLEDGE"    -> HandleAcknowledge(peer, c)
      [] OTHER -> peer

(* Mutant: the session is not looked at.                                    *)
BugAccepts(peer, d) == peer.state \notin {"DISCONNECTED", "ZOMBIE"}

(* enet_protocol_handle_incoming_commands on the header.                    *)
Accepts(peer, d) ==
    /\ peer.state \notin {"DISCONNECTED", "ZOMBIE"}
    /\ peer.outgoingPeerID # NoPeerID => d.sessionID = peer.incomingSessionID

Receive(d) ==
    LET peer == peers[d.to][d.peerID]
        handled == Handled(peer, d.command)
        isMet == peer.state = "CONNECTING" /\ handled.state = "CONNECTED"
    IN  IF d.peerID = NoPeerID
          THEN /\ d.command.kind = "CONNECT"
               /\ ReceiveConnect(d.to, d)
               /\ UNCHANGED accepted
          ELSE /\ Accepts(peer, d)
               /\ peers' = [peers EXCEPT ![d.to][d.peerID] =
                     IF isMet THEN [handled EXCEPT !.partner = d.used] ELSE handled]
               /\ accepted' = IF isMet THEN accepted \cup {peer.connectID} ELSE accepted
               /\ UNCHANGED <<network, uses>>

Next ==
    \/ \E h \in Hosts : \E s \in Slots(h) :
          \/ Connect(h, s)
          \/ Transmit(h, s)
          \/ Disconnect(h, s)
          \/ DisconnectNow(h, s)
          \/ TimeOut(h, s)
          \/ PeerReset(h, s)
          \/ Dispatch(h, s)
    \/ \E d \in network : Receive(d)

(* Both hosts are served: what waits is sent, a command that is never       *)
(* acknowledged is given up, an end is reported.                            *)
Fairness ==
    \A h \in Hosts : \A s \in Slots(h) :
        /\ WF_vars(Transmit(h, s))
        /\ WF_vars(peers[h][s].outgoing # {} /\ TimeOut(h, s))
        /\ WF_vars(Dispatch(h, s))

Spec == Init /\ [][Next]_vars /\ Fairness

-----------------------------------------------------------------------------

Standing == {"CONNECTED", "DISCONNECTING", "ACKNOWLEDGING_DISCONNECT"}

(* The two ends of a connection agree: each knows the slot of the other,    *)
(* sends the session the other expects, has as many channels and the same   *)
(* mtu, and no more data in transit than the other can take.                *)
EndsAgree ==
    \A g, h \in Hosts : \A s \in Slots(g), t \in Slots(h) :
        LET p == peers[g][s]  q == peers[h][t] IN
        /\ g # h /\ p.connectID # NoConnection /\ p.connectID = q.connectID
        /\ p.state \in Standing /\ q.state \in Standing
        => /\ p.outgoingPeerID = t /\ q.outgoingPeerID = s
           /\ p.outgoingSessionID = q.incomingSessionID
           /\ q.outgoingSessionID = p.incomingSessionID
           /\ p.limits.channels = q.limits.channels
           /\ p.limits.mtu = q.limits.mtu
           /\ p.limits.window <= WindowOf(Incoming[h])
           /\ q.limits.window <= WindowOf(Incoming[g])

IsNextTo(m, n) == m \in n - 1 .. n + 1

(* A slot that knows the other side takes no datagram of the connections    *)
(* before and after this one, of both their slots, for one of its own,      *)
(* however often a CONNECT was repeated.                                    *)
NeighboursRefused ==
    \A d \in network :
        d.peerID # NoPeerID =>
           LET peer == peers[d.to][d.peerID] IN
           /\ Accepts(peer, d)
           /\ peer.outgoingPeerID = d.from
           /\ IsNextTo(d.used, peer.partner)
           /\ IsNextTo(d.partner, peer.used)
           => d.connectID = peer.connectID

(* An acknowledgement that a slot takes for one of its VERIFY_CONNECT is by *)
(* the other end of this very use of the slot.                              *)
OwnAcknowledgements ==
    \A d \in network :
        d.peerID # NoPeerID /\ d.command.kind = "ACKNOWLEDGE" =>
           LET peer == peers[d.to][d.peerID] IN
           /\ Accepts(peer, d)
           /\ peer.state = "ACKNOWLEDGING_CONNECT"
           => d.connectID = peer.connectID /\ d.partner = peer.used

(* What is left in the network of another connection is refused where it    *)
(* would do harm.                                                           *)
LastConnectionRefused == NeighboursRefused /\ OwnAcknowledgements

(* A host is connected only by a connection the other one wanted and got an *)
(* answer for, and has one slot for it: a CONNECT that is repeated, or comes*)
(* late, never becomes a connection of its own.                             *)
ConnectedOnce ==
    \A h \in Hosts : \A s \in Slots(h) :
        LET peer == peers[h][s] IN
        /\ peer.state = "CONNECTED" => peer.connectID \in accepted
        /\ \A t \in Slots(h) \ {s} :
              peer.connectID = peers[h][t].connectID => peer.connectID = NoConnection

(* However calls, losses, late and repeated datagrams meet, no peer stays   *)
(* for ever in a state it should only pass through.                         *)
Settles ==
    <>[](\A h \in Hosts : \A s \in Slots(h) :
            peers[h][s].state \in {"DISCONNECTED", "CONNECTED"})
=============================================================================
