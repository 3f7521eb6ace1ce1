------------------------------ MODULE ENetPeers ------------------------------
(***************************************************************************)
(* The peers of one host: their states, the queue of peers with something  *)
(* for the application, and the host's counters, under every order of API  *)
(* calls, incoming commands, timeouts and services.                        *)
(*                                                                         *)
(* A handler is an operator from the record of a peer to its new record,   *)
(* so that nested calls compose as in the code.  Of the lists of commands  *)
(* the model keeps which kinds are on them; of dispatchedCommands, how     *)
(* many packets; of the acknowledgements to send, that of a DISCONNECT.    *)
(* The host's counters and its dispatchQueue are kept by contribution:     *)
(* counted is what a peer has added to connectedPeers, queued how many     *)
(* times it is linked into dispatchQueue (in which order is left open).    *)
(***************************************************************************)
EXTENDS Integers

CONSTANTS
    Peers,        \* host->peers
    MaxWaiting,   \* bound: packets waiting on a peer's dispatchedCommands
    MaxLinks,     \* bound: links left in dispatchQueue of a peer used anew
    NullEvents,   \* whether the application passes NULL to enet_host_service
    StaleAcks,    \* whether acknowledgements of an earlier connection arrive
    LateDisconnects   \* whether the application disconnects peers TIMEDOUT

(* Where a call of enet_host_service is: "no" when the application runs;    *)
(* emptying dispatchQueue first ("dispatch") or last ("finish"); looking at *)
(* the network with an event to fill ("events") or without ("quiet").  With *)
(* an event found, what is left of the datagram of a peer is handled before *)
(* the call returns; the phase is then that peer.                           *)
Phases == {"no", "dispatch", "events", "quiet", "finish"}

ASSUME PeersAssumption ==
    /\ Peers \cap Phases = {}
    /\ MaxWaiting \in Nat
    /\ MaxLinks \in Nat
    /\ NullEvents \in BOOLEAN
    /\ StaleAcks \in BOOLEAN
    /\ LateDisconnects \in BOOLEAN

VARIABLES
    peer,      \* the record of each peer
    serving    \* the phase of the host

vars == <<peer, serving>>

States == {"DISCONNECTED", "CONNECTING", "ACKNOWLEDGING_CONNECT",
           "CONNECTION_PENDING", "CONNECTION_SUCCEEDED", "CONNECTED",
           "DISCONNECT_LATER", "DISCONNECTING", "ACKNOWLEDGING_DISCONNECT",
           "ZOMBIE", "TIMEDOUT"}

Reliable == {"CONNECT", "VERIFY_CONNECT", "DISCONNECT", "RELIABLE"}

(* RELIABLE stands for pings, packets and everything else acknowledged.     *)
Commands == Reliable \cup {"UNRELIABLE"}

NewPeer ==
    [state         |-> "DISCONNECTED",
     commands      |-> {},      \* queued, or sent and not acknowledged
     waiting       |-> 0,       \* packets on dispatchedCommands
     ackDisconnect |-> FALSE,   \* a DISCONNECT is to be acknowledged
     limited       |-> FALSE,   \* incomingBandwidth # 0
     needsDispatch |-> FALSE,   \* ENET_PEER_FLAG_NEEDS_DISPATCH
     queued        |-> 0,
     counted       |-> 0,
     limitCounted  |-> 0,
     told          |-> FALSE]   \* history: the application knows of the connection

Init ==
    /\ peer = [p \in Peers |-> NewPeer]
    /\ serving = "no"

One(b) == IF b THEN 1 ELSE 0

IsConnected(s) == s \in {"CONNECTED", "DISCONNECT_LATER"}

-----------------------------------------------------------------------------
(* States, queues and counters.                                             *)

OnConnect(r) ==
    IF IsConnected(r.state) THEN r
    ELSE [r EXCEPT !.counted = @ + 1, !.limitCounted = @ + One(r.limited)]

OnDisconnect(r) ==
    IF IsConnected(r.state)
    THEN [r EXCEPT !.counted = @ - 1, !.limitCounted = @ - One(r.limited)]
    ELSE r

ChangeState(r, s) ==
    [(IF IsConnected(s) THEN OnConnect(r) ELSE OnDisconnect(r)) EXCEPT !.state = s]

(* Mutant: the flag is not looked at.                                       *)
BugEnqueueAgain(r) == [r EXCEPT !.needsDispatch = TRUE, !.queued = @ + 1]

(* Linking a peer into dispatchQueue, unless its flag says that it is.      *)
Enqueue(r) ==
    IF r.needsDispatch THEN r
    ELSE [r EXCEPT !.needsDispatch = TRUE, !.queued = @ + 1]

DispatchState(r, s) == Enqueue(ChangeState(r, s))

ResetQueues(r) ==
    [r EXCEPT !.queued = @ - One(r.needsDispatch),
              !.needsDispatch = FALSE,
              !.commands = {},
              !.waiting = 0,
              !.ackDisconnect = FALSE]

(* Mutants: a connected peer that is reset stays counted; its limit stays.  *)
BugResetStaysCounted(r) ==
    ResetQueues([r EXCEPT !.state = "DISCONNECTED",
                          !.limited = FALSE,
                          !.needsDispatch = FALSE])

BugLimitSurvives(r) ==
    ResetQueues([OnDisconnect(r) EXCEPT !.state = "DISCONNECTED",
                                        !.needsDispatch = FALSE])

(* enet_peer_reset clears the flags before it resets the queues.            *)
ResetPeer(r) ==
    ResetQueues([OnDisconnect(r) EXCEPT !.state = "DISCONNECTED",
                                        !.limited = FALSE,
                                        !.needsDispatch = FALSE])

(* Mutants: without an event to fill, the peer connects unannounced; or it  *)
(* is not linked into dispatchQueue.                                        *)
BugConnectUnannounced(r, event) ==
    IF event THEN [ChangeState(r, "CONNECTED") EXCEPT !.told = TRUE]
    ELSE ChangeState(r, "CONNECTED")

BugConnectNotQueued(r, event) ==
    IF event THEN [ChangeState(r, "CONNECTED") EXCEPT !.told = TRUE]
    ELSE ChangeState(r, IF r.state = "CONNECTING" THEN "CONNECTION_SUCCEEDED"
                                                  ELSE "CONNECTION_PENDING")

NotifyConnect(r, event) ==
    IF event THEN [ChangeState(r, "CONNECTED") EXCEPT !.told = TRUE]
    ELSE DispatchState(r, IF r.state = "CONNECTING" THEN "CONNECTION_SUCCEEDED"
                                                    ELSE "CONNECTION_PENDING")

(* States the application is not told about when they end.                  *)
IsUnannounced(s) ==
    s \in {"DISCONNECTED", "ACKNOWLEDGING_CONNECT", "CONNECTION_PENDING"}

(* enet_protocol_notify_disconnect (s = "ZOMBIE") and                       *)
(* enet_protocol_notify_disconnect_timeout (s = "TIMEDOUT").                *)
NotifyDisconnect(r, event, s) ==
    IF IsUnannounced(r.state) THEN ResetPeer(r)
    ELSE IF event THEN [ResetPeer(r) EXCEPT !.told = FALSE]
    ELSE DispatchState(r, s)

(* Mutant: the queues are reset after the DISCONNECT was queued.            *)
BugDisconnectDropped(r) ==
    [OnDisconnect(ResetQueues(r)) EXCEPT !.state = "DISCONNECTING"]

(* enet_peer_disconnect of a connected peer.                                *)
DisconnectConnected(r) ==
    [OnDisconnect(ResetQueues(r)) EXCEPT !.commands = {"DISCONNECT"},
                                         !.state = "DISCONNECTING"]

-----------------------------------------------------------------------------
(* One peer's turn in enet_protocol_send_outgoing_commands.                 *)

IsServed(s) == s \notin {"DISCONNECTED", "TIMEDOUT", "ZOMBIE"}

(* Mutant: with its DISCONNECT acknowledged, the peer is reset at once.     *)
BugResetWhenAcknowledged(r) == IF r.ackDisconnect THEN ResetPeer(r) ELSE r

AcksSent(r) ==
    IF r.ackDisconnect
    THEN DispatchState([r EXCEPT !.ackDisconnect = FALSE], "ZOMBIE")
    ELSE r

(* What the turn may bring: the last unreliable command is sent or dropped, *)
(* an idle connection is pinged.                                            *)
Turns == SUBSET {"drained", "ping"}

Turn(r, turn) ==
    IF ~ IsServed(r.state) THEN r
    ELSE LET a == AcksSent(r)
             b == IF "drained" \in turn
                  THEN [a EXCEPT !.commands = @ \ {"UNRELIABLE"}] ELSE a
             c == IF b.state = "DISCONNECT_LATER" /\ b.commands = {}
                  THEN DisconnectConnected(b) ELSE b
         IN  IF "ping" \in turn /\ c.state = "CONNECTED"
             THEN [c EXCEPT !.commands = @ \cup {"RELIABLE"}] ELSE c

(* enet_host_flush gives every peer a turn, without looking at timeouts.    *)
Flushed(turns) == [q \in Peers |-> Turn(peer[q], turns[q])]

-----------------------------------------------------------------------------
(* The application, between two services.                                   *)

Becomes(p, r) == peer' = [peer EXCEPT ![p] = r]

IsFree(p) == peer[p].state = "DISCONNECTED" /\ peer[p].queued <= MaxLinks

HostConnect(p) ==
    /\ IsFree(p)
    /\ Becomes(p, [peer[p] EXCEPT !.state = "CONNECTING",
                                  !.commands = @ \cup {"CONNECT"}])

(* enet_peer_send and enet_peer_ping.                                       *)
PeerSend(p, kind) ==
    /\ peer[p].state = "CONNECTED"
    /\ Becomes(p, [peer[p] EXCEPT !.commands = @ \cup {kind}])

(* enet_peer_throttle_configure looks at no state; the application calls it *)
(* for a peer in use.                                                       *)
ThrottleConfigure(p) ==
    /\ peer[p].state # "DISCONNECTED"
    /\ Becomes(p, [peer[p] EXCEPT !.commands = @ \cup {"RELIABLE"}])

PeerReceive(p) ==
    /\ peer[p].waiting > 0
    /\ Becomes(p, [peer[p] EXCEPT !.waiting = @ - 1])

PeerReset(p) ==
    Becomes(p, [ResetPeer(peer[p]) EXCEPT !.told = FALSE])

PeerDisconnect(p) ==
    /\ peer[p].state \notin {"DISCONNECTING", "DISCONNECTED",
                             "ACKNOWLEDGING_DISCONNECT", "ZOMBIE"}
    /\ peer[p].state = "TIMEDOUT" => LateDisconnects
    /\ \/ /\ IsConnected(peer[p].state)
          /\ Becomes(p, DisconnectConnected(peer[p]))
       \/ /\ ~ IsConnected(peer[p].state)
          /\ \E turns \in [Peers -> Turns] :
                peer' = [Flushed(turns) EXCEPT ![p] = ResetPeer(ResetQueues(peer[p]))]

PeerDisconnectNow(p) ==
    \/ /\ peer[p].state \in {"ZOMBIE", "TIMEDOUT", "DISCONNECTING"}
       /\ PeerReset(p)
    \/ /\ peer[p].state \notin {"DISCONNECTED", "ZOMBIE", "TIMEDOUT", "DISCONNECTING"}
       /\ \E turns \in [Peers -> Turns] :
             peer' = [Flushed(turns) EXCEPT
                         ![p] = [ResetPeer(ResetQueues(peer[p])) EXCEPT !.told = FALSE]]

PeerDisconnectLater(p) ==
    IF IsConnected(peer[p].state) /\ peer[p].commands # {}
    THEN Becomes(p, [peer[p] EXCEPT !.state = "DISCONNECT_LATER"])
    ELSE PeerDisconnect(p)

HostFlush == \E turns \in [Peers -> Turns] : peer' = Flushed(turns)

ApplicationStep ==
    /\ serving = "no"
    /\ \/ \E p \in Peers :
             \/ HostConnect(p)
             \/ \E kind \in {"RELIABLE", "UNRELIABLE"} : PeerSend(p, kind)
             \/ ThrottleConfigure(p)
             \/ PeerReceive(p)
             \/ PeerReset(p)
             \/ PeerDisconnect(p)
             \/ PeerDisconnectNow(p)
             \/ PeerDisconnectLater(p)
       \/ HostFlush
    /\ UNCHANGED serving

-----------------------------------------------------------------------------
(* enet_host_service and enet_host_check_events.  With an event to fill,    *)
(* the queue is emptied before the network is looked at, and again after;   *)
(* the first event found ends the call.                                     *)

HostService(event) ==
    /\ serving = "no"
    /\ event \/ NullEvents
    /\ serving' = IF event THEN "dispatch" ELSE "quiet"
    /\ UNCHANGED peer

CheckEvents ==
    /\ serving = "no"
    /\ serving' = "finish"
    /\ UNCHANGED peer

(* One turn of the loop of enet_protocol_dispatch_incoming_commands.        *)
DispatchIncoming(p) ==
    LET r == [peer[p] EXCEPT !.queued = @ - 1, !.needsDispatch = FALSE] IN
    /\ serving \in {"dispatch", "finish"}
    /\ peer[p].queued > 0
    /\ \/ /\ r.state \in {"CONNECTION_PENDING", "CONNECTION_SUCCEEDED"}
          /\ Becomes(p, [ChangeState(r, "CONNECTED") EXCEPT !.told = TRUE])
          /\ serving' = "no"
       \/ /\ r.state \in {"TIMEDOUT", "ZOMBIE"}
          /\ Becomes(p, [ResetPeer(r) EXCEPT !.told = FALSE])
          /\ serving' = "no"
       \/ /\ r.state = "CONNECTED"
          /\ r.waiting > 0
          /\ LET taken == [r EXCEPT !.waiting = @ - 1]
             IN  Becomes(p, IF taken.waiting > 0 THEN Enqueue(taken) ELSE taken)
          /\ serving' = "no"
       \/ /\ \/ r.state = "CONNECTED" /\ r.waiting = 0
             \/ r.state \in {"DISCONNECTED", "CONNECTING", "ACKNOWLEDGING_CONNECT",
                             "DISCONNECT_LATER", "DISCONNECTING",
                             "ACKNOWLEDGING_DISCONNECT"}
          /\ Becomes(p, r)
          /\ UNCHANGED serving

DispatchDone ==
    /\ serving \in {"dispatch", "finish"}
    /\ \A p \in Peers : peer[p].queued = 0
    /\ serving' = IF serving = "dispatch" THEN "events" ELSE "no"
    /\ UNCHANGED peer

(* The service ends, or fails on its socket.                                *)
ServiceDone ==
    /\ \/ serving = "events" /\ serving' \in {"finish", "no"}
       \/ serving \in {"quiet"} \cup Peers /\ serving' = "no"
    /\ UNCHANGED peer

-----------------------------------------------------------------------------
(* The inside of a service: incoming commands, turns and timeouts.          *)

WithEvent == serving # "quiet"

(* A command of peer p is handled, and one that reports something.          *)
Handling(p) == serving \in {"events", "quiet", p}

Reports(p, r) ==
    /\ serving \in {"events", "quiet"}
    /\ Becomes(p, r)
    /\ serving' = IF WithEvent THEN p ELSE serving

Silent(p, r) == Becomes(p, r) /\ UNCHANGED serving

Polling == serving \in {"events", "quiet"}

HandleConnect(p) ==
    /\ Polling
    /\ IsFree(p)
    /\ \E limited \in BOOLEAN :
          Silent(p, [peer[p] EXCEPT !.state = "ACKNOWLEDGING_CONNECT",
                                    !.limited = limited,
                                    !.commands = @ \cup {"VERIFY_CONNECT"}])

(* Mutant: a VERIFY_CONNECT is accepted in any state.                       *)
BugVerifyAnyState(p) ==
    /\ Handling(p)
    /\ IsServed(peer[p].state)
    /\ \E limited \in BOOLEAN :
          Reports(p, NotifyConnect([peer[p] EXCEPT !.commands = @ \ {"CONNECT"},
                                                   !.limited = limited], WithEvent))

(* The acceptable VERIFY_CONNECT, and one that does not match the request.  *)
HandleVerifyConnect(p) ==
    /\ Handling(p)
    /\ peer[p].state = "CONNECTING"
    /\ \/ \E limited \in BOOLEAN :
             Reports(p, NotifyConnect([peer[p] EXCEPT !.commands = @ \ {"CONNECT"},
                                                      !.limited = limited], WithEvent))
       \/ Silent(p, DispatchState(peer[p], "ZOMBIE"))

(* A DISCONNECT, and the acknowledgement it is given when it asks for one.  *)
Disconnected(r, asksAck) ==
    LET q == ResetQueues(r) IN
    CASE r.state \in {"CONNECTION_SUCCEEDED", "DISCONNECTING", "CONNECTING"}
             -> DispatchState(q, "ZOMBIE")
      [] r.state \in {"ACKNOWLEDGING_CONNECT", "CONNECTION_PENDING"}
             -> ResetPeer(q)
      [] IsConnected(r.state) /\ asksAck
             -> [ChangeState(q, "ACKNOWLEDGING_DISCONNECT") EXCEPT !.ackDisconnect = TRUE]
      [] IsConnected(r.state) /\ ~ asksAck
             -> DispatchState(q, "ZOMBIE")
      [] r.state = "ACKNOWLEDGING_DISCONNECT"
             -> [r EXCEPT !.ackDisconnect = @ \/ asksAck]

HandleDisconnect(p) ==
    /\ Handling(p)
    /\ IsServed(peer[p].state)
    /\ \E asksAck \in BOOLEAN : Silent(p, Disconnected(peer[p], asksAck))

HandleBandwidthLimit(p) ==
    /\ Handling(p)
    /\ IsConnected(peer[p].state)
    /\ \E limited \in BOOLEAN :
          Silent(p, [peer[p] EXCEPT !.limitCounted = @ - One(peer[p].limited) + One(limited),
                                    !.limited = limited])

(* A peer that may get a packet to dispatch: in DISCONNECT_LATER only one   *)
(* whose fragments began to arrive before.                                  *)
TakesPacket(r) == IsConnected(r.state) /\ r.waiting < MaxWaiting

(* Mutant: a packet is queued without linking its peer.                     *)
BugSendNotQueued(p) ==
    /\ Handling(p)
    /\ TakesPacket(peer[p])
    /\ Silent(p, [peer[p] EXCEPT !.waiting = @ + 1])

(* A packet that can be dispatched.                                         *)
HandleSend(p) ==
    /\ Handling(p)
    /\ TakesPacket(peer[p])
    /\ Silent(p, Enqueue([peer[p] EXCEPT !.waiting = @ + 1]))

(* An acknowledgement that leaves r's lists with the given commands, having *)
(* removed one of the kind named.                                           *)
HandleAcknowledge(p) ==
    \E kind \in peer[p].commands \cap Reliable :
    \E left \in {peer[p].commands \ {kind}}
                  \cup (IF kind = "RELIABLE" THEN {peer[p].commands} ELSE {}) :
        LET r == [peer[p] EXCEPT !.commands = left] IN
        /\ Handling(p)
        /\ IsServed(r.state)
        /\ kind = "CONNECT" => StaleAcks
        /\ \/ /\ r.state = "ACKNOWLEDGING_CONNECT" /\ kind = "VERIFY_CONNECT"
              /\ Reports(p, NotifyConnect(r, WithEvent))
           \/ /\ r.state = "DISCONNECTING" /\ kind = "DISCONNECT"
              /\ Reports(p, NotifyDisconnect(r, WithEvent, "ZOMBIE"))
           \/ /\ r.state = "DISCONNECT_LATER" /\ left = {}
              /\ Silent(p, DisconnectConnected(r))
           \/ /\ ~ (r.state = "ACKNOWLEDGING_CONNECT" /\ kind = "VERIFY_CONNECT")
              /\ ~ (r.state = "DISCONNECTING" /\ kind = "DISCONNECT")
              /\ ~ (r.state = "DISCONNECT_LATER" /\ left = {})
              /\ Silent(p, r)

(* enet_host_bandwidth_throttle announces a new limit to every connected    *)
(* peer.                                                                    *)
BandwidthThrottle ==
    /\ Polling
    /\ peer' = [p \in Peers |->
                   IF IsConnected(peer[p].state)
                   THEN [peer[p] EXCEPT !.commands = @ \cup {"RELIABLE"}]
                   ELSE peer[p]]
    /\ UNCHANGED serving

ServePeer(p) ==
    /\ Polling
    /\ \E turn \in Turns : Silent(p, Turn(peer[p], turn))

(* A reliable command out for too long; reporting it ends the service.  A   *)
(* peer that acknowledges a DISCONNECT has sent none since its queues were  *)
(* reset.                                                                   *)
CheckTimeouts(p) ==
    /\ Polling
    /\ IsServed(peer[p].state)
    /\ peer[p].state # "ACKNOWLEDGING_DISCONNECT"
    /\ peer[p].commands \cap Reliable # {}
    /\ Becomes(p, NotifyDisconnect(peer[p], WithEvent, "TIMEDOUT"))
    /\ serving' = IF WithEvent /\ ~ IsUnannounced(peer[p].state) THEN "no" ELSE serving

ServiceStep ==
    \/ \E p \in Peers :
          \/ HandleConnect(p)
          \/ HandleVerifyConnect(p)
          \/ HandleDisconnect(p)
          \/ HandleBandwidthLimit(p)
          \/ HandleSend(p)
          \/ HandleAcknowledge(p)
          \/ ServePeer(p)
          \/ CheckTimeouts(p)
    \/ BandwidthThrottle

Next ==
    \/ ApplicationStep
    \/ \E event \in BOOLEAN : HostService(event)
    \/ CheckEvents
    \/ \E p \in Peers : DispatchIncoming(p)
    \/ DispatchDone
    \/ ServiceDone
    \/ ServiceStep

Spec == Init /\ [][Next]_vars

-----------------------------------------------------------------------------

PeerRecords ==
    [state : States, commands : SUBSET Commands, waiting : Nat,
     ackDisconnect : BOOLEAN, limited : BOOLEAN, needsDispatch : BOOLEAN,
     queued : Int, counted : Int, limitCounted : Int, told : BOOLEAN]

(* Every variable keeps its type.                                           *)
TypeOK ==
    /\ peer \in [Peers -> PeerRecords]
    /\ serving \in Phases \cup Peers

(* Through every way a connection begins and ends, a peer counts once in    *)
(* host->connectedPeers exactly while it is connected, and once in          *)
(* host->bandwidthLimitedPeers exactly while it has a limit, too: the       *)
(* counters the bandwidth throttle divides by neither drift nor wrap.       *)
CountedWhileConnected ==
    \A p \in Peers :
        /\ peer[p].counted = One(IsConnected(peer[p].state))
        /\ peer[p].limitCounted = One(IsConnected(peer[p].state) /\ peer[p].limited)

(* dispatchQueue is an intrusive list: a peer is linked into it once at     *)
(* most.                                                                    *)
QueuedOnce == \A p \in Peers : peer[p].queued \in 0 .. 1

(* The links of a peer in dispatchQueue that its flag does not tell of.     *)
Forgotten(r) == r.queued - One(r.needsDispatch)

(* ENET_PEER_FLAG_NEEDS_DISPATCH tells whether a peer is linked: through    *)
(* all nested calls, services cut short by an event, and connections in a   *)
(* slot that is still linked from before, no step but enet_peer_reset of a  *)
(* peer whose flag is set forgets a link, and none unlinks a peer that is   *)
(* not linked.                                                              *)
LinksRemembered ==
    [][\A p \in Peers :
          \/ Forgotten(peer[p])' \in 0 .. Forgotten(peer[p])
          \/ /\ peer[p].needsDispatch /\ peer'[p].state = "DISCONNECTED"
             /\ Forgotten(peer[p])' = Forgotten(peer[p]) + 1]_vars

(* A peer with something for the application is in dispatchQueue: nothing   *)
(* it waits for is forgotten.                                               *)
PendingIsQueued ==
    \A p \in Peers :
        \/ peer[p].state \in {"CONNECTION_PENDING", "CONNECTION_SUCCEEDED",
                              "ZOMBIE", "TIMEDOUT"}
        \/ peer[p].state = "CONNECTED" /\ peer[p].waiting > 0
        => peer[p].needsDispatch /\ peer[p].queued > 0

(* A connection the application was told of is not gone before its end has  *)
(* been reported, unless the application reset it.                          *)
EndIsReported ==
    \A p \in Peers :
        peer[p].told =>
            \/ IsConnected(peer[p].state)
            \/ peer[p].state \in {"DISCONNECTING", "ACKNOWLEDGING_DISCONNECT",
                                  "ZOMBIE", "TIMEDOUT"}

(* And nothing happens on a connection before the application was told.     *)
ConnectIsReported ==
    \A p \in Peers :
        \/ IsConnected(peer[p].state)
        \/ peer[p].state \in {"DISCONNECTING", "ACKNOWLEDGING_DISCONNECT"}
        => peer[p].told

(* The application is told of a connection first, and of its end last.      *)
EventsReported == ConnectIsReported /\ EndIsReported

(* Every state in which a peer waits for the other side has something to    *)
(* resend or to send, so that an answer or a timeout ends it.               *)
WaitingEnds ==
    \A p \in Peers :
        /\ peer[p].state = "CONNECTING" => "CONNECT" \in peer[p].commands
        /\ peer[p].state = "ACKNOWLEDGING_CONNECT" => "VERIFY_CONNECT" \in peer[p].commands
        /\ peer[p].state = "DISCONNECT_LATER" => peer[p].commands # {}
        /\ peer[p].state = "DISCONNECTING" => "DISCONNECT" \in peer[p].commands
        /\ peer[p].state = "ACKNOWLEDGING_DISCONNECT" => peer[p].ackDisconnect

(* A free peer is as new: nothing of one connection reaches the next.       *)
FreeIsClean ==
    \A p \in Peers :
        peer[p].state = "DISCONNECTED" =>
            /\ peer[p].commands = {}
            /\ peer[p].waiting = 0
            /\ ~ peer[p].ackDisconnect
            /\ ~ peer[p].limited
            /\ ~ peer[p].needsDispatch

(* A connection on its way out does not come back: it is over before the    *)
(* peer serves another.                                                     *)
Leaving(s) ==
    s \in {"DISCONNECTING", "ACKNOWLEDGING_DISCONNECT", "ZOMBIE", "TIMEDOUT"}

NoWayBack ==
    [][\A p \in Peers :
          /\ Leaving(peer[p].state) =>
                Leaving(peer[p].state)' \/ peer'[p].state = "DISCONNECTED"
          /\ peer[p].state = "DISCONNECT_LATER" => peer'[p].state # "CONNECTED"]_vars
=============================================================================
