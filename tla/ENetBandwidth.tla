--------------------------- MODULE ENetBandwidth ----------------------------
(***************************************************************************)
(* How a host shares its bandwidth among its peers: the limit on the part  *)
(* of unreliable packets that each peer is sent, and the share of the      *)
(* host's own incoming bandwidth that each peer is told to keep to.        *)
(*                                                                         *)
(* Bandwidths are for an interval: 0 is none known, and no limit.  All     *)
(* numbers are unsigned words, and products and differences wrap.          *)
(***************************************************************************)
EXTENDS Integers, FiniteSetsExt

CONSTANTS
    Peers,
    HostBandwidths,     \* what the host's bandwidths may be
    Incoming,           \* and the incoming ones of peers
    Outgoing,           \* and the outgoing ones
    Data,               \* what may have been sent to a peer in a round
    Acceleration,       \* packetThrottleAcceleration: 2 at first, changed by
    Deceleration,       \* enet_peer_throttle_configure, as the other one
    Interval,           \* ENET_HOST_BANDWIDTH_THROTTLE_INTERVAL   (1000)
    Elapsed,            \* the times that may pass between two rounds
    Word,               \* 2^32
    LateDispatch,       \* whether rounds pass before a connection made in
                        \* a service without event is dispatched
    MaxChanges          \* bound: steps other than rounds

ASSUME BandwidthAssumption ==
    /\ HostBandwidths \union Incoming \union Outgoing \union Data
           \union {Acceleration, Deceleration} \subseteq Nat
    /\ Interval \in Nat \ {0}
    /\ \A time \in Elapsed : time \in Nat /\ time >= Interval
    /\ Word \in Nat /\ Word > 0
    /\ LateDispatch \in BOOLEAN
    /\ MaxChanges \in Nat

VARIABLES
    host,       \* its bandwidths, and recalculateBandwidthLimits
    peer,
    round,      \* what was sent before the round that has just ended
    changes

vars == <<host, peer, round, changes>>

Scale == 32     \* ENET_PEER_PACKET_THROTTLE_SCALE

NoRound == [elapsed |-> 0]
Connected == { p \in Peers : peer[p].state = "connected" }

Absent == [state |-> "absent", incoming |-> 0, outgoing |-> 0,
           limit |-> Scale, throttle |-> Scale, told |-> 0]

Lesser(a, b) == IF a < b THEN a ELSE b

\* Unsigned words.
Times(a, b) == (a * b) % Word
Minus(a, b) == (a - b) % Word

-----------------------------------------------------------------------------
\* A peer that has just connected to host h.
Present(h, state, incoming, outgoing) ==
    [Absent EXCEPT !.state = state, !.incoming = incoming,
                   !.outgoing = outgoing, !.told = h.incoming]

\* Some have connected, and no round has been since.
Init ==
    /\ host \in [incoming : HostBandwidths, outgoing : HostBandwidths,
                 recalculate : {TRUE}]
    /\ \E first \in SUBSET Peers :
           \E incoming \in [first -> Incoming],
              outgoing \in [first -> Outgoing] :
               peer = [p \in Peers |->
                          IF p \notin first THEN Absent
                          ELSE Present(host, "connected", incoming[p],
                                       outgoing[p])]
    /\ round = NoRound
    /\ changes = 0

Change ==
    /\ changes < MaxChanges
    /\ changes' = changes + 1
    /\ round' = NoRound

(***************************************************************************)
(* A connection is made: it counts at once when there is an event to fill, *)
(* or when it is dispatched.  The handshake has told each side the other's *)
(* bandwidths.                                                             *)
(***************************************************************************)
Connect(p, incoming, outgoing, state) ==
    /\ Change
    /\ peer[p].state = "absent"
    /\ host' = [host EXCEPT !.recalculate = TRUE]
    /\ peer' = [peer EXCEPT ![p] = Present(host, state, incoming, outgoing)]

Dispatch(p) ==
    /\ Change
    /\ peer[p].state = "pending"
    /\ peer' = [peer EXCEPT ![p].state = "connected"]
    /\ UNCHANGED host

\* At the other end or by timeout, or with enet_peer_reset.
Disconnect(p, isReset) ==
    /\ Change
    /\ peer[p].state = "connected"
    /\ peer' = [peer EXCEPT ![p] = Absent]
    /\ host' = [host EXCEPT !.recalculate = @ \/ ~isReset]

\* enet_host_bandwidth_limit
BandwidthLimit(incoming, outgoing) ==
    /\ Change
    /\ host' = [incoming |-> incoming, outgoing |-> outgoing,
                recalculate |-> TRUE]
    /\ UNCHANGED peer

\* enet_protocol_handle_bandwidth_limit
HandleBandwidthLimit(p, incoming, outgoing) ==
    /\ Change
    /\ p \in Connected
    /\ peer' = [peer EXCEPT ![p].incoming = incoming,
                            ![p].outgoing = outgoing]
    /\ UNCHANGED host

\* Mutant: the throttle grows past its limit.
BugThrottled(at, trip) ==
    CASE trip = "steady" -> at.limit
      [] trip = "shorter" -> Lesser(at.throttle + Acceleration, Scale)
      [] trip = "longer" -> IF at.throttle > Deceleration
                            THEN at.throttle - Deceleration ELSE 0

(***************************************************************************)
(* enet_peer_throttle: the round trips are steady, or one was shorter, or  *)
(* longer, than those before.                                              *)
(***************************************************************************)
Throttled(at, trip) ==
    CASE trip = "steady" -> at.limit
      [] trip = "shorter" -> Lesser(at.throttle + Acceleration, at.limit)
      [] trip = "longer" -> IF at.throttle > Deceleration
                            THEN at.throttle - Deceleration ELSE 0

RoundTrip(p, trip) ==
    /\ changes < MaxChanges
    /\ changes' = changes + 1
    /\ p \in Connected
    /\ peer' = [peer EXCEPT ![p].throttle = Throttled(peer[p], trip)]
    /\ UNCHANGED <<host, round>>

-----------------------------------------------------------------------------
(***************************************************************************)
(* The part of data that fits into a bandwidth.                            *)
(***************************************************************************)
Part(bandwidth, data) ==
    IF data <= bandwidth THEN Scale ELSE Times(bandwidth, Scale) \div data

\* What a bandwidth is for the time that has passed.
During(elapsed, bandwidth) == Times(bandwidth, elapsed) \div Interval

\* The peers, of those left, that cannot take their part.
TooMuch(share, data, elapsed) ==
    { p \in Connected \ share.settled :
        /\ peer[p].incoming # 0
        /\ Times(Part(share.bandwidth, share.data), data[p]) \div Scale
               > During(elapsed, peer[p].incoming) }

(***************************************************************************)
(* Mutant: what a slow peer takes is left to the others.                   *)
(***************************************************************************)
BugTakenOut(share, slow, elapsed) ==
    [share EXCEPT
        !.settled = @ \union slow,
        !.data = Minus(@, MapThenSumSet(LAMBDA p :
                                 During(elapsed, peer[p].incoming), slow))]

TakenOut(share, slow, elapsed) ==
    LET taken == MapThenSumSet(LAMBDA p : During(elapsed, peer[p].incoming),
                               slow)
    IN  [settled |-> share.settled \union slow,
         bandwidth |-> Minus(share.bandwidth, taken),
         data |-> Minus(share.data, taken)]

(***************************************************************************)
(* Mutant: bandwidthLimitedPeers does not count the slow peers.            *)
(***************************************************************************)
BugSettled(share, data, elapsed) == share

(***************************************************************************)
(* In rounds, the slow peers get what they can take.  As this is taken     *)
(* from the data left, instead of their data, the part left for the others *)
(* gets smaller.                                                           *)
(***************************************************************************)
RECURSIVE Settled(_, _, _)
Settled(share, data, elapsed) ==
    LET slow == TooMuch(share, data, elapsed)
    IN  IF slow = {} THEN share
        ELSE Settled(TakenOut(share, slow, elapsed), data, elapsed)

Limited(at, limit) ==
    [at EXCEPT !.limit = limit, !.throttle = Lesser(@, limit)]

\* The limits for packets to each peer.
LimitedPeers(data, elapsed) ==
    LET sum == MapThenSumSet(LAMBDA p : data[p], Connected) % Word
        all == IF host.outgoing = 0
               THEN [settled |-> {}, bandwidth |-> Word - 1, data |-> Word - 1]
               ELSE [settled |-> {}, data |-> sum,
                     bandwidth |-> During(elapsed, host.outgoing)]
        share == Settled(all, data, elapsed)
        own(p) == Times(During(elapsed, peer[p].incoming), Scale) \div data[p]
    IN  [p \in Peers |->
            IF p \notin Connected THEN peer[p]
            ELSE IF p \in share.settled
            THEN Limited(peer[p], IF own(p) = 0 THEN 1 ELSE own(p))
            ELSE Limited(peer[p], Part(share.bandwidth, share.data))]

-----------------------------------------------------------------------------
(***************************************************************************)
(* Mutant: the slow peers' shares are not taken from the others'.          *)
(***************************************************************************)
BugLeft(share, slow) == share.bandwidth

Left(share, slow) ==
    Minus(share.bandwidth,
          MapThenSumSet(LAMBDA p : peer[p].outgoing, slow))

\* In rounds, equal shares for those that can use them.
RECURSIVE Shared(_)
Shared(share) ==
    LET remaining == Connected \ share.settled
        limit == share.bandwidth \div Cardinality(remaining)
        slow == { p \in remaining :
                    peer[p].outgoing = 0 \/ peer[p].outgoing < limit }
    IN  IF remaining = {} THEN share
        ELSE IF slow = {} THEN [share EXCEPT !.limit = limit]
        ELSE Shared([settled |-> share.settled \union slow,
                     bandwidth |-> Left(share, slow), limit |-> limit])

\* What each peer is told with BANDWIDTH_LIMIT.
Told(p) ==
    LET share == Shared([settled |-> {}, bandwidth |-> host.incoming,
                         limit |-> 0])
    IN  IF host.incoming = 0 THEN 0
        ELSE IF p \in share.settled THEN peer[p].outgoing ELSE share.limit

(***************************************************************************)
(* enet_host_bandwidth_throttle after some time, in which each peer has    *)
(* been sent data.                                                         *)
(***************************************************************************)
BandwidthThrottle(data, elapsed) ==
    LET limited == LimitedPeers(data, elapsed)
    IN  /\ Connected # {}
        /\ (\E p \in Peers : peer[p].state = "pending") => LateDispatch
        /\ round' = [elapsed |-> elapsed, data |-> data]
        /\ peer' = [p \in Peers |->
                       IF host.recalculate /\ p \in Connected
                       THEN [limited[p] EXCEPT !.told = Told(p)]
                       ELSE limited[p]]
        /\ host' = [host EXCEPT !.recalculate = FALSE]
        /\ UNCHANGED changes

Next ==
    \/ \E p \in Peers, incoming \in Incoming, outgoing \in Outgoing,
          state \in {"pending", "connected"} :
           Connect(p, incoming, outgoing, state)
    \/ \E p \in Peers : Dispatch(p)
    \/ \E p \in Peers, isReset \in BOOLEAN : Disconnect(p, isReset)
    \/ \E incoming, outgoing \in HostBandwidths :
           BandwidthLimit(incoming, outgoing)
    \/ \E p \in Peers, incoming \in Incoming, outgoing \in Outgoing :
           HandleBandwidthLimit(p, incoming, outgoing)
    \/ \E p \in Peers, trip \in {"steady", "shorter", "longer"} :
           RoundTrip(p, trip)
    \/ \E data \in [Peers -> Data], elapsed \in Elapsed :
           /\ \A p \in Peers \ Connected : data[p] = 0
           /\ BandwidthThrottle(data, elapsed)

Spec == Init /\ [][Next]_vars

-----------------------------------------------------------------------------
\* What peer p would have been sent of its data with its throttle, or with
\* the most that it may become.
Allowed(p) ==
    LET most == IF peer[p].limit > peer[p].throttle THEN peer[p].limit
                                                    ELSE peer[p].throttle
    IN  (most * round.data[p]) \div Scale

(***************************************************************************)
(* The throttles, as round trips change them, keep what is sent to all     *)
(* peers within the host's outgoing bandwidth, when all send as much again *)
(* as in the round before: shares given to slow peers and to the others    *)
(* together, with the exact bandwidths and no wrap of the words that they  *)
(* are computed with.  And no peer is sent more than it can take, whether  *)
(* the host has a limit or not, and whatever is left when others have been *)
(* given their limits.  A limit of 1, which a peer gets that could take    *)
(* nothing, is not counted.                                                *)
(***************************************************************************)
OutgoingFits ==
    LET limited == { p \in Connected : peer[p].limit > 1 }
        exact(bandwidth) == (bandwidth * round.elapsed) \div Interval
    IN  round # NoRound =>
        /\ host.outgoing # 0 =>
              MapThenSumSet(Allowed, limited) <= exact(host.outgoing)
        /\ \A p \in limited :
              \/ peer[p].incoming = 0
              \/ Allowed(p) <= exact(peer[p].incoming)

(***************************************************************************)
(* "to ensure the host's bandwidth is not overwhelmed" (host.c:23): after  *)
(* a round, what the peers have been told to keep to fits into the host's  *)
(* incoming bandwidth, through all connections, disconnections and changes *)
(* of bandwidths at either end; none of them was told 0, that is no limit. *)
(***************************************************************************)
IncomingFits ==
    round # NoRound /\ host.incoming # 0 =>
        /\ \A p \in Connected : peer[p].told # 0
        /\ MapThenSumSet(LAMBDA p : peer[p].told, Connected)
               <= host.incoming
=============================================================================
