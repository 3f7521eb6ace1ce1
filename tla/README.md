# A verification development for ENet6

ENet6 puts reliable, ordered and fragmented packets on top of UDP. This directory
holds TLA+ models of its protocol, the TLC configurations that check them on small
instances, and TLAPS proofs of what holds for every size of the instance. Every
definition was written from the source; `PROJECT.json` says for each one which
lines it stands for (`map`), and lists runs, mutants, findings, hazards and
theorems.

    tlc -workers 2 -config MCReliableWrap.cfg MCENetReliable     # one run
    tlapm ENetReliableSenderProofs.tla                           # one module's proofs

## 1. The system

One `ENetHost` owns a UDP socket and an array of `ENetPeer` slots. There are no
threads: the application calls the API, and everything that happens to time and
network happens inside `enet_host_service`. What makes the code hard is not
parallelism but order: datagrams that are late, lost, or delivered twice;
timeouts that race with late answers; API calls between two services that find a
peer in any of eleven states; and 16-bit numbers that wrap.

| Component | State | Operations | Interacts with | What makes it correct |
| --- | --- | --- | --- | --- |
| Reliable sequence numbers and windows | none (constants of `enet.h`) | window tests of sender and receiver | sender, receiver | a number or a late copy of it is never taken for another |
| Reliable sending (`peer.c`, `protocol.c`) | `outgoingSendReliableCommands`, `sentReliableCommands`, `reliableWindows`, `usedReliableWindows`, `reliableDataInTransit`, reference counts of packets | `enet_peer_send`, `check_outgoing_commands`, `check_timeouts`, `remove_sent_reliable_command` | called by the service loop; acknowledgements come from the receiver of the other host | counters exact, limits kept, packet freed when and only when nothing points to it, callback not too early |
| Reliable receiving (`peer.c`, `protocol.c`) | `incomingReliableCommands`, `incomingReliableSequenceNumber`, `dispatchedCommands`, `totalWaitingData`, acknowledgements | `handle_send_reliable`, `handle_send_fragment`, `queue_incoming_command`, `dispatch_incoming_reliable_commands`, `queue_acknowledgement`, `enet_peer_receive` | commands of the sender; links the peer into `dispatchQueue` | in order, exactly once, whole; acknowledged only if stored; what is sent is delivered |
| Peer life cycle (`peer.c`, `protocol.c`, `host.c`) | `state`, `flags`, lists, `host->dispatchQueue`, `connectedPeers`, `bandwidthLimitedPeers` | connect, disconnect (three ways), reset, the handlers of every command, `dispatch_incoming_commands`, the service loop | everything above | counters exact, no event forgotten, no state without a way out, nothing of one connection in the next |
| Connection handshake (`protocol.c`, `host.c`) | `connectID`, peer and session ids, negotiated limits | `enet_host_connect`, `handle_connect`, `handle_verify_connect`, `handle_disconnect`, header checks | life cycle, both hosts | both ends agree; a stale datagram does no harm; no connection stays half open |
| Unreliable and unsequenced traffic (`peer.c`, `protocol.c`) | unreliable numbers, `incomingUnreliableCommands`, `unsequencedWindow` | `handle_send_unreliable`, `..._unreliable_fragment`, `..._unsequenced`, `dispatch_incoming_unreliable_commands` | the reliable numbers of its channel; waiting data | in order among themselves and against reliable packets, no duplicates, space given back |
| Outgoing scheduler, packet throttle (`protocol.c`, `peer.c`, `host.c`) | the lists of outgoing commands, merged by `queueTime`; `packetThrottle` | `send_outgoing_commands`, `check_outgoing_commands`, `enet_host_broadcast`, `enet_peer_disconnect_later` | every sender of a peer; packets shared by peers | lists keep their order, limits and reference counts exact, a drop is a whole packet, nothing waits for ever |
| Host bandwidth throttle (`host.c`) | per-peer limits, `recalculateBandwidthLimits` | `enet_host_bandwidth_throttle`, `enet_peer_throttle` | peers, their counters | terminates; shares fit into the bandwidth |
| Time (`time.h`, `protocol.c`) | 32-bit milliseconds, 16-bit sent time, round trip time, `nextTimeout`, `earliestTimeout` | comparisons, `handle_acknowledge`, `check_timeouts` | the lists of sent commands | right across the wrap; a dead peer is given up, a living one not |
| Range coder (`compress.c`) | the trees of symbols, `low` and `range` | `enet_range_coder_compress`, `..._decompress` | datagrams | what went in comes out; tables not overrun |
| Datagrams (`protocol.c`) | header flags, extended header, checksum | wrapping in `send_outgoing_commands`, unwrapping in `handle_incoming_commands` | session ids, compressor, encryptor | understood at the other end, and only on its connection |
| Intrusive lists, packets and memory, sockets, addresses, C# binding, examples | | | | section 6 says why they are left out |

The hazards of this code, each at its line, are in `PROJECT.json` under
`hazards`, with the properties that would catch them or, where there is none, the
reason.

## 2. The modules

    ENetSequence            numbers, windows and the three window tests
      ENetReliableSender    sending half of one channel      (a specification by itself: SenderSpec)
      ENetReliableReceiver  receiving half                   (operators and actions)
        ENetReliable        both, with a network between them        ==> ReliableDelivery
      ENetUnreliable        all kinds of packets in one channel      ==> SequencedDelivery
        uses ENetUnsequenced, the window of unsequenced groups (UnsequencedSpec)
      ENetOutgoing          channels and peers of a host, pass by pass
    ReliableDelivery        what a reliable channel promises
    SequencedDelivery       what a channel promises of reliable and unreliable packets
    ENetPeers               the peers of one host, its calls, services and events
    ENetConnection          two hosts and the connections between them
    ENetDatagram            what is wrapped around the commands
    ENetRangeCoder          the compressor
    ENetTime                comparisons and the sent time
      ENetTimeouts          the timers of a peer
    ENetBandwidth           the shares of the bandwidth
    MC*                     the instances for TLC
    *Proofs                 theorems; ENetSequenceProofs has those about quotients and lists

ENetReliable with its two halves, ENetUnreliable with ENetUnsequenced, ENetPeers,
ENetConnection, ENetDatagram and ENetTimeouts are proved about as well as checked, the
others checked. Each module leaves out what another
one has: ENetOutgoing has many channels and peers but takes acknowledgements of what was
sent as given, ENetReliable has one channel with its receiver and its network; ENetPeers has
one host among arbitrary commands and the way its services report them, ENetConnection has
the commands two hosts really send.

**ENetSequence.** `Wire(i)` is the 16-bit number of the i-th command of the
channel. The sizes of the circle are constants, so that TLC wraps around it in a
few steps and the theorems cover 16 windows of 4096. `InReceiveWindow` and
`IsAckRefused` are the tests of `enet_peer_queue_incoming_command`,
`enet_protocol_handle_send_fragment` and `enet_peer_queue_acknowledgement`;
`GuardWindows` is the mask of `enet_protocol_check_outgoing_commands`.

**ENetReliableSender.** Commands are named by their absolute number, which no
datagram has. `SendPacket` is `enet_peer_send` of a reliable packet, `SendNew` and
`Resend` are `enet_protocol_check_outgoing_commands` reaching one command,
`Expire` is `enet_protocol_check_timeouts` short of giving the peer up, and
`Acknowledge` is `enet_protocol_handle_acknowledge` with
`enet_protocol_remove_sent_reliable_command`, which looks for the *number* on one
list and then on the other. The outgoing list always is a run of expired commands
followed by the ones never sent; the first is the set `expired` (in which order
is left open), the second the numbers above `attempted`. By itself
(`SenderSpec`) it runs among acknowledgements of every number at every time.

**ENetReliableReceiver.** `ReceiveCommand(d)` is what happens to one reliable
datagram: the four ways through `handle_send_reliable` and
`handle_send_fragment`, each with the dispatch of the list's head and with the
acknowledgement that `handle_incoming_commands` queues after the handler. The
scan for a command's place, with its two branches for the two sides of the wrap,
is `ScanStop`. `PeerReceive` is `enet_peer_receive`.

**ENetReliable.** Each command travels alone; the network keeps what was sent and
may deliver it any number of times, in any order, late, or never. Its `Lifetime`
is a bound of the real world, not of the check: after enough numbers no 16-bit
protocol can tell a copy from a new command. The assumption that states it allows
copies up to `(FreeWindows + 1) * WindowSize` commands late, less the fragments of the
longest packet (that can get through at all): 36864 with the real constants and packets
of one command. The test that refuses a late fragment is made on the number of the
*first* command of its packet, `Span - 1` before its own, which is why the length counts.

**ENetPeers.** One record per slot, and handlers as operators from record to
record, so that nested calls compose as in the code (`NotifyDisconnect` calls
`ResetPeer` calls `OnDisconnect` and `ResetQueues`). Of the lists it keeps which
kinds of command are on them; of the counters of the host, what each peer has
contributed; of `dispatchQueue`, how many times each peer is linked into it.
`serving` is where a call of `enet_host_service` is: with an event to fill it
empties the queue, looks at the network, and empties the queue again, and the
first event ends it, except for the rest of the datagram that brought it; with
no event (`NULL`) it only looks at the network. Applications do both, so
`NullEvents` says whether this one does.

**ENetUnsequenced.** A packet is named by its absolute number, its datagram has
`Group(i)`. `IsOldGroup`, `IsRepeated` and `MarkGroup` are the three parts of
`handle_send_unsequenced`, in the order in which they change `incomingUnsequencedGroup`
and the bits: the window moves before the packet is stored, and a packet that finds no
room is not marked.

**ENetUnreliable.** `Send` is `enet_peer_send` of any kind of packet, also of an unreliable
one that becomes reliable because the unreliable numbers are used up (`GoesReliable`).
`Queue` is `enet_peer_queue_incoming_command`, with the scan backwards from the end of the
list (`ScanStop`); `DispatchUnreliable` is the pass over
`incomingUnreliableCommands` that moves what may be given out, keeps what is to come,
and drops (`WithoutDropped`) what has been passed over. In DISCONNECT_LATER new packets are
thrown away, but fragments of a packet on the list are still put into it, and complete it
(`AddFragment`, `StartFragments`). The reliable packets are there in short, as single commands
that arrive once. `Backlog` bounds how many of them the sender has queued and the receiver has
not put in order yet; whether the application has fetched them does not matter.

**ENetOutgoing.** Handlers are operators from a record of the whole host to the next,
as they reach over peers through shared packets. `Pass` folds `Step`, one round
of the loop of `check_outgoing_commands`, over the two lists; `ServicePass` is a peer's
turn in `send_outgoing_commands`: what has expired is put back, the pass fills a datagram,
and a peer in DISCONNECT_LATER that has nothing left is disconnected. Until then it is sent
bandwidth limits (`Control`), and may be disconnected later once more, or at once after all,
which throws away what it had left (`cut` remembers that). An
acknowledgement looks for its number on three lists (`Removed`), and may move the
throttle to whatever `enet_peer_throttle` makes of it.

**ENetConnection.** `peers[h][s]` is a slot with its state, ids, session ids, limits and
the connection commands on its lists. `Receive` is one datagram through
`handle_incoming_commands`: the header's peer and session (`Accepts`), the handler, and the
acknowledgement that is queued after it. A datagram stays in the network, to be
delivered again, until `Lifetime` further slots have been taken into use. Clients and
servers run the same code; the connectID is the number of the connection, which no
two have alike (the code draws 32 random bits).

**ENetDatagram.** `call` is where `send_outgoing_commands` is in its turns and passes over
the peers, with what it keeps across them. A datagram is a list of layers, and the
flags that claim which they are.

**ENetRangeCoder.** A byte is a digit of base `Base`, the words of the coder have four.
Macros are operators of the same name and call structure; `symbols` is the array, and the
trees are linked by index. Encoder and decoder are records of the same kind that learn from
the same bytes by different paths (`EncodedFrom`, `Patched`).

**ENetTime, ENetTimeouts.** `now` is the true time, `serviceTime` what the host sees of it, modulo
`Word`; `Stamp` is the 16 bits of a header. `Service` is one turn of the peer with its timeouts,
`CheckTimeouts` the loop over what was sent, `Acknowledge` the round trip estimate.

**ENetBandwidth.** `BandwidthThrottle` is one round after `elapsed` time, in the order of the
function and in its unsigned words (`Times`, `Minus`): the peers that cannot take their part are settled one after the other (`Settled`), then all others get
the same limit; when the connections or limits have changed, the host's incoming
bandwidth is shared out anew (`Shared`, `Told`). Between the rounds the throttle of a peer
follows its round trips up to that limit (`RoundTrip`, which is `enet_peer_throttle`).

### Simplifications

 - The commands a peer is sent are such as an ENet host sends: what the parser refuses as
   malformed is left out.
 - Sizes are counted in commands or fragments: `InTransitLimit` stands for the in-transit
   limit of `check_outgoing_commands` in ENetReliableSender (ENetOutgoing has it as the
   throttled window), `Capacity` for what fits into a datagram; the space of a
   packet is its number of fragments.
 - Times are left out except in ENetTimeouts. Elsewhere a timeout may come at any moment.
 - Memory allocation does not fail, and the socket fails only by ending a service.
 - In ENetPeers, an acknowledgement of a command is possible as soon as the command
   is queued. An acknowledgement of the CONNECT is not something the other host
   sends before its VERIFY_CONNECT is handled, which removes the CONNECT first;
   so it can only be a stale one, which `StaleAcks` allows or forbids.
   `LateDisconnects` says the same of `enet_peer_disconnect` of a peer whose timeout
   is still to be reported.
 - The throttle of ENetOutgoing and the data of ENetBandwidth take any of the values that
   `enet_peer_throttle` and the traffic may give them.
 - Both hosts of ENetDatagram have the same compressor, encryptor and checksum, as the
   documentation of these callbacks asks for.

## 3. The runs

| Run | Instance | States | What it shows |
| --- | --- | --- | --- |
| `wrap` | packets of 2 fragments, 14 commands, 2 in transit, room for 2 packets at the receiver, copies up to 4 commands late | 466 000 | Windows, transit and reference counts stay exact and numbers in flight unambiguous around the circle; the receiver's list stays in order, fragments stay with their packet, nothing acknowledged is lost, and the channel implements `ReliableDelivery`. |
| `mixed` | unfragmented packets and packets of 3, 6 commands, 3 in transit, 3 waiting, copies up to 6 late | 386 000 | The same for both kinds in one list, and for a receiver that is at its limit: space is given back exactly, delivery is in order, nothing is acknowledged and dropped. |
| `lossy` | one packet of 3, 2 in transit, every datagram may be lost | 44 000 | Everything is delivered and acknowledged (`AllDelivered`), under the fairness below. Packet and transit limit force timeouts, resends and late acknowledgements to meet. |
| `peers` | 2 interchangeable peers, 2 waiting packets, services with and without an event | 122 000 | Counters, flags, queue, lists and states of the peers agree through every order of calls, commands and timeouts, also in a slot used anew while still linked; the start and the end of a connection are reported, in this order, and the end is final. |
| `unreliable` | 5 packets of 4 kinds, windows of 1 number, 2 unreliable numbers, room for 4, starting fresh or after 4 packets of each kind | 1 140 000 | Order and uniqueness against reliable packets (`SequencedDelivery`), exact space, fragments of their own packet, unsequenced packets once, across the wraps of all three kinds of numbers and in DISCONNECT_LATER. |
| `outgoing` | 2 peers of 2 channels, 3 commands, packets of 2 fragments, datagrams of 2 commands, a window of 2 | 241 000 | Lists, windows, transit and references of shared packets; drops of the throttle; DISCONNECT_LATER and what ends it; everything queued leaves the lists. |
| `connection` | a client with 1 slot and a server with 2, different mtus and bandwidths, 4 uses of slots, 4 session ids | 424 000 | Agreement of both ends, refusal of the connection before, one slot for one connection, no half open connection. |
| `range_coder` | bytes of base 8, 4 of them used, up to 7 in a datagram, 12 symbols | 169 000 | Decoder inverts encoder, sums are those of counts, and tables suffice, through rescaling and starting afresh. |
| `datagram` | 2 peers, 2 passes, 3 connections each, 2 session ids, every setup | 376 000 | What is sent is understood; with a checksum only on its connection. |
| `timeouts` | words of 32, headers of 8, starts at 0 and before a wrap, 2 commands | 779 000 | Round trip, first timeout, given up neither too early nor too late. |
| `bandwidth` | 3 peers, host with and without limit, slow, medium and unlimited peers, words of 8192 | 591 000 | What is sent fits the host and each peer, what the peers are told fits the host. |
| `peers_relinked` | 2 peers, one link left from before | | The finding below. |

`CHECK_DEADLOCK` is off: a model with a bounded number of sends ends when all has
been delivered, and a host may be left alone.

Bounds. For the reliable channel, windows are 6 of 2 numbers with `FreeWindows` 3: the
smallest instance that works at all. With `FreeWindows` 2 the `FreeWindows + 2` windows of the
guard are the whole circle and no window could be entered before everything is
acknowledged. 6 windows keep the proportions of the code (`Windows = 2 * FreeWindows`,
receive window `FreeWindows - 1`), have windows that are neither behind, ahead, nor refused, and
2 numbers are enough for a window to have an inside and an edge. 14 commands on a
circle of 12 numbers give every number a second meaning. A packet of 3 in windows of 2
straddles every edge.

 - ENetPeers: `MaxWaiting` and `MaxLinks` bound what one peer keeps: 2 packets tell "the last"
   from "not the last", and with 1 link left from before, a slot is used anew while
   still linked. Peers only meet in `serving`, `HostFlush` and `BandwidthThrottle`, so that
   two of them show every interaction.
 - ENetUnreliable: windows of 1 number, as reliable packets are single here and only their
   window matters to unreliable ones; 5 packets after a start at 4 go around the circle of
   6. `UnreliableLimit` 2 stands for 65535 and is reached by 2 packets. 4 groups of 2 are the
   circle of unsequenced ones.
 - ENetOutgoing: 3 commands are 2 reliable ones and something between them, or a broadcast and
   one more; 2 of them fill a datagram, so that the two fragments of a packet may be divided
   between two, and a pass may leave commands for the next; windows of 1 number make every command the first of a window.
 - ENetConnection: with 4 uses both ends have a connection before, the present one, and a late
   CONNECT of either. One client is enough for it to have something left of its last
   connection when the next begins; with two, acknowledgements of one end's CONNECT meet
   the other's (section 4).
 - ENetRangeCoder: in base 8, 4 bytes of 3 or fewer kinds rescale a context, and 12 symbols
   are used up in the middle of 7 bytes.
 - ENetTimeouts: a wrap of the header comes after 8, of the time after 32, and both within the
   15 of `MaxTime` from the second start. The limits of the timeouts are reached after 2
   attempts or 4 units.
 - ENetDatagram: 2 sessions come back to the first one with the third connection.
 - ENetBandwidth: 2 times a peer connects, leaves, changes a bandwidth or has a round trip, between
   any rounds. The 180 that the host's 120 are in the elapsed time is less than 3 peers ask for
   and more than 1. A word of 8192 holds every product, as 2^32 does below the limits of
   section 4.

Liveness runs have few commands because what they must not miss is the order of loss,
timeout and late answer for one command, within a window and across its edge; that the
windows a channel has left never stop it is the safety property `CountersExact`, checked
around the circle and proved.

Fairness.

`ENetReliable!Fairness`:

 - Weak fairness of sending acknowledgements, of timeouts, resends, and of
   `enet_peer_receive`: `enet_host_service` is called again and again by both
   applications, as the tutorial demands, and each pass looks at all of it.
 - Strong fairness of `TransmitNew`. A pass over the outgoing list that has put the
   expired commands out goes on to the new ones in the same loop. In the model
   these are several steps, between which a command may expire again, so that
   sending a new one is enabled again and again but not continuously.
 - Strong fairness of the delivery of each command and acknowledgement: the
   network does not lose for ever what is sent for ever. This is about the
   network, not the code; without it ENet gives the peer up.
 - None for `enet_peer_send`: nothing makes the application send.

`ENetOutgoing!Fairness`: a peer whose pass would change something is served, and of the
commands that have been sent one is acknowledged, weakly. The second stands for network
and receiver, which ENetReliable has. Timeouts are not needed.

`ENetConnection!Fairness`: weak fairness of sending, of the timeout of a peer that has a
command out, and of dispatching what is to be reported: all of them parts of
`enet_host_service`. None of the network: `Settles` holds because those who wait give up.

ENetPeers has no liveness property. What must happen in the end is there the safety
property `WaitingEnds`: a state that waits has a command to resend, acknowledge or
expire.

Every property of a passing run has a mutant in `PROJECT.json`: a change to one
definition, as a bug in the mapped lines would make it, under which TLC finds the
property violated. The mutated definitions are in the models, before the ones they
mutate, named `Bug...`.

## 4. Where the code falls short

**Finding.** `peers_relinked` (`peer.c:438`): `enet_peer_reset` clears `flags` before
`enet_peer_reset_queues` looks at them, so a peer that is reset stays in
`dispatchQueue` and is linked a second time in its next connection: `QueuedOnce` is violated.
In `peers` slots are used again while they are linked, too, and `LinksRemembered` says that
nothing but this reset makes queue and flags differ. `MaxLinks` bounds the links a slot is used
anew with.

**Known limits.** The passing runs hold under conditions that are constants or
parts of a property. Each of these conditions is there because the code needs it;
without it TLC finds the property violated. With the module, the constants to change
in the run's `.cfg`, and the property:

| Where | What happens | To see it |
| --- | --- | --- |
| `peer.c:626` | A packet whose fragments reach into the windows whose acknowledgement is refused cannot be completed (some 24600 fragments with the real constants when the packet begins at the end of a window; from 32768 on, never, wherever it begins: `LargePacketsStay`), though "ENet will send and deliver packets regardless of size" (`docs/design.dox:87`). | ENetReliable, `lossy` with `FragmentCounts = {6}`, `MaxCommands = 6`, `Losses = FALSE`: `AllDelivered` |
| `peer.c:964` | The limit on waiting data is applied to the missing command, too. If packets behind it fill the limit, it is refused for ever ("guaranteed to be delivered", `docs/tutorial.dox:223`). | `lossy` with `FragmentCounts = {0}`, `InTransitLimit = 3`, `MaximumWaitingData = 2`, `Losses = FALSE`: `AllDelivered` |
| `protocol.c:293` | `remainingFragments` goes down only for a command found on `sentReliableCommands`: if the acknowledgement comes after the timeout and before the command is sent again, `acknowledgeCallback` is not called for its packet. `CallbackNotEarly` is therefore one-sided. | ENetReliableSender: that `remainingFragments` is the number of unacknowledged fragments |
| `peer.c:151`, `peer.c:202` | A broadcast packet has one `remainingFragments` for all its peers, so that the callback comes with the first peer's acknowledgement. | ENetOutgoing: that it is at least the number of commands on the lists |
| `protocol.c:1452` | `earliestTimeout` 0 stands for none. The sending of a command at service time 0 (once in 2^32 ms) is therefore not remembered, and the time a silent peer is given is measured from a later sending. | `timeouts` with `Starts = {0}`, `FirstRoundTrips = {3}`, `TimeoutLimits = {16}`, `TimeoutMaximum = 7`, `MaxCommands = 1`, `MaxPause = 1`, `MaxTime = 25`: `GivenUpInTime` (with `Starts = {1}` it holds) |
| `protocol.c:1543`, `protocol.c:1554` | A channel at the end of its window, or the in-transit limit, ends the pass for the reliable commands of all channels ("the delivery status of a packet in one channel will not stall the delivery of other packets in another channel", `docs/design.dox:72`). It is only a delay: `AllSettled`. | ENetOutgoing: that a pass sends a channel's command if it would without the other channels |
| `peer.c:550` | A peer whose timeout is still to be reported is reset by `enet_peer_disconnect`, and the event never comes. | `peers` with `LateDisconnects = TRUE`: `EventsReported` |
| `protocol.c:952`, `protocol.c:1092` | While a peer is CONNECTING its acknowledgements are not tied to a connection; a late one removes the CONNECT, and the peer waits for ever, without a timeout. Without it, a late VERIFY_CONNECT or DISCONNECT ends the new connection before it is made. When both hosts call each other, acknowledgements of the one's CONNECT meet the other's, and a VERIFY_CONNECT that arrives late may carry the session its slot has by now. | `peers` with `StaleAcks = TRUE`: `WaitingEnds`; `connection` with `Clients = {a, b}`, each of the two properties alone: `Settles`, `LastConnectionRefused` |
| `protocol.c:384` | Session ids tell a connection from the ones before and after it in the same two slots (`LastConnectionRefused`, with the counts `used` and `partner`, which the code does not have). A slot that answered old CONNECTs again and again meanwhile comes back to the same id; such datagrams are for the checksum (`Authentic`) or for time. | `connection` with `Sessions = 3`, `MaxUses = 6`, `Lifetime = 6`, without `IsNextTo`: `LastConnectionRefused` |
| `protocol.c:1691` | `extendedHeaderFlags` stays set when a later peer's encryptor returns 0 ("Should return 0 on failure", `enet.h:355`), whose datagram then cannot be understood. | `datagram` with `Failing = {{2}}`: `Understood` |
| `protocol.c:1775`, `protocol.c:1799` | A datagram is compressed first and then encrypted; the comment on `ENetEncryptor` says that encryption "happens before compression" (`enet.h:348`). Both ends agree: `Understood`. | |
| `peer.c:31`, `protocol.c:1607` | With the throttle at 0, one unreliable packet in 32 is still sent. | |
| `peer.c:681`, `protocol.c:1543` | An unreliable packet has the number of the reliable one queued before it, and is sent even while the window holds that one back. With 65536 reliable packets queued and not yet put in order by the receiver, it has the number of the one dispatched last, and is delivered ahead of them all. | `unreliable` with `Backlog = 6`, `MaxPackets = 7`, `Starts = {0}`, without the bound on `Backlog` in `UnreliableAssumption`: `ImplementsSequenced` |
| `host.c:397`, `host.c:430`, `host.c:431` | Bandwidth times elapsed time, and 32 times data, are 32-bit products, which wrap from some 4.29 MB/s on for a second, and from 134 MB in a round. The limits are then those of a smaller bandwidth, or none. | `bandwidth` with `Word = 2048`: `OutgoingFits` |
| `protocol.c:71` | A connection made in a service without an event is shared out bandwidth only when dispatched. | `bandwidth` with `LateDispatch = TRUE`: `IncomingFits` |
| `host.c:504` | A peer without an outgoing limit is told 0, which means no limit. | `bandwidth` with 0 in `Outgoing`: `IncomingFits` |
| `host.c:437`, `host.c:450` | A peer that can take nothing still gets a limit of 1 of 32, beyond the host's bandwidth; what slow peers leave is not given to others. `OutgoingFits` leaves limits of 1 out. | |
| `peer.c:322` | `enet_peer_reset_queues` leaves `reliableDataInTransit` as it is. Harmless: the peer is DISCONNECTING then, sends no more data, and `enet_peer_reset` clears it. `TransitExact` leaves the state out. | |

## 5. The proofs

All theorems are for every value of the constants under the named assumptions of the
modules (`SequenceAssumption`, `SenderAssumption`, `WaitingAssumption`, `NetworkAssumption`,
`PeersAssumption`, `ConnectionAssumption`, `UnsequencedAssumption`, `DatagramAssumption`, `TimeAssumption`,
`TimeoutsAssumption`); the few that need one
constant to have a certain value say so in their `ASSUME`.

**ENetReliableSenderProofs** proves the invariants of the sender: types, `CountersExact`,
`InFlightSpan`, `NumbersUnambiguous` and `PacketsExact`. Its inductive
invariant `SenderInvariant` has three parts, each with a lemma that every step keeps it:

 - `Lists`: types, and each sent command is on one list at most.
 - `Counters`: the two counters are the cardinalities they should be, the used bits
   agree, and `WindowBehind`: every unacknowledged command lies in the last
   `FreeWindows - 1` windows entered. The last is `InFlightSpan` made inductive. It
   needs the guard: the first command of a window is sent only if the
   `FreeWindows + 2` windows from the one it enters on are unused. On a circle of
   `2 * FreeWindows`, everything but the last `FreeWindows - 2` windows is then empty,
   and the new window makes `FreeWindows - 1`. That a window's counter can be read off the
   circle and not off the line (`SlotOf`) is the arithmetic the module begins with.
 - `Packets`: a packet's reference count is the number of its commands on the lists,
   and `remainingFragments` is never below it.

`NumbersUnambiguous` follows from the span: two commands with the same number are a
circle apart, and all in flight are less than half of one apart.

**ENetReliableProofs** first shows that the whole channel implements `SenderSpec`: each step
of the composition is a step of the sender or leaves its variables alone. The
sender's invariants hold with the real receiver and network for that reason (`SenderSafe`).
Then it proves what both sides keep together, `ChannelInvariant`, and from it
`InOrderExactlyOnce`, `AcknowledgedIsStored`, `ListSound`, `WaitingAccounting`, that packets of
`FreeWindows * WindowSize` fragments or more are never delivered, and that the channel
implements `ReliableDelivery`. The invariant speaks of absolute numbers throughout:

 - `LaidOut`: the packets lie one after the other on the line of commands.
 - `DispatchedRight`: the dispatched packets are 1, 2, 3 ..., and the number the receiver keeps is
   the wire number of the last command of the last of them (`OrderedTo`).
 - `ListRight`: each entry of the list is a packet sent, filed under its first command, with the
   fragments its ids say; entries are sorted by packet, none is twice there, all begin within
   the receive window; and the head is not ready, or it would have been dispatched.
 - `Confirming \subseteq Stored`: what is acknowledged, or about to be, is stored.
 - `WindowsAgree`: nothing is acknowledged beyond window `FreeWindows - 2` after the receiver's, and
   so the sender is never beyond window `FreeWindows - 1` after it. This is where the two
   sides need each other. The sender enters a window only when all but the last
   `FreeWindows - 2` before it are acknowledged; the receiver acknowledges only within its
   window; hence what arrives is less than half a circle ahead, or less than half a circle
   behind (by `Lifetime`), and the test on the circle tells which.

The lemmas go along the handler. `AheadCommand` and `OldCommand` say what the window test
makes of a new and of an old datagram; `ScanFinds` that the scan from the end, with its two
branches for the wrap, stops where the packet belongs on the line; `FragmentWritten`,
`EntryStarted`, `InsertedPlaced` and `ReplacedPlaced` what becomes of the list; `DispatchFacts` what is
dispatched from its head; `ReceiveOutcome` puts them together for every way through the handler.
`WaitingAccounting` has an invariant of its own, `SpaceCounted`, over the set of packets on the two
lists (`Waiting`): a datagram adds its packet's whole space exactly when the scan finds no entry of
it, moving the head of the list leaves the set alone (`WaitingMoved`), and `enet_peer_receive`
takes the one packet away with the space it brought (`FetchCounts`), so that the minimum the
code takes there never bites.
On the sender's side `WindowEntered` derives the second half of `WindowsAgree` from the guard
and the span of the sender's own invariant. The refinement maps each step to one of
`ReliableDelivery` or to a stutter: `Send` offers, a datagram makes its packet arrive if it
completes it (`CommandArrives`), `Receive` delivers, the acknowledgement that removes the
last command of a packet confirms it (`AcknowledgementConfirms`).

**ENetPeersProofs** proves type correctness, `CountedWhileConnected`, `PendingIsQueued`,
`ConnectIsReported`, `FreeIsClean`, `NoWayBack`, and, each for the hosts it is true of,
`WaitingEnds` (without stale acknowledgements) and `EventsReported` (no `enet_peer_disconnect` of a
peer whose timeout is still to be reported). `LinksRemembered` holds of every host
(`FlagsTellOfLinks`), whatever is left in its queue: each operator is shown to move links and
flag together (`Links`); a peer has one link more than were left at most (`LinksBounded`). The invariant is one predicate `Sound` of the record of each peer; the lemmas
follow the call graph, one for each operator, up to one for each action. What makes
it inductive: a set flag means a link (`QueueSound`), packets wait only at a peer that
was connected (`Linked`), and a connection the application is to hear the end of was
reported (`Announced`). The theorems hold for both values of `NullEvents`.

**ENetConnectionProofs** proves that two hosts of any sizes and limits, each of which may call the
other, agree on their connections, however many there were, and however datagrams were lost,
repeated or delayed. The invariant `Agreement` says that there are three functions that no
state holds: `made`, which use of which slot began a connection; `answers`, which session ids a
use of a slot chose when it answered; and `met`, whose answer was accepted. Each slot in use has
begun its connection (`Maker`) or been taken by the CONNECT of another (`Taker`), and what it
holds is what these functions say; each datagram in the network says what they say of its sender
(`DatagramRight`). The functions only grow, so that what was told stays true (`PeerKept`,
`DatagramKept`), and a slot that waits for an answer has not met anyone yet, so that it meets
one only. There is a lemma for each handler and each action.

Without further conditions the limits of the two ends agree (`LimitsAlways`), the session ids of
ends that have met do (`SessionsAlways`), and no host has two slots for one connection
(`OneSlotAlways`). That an end which answered is connected by the one it answered is more:
it goes by an ACKNOWLEDGE that carries no connectID, only a session id, and with four of them a
slot that answers the same CONNECT again and again is soon back at the first. `EndsAlways` and
`ConnectedAlways` therefore prove `EndsAgree` and `ConnectedOnce` of the behaviours in which
`OwnAcknowledgements` always holds: the acknowledgements a slot takes in
ACKNOWLEDGING_CONNECT are by the other end of this use of it. It is a part of
`LastConnectionRefused`, which TLC checks in `connection`; with `MaxUses = 6` and
`Lifetime = 6` TLC finds it violated (section 4 has what there is against that). That no two connections have the same
connectID is part of the model.

**ENetUnreliableProofs** is about a channel that carries packets of all kinds. Its first
section proves that no unsequenced packet is accepted twice. The invariant
`WindowInv` places the window on the line of absolute numbers: it begins where the
window of some number begins that is not after the last packet sent, every packet accepted from that window has
its bit set, and none accepted lies beyond it. A copy of an accepted packet is then
either marked, if it is from the present window, or lies behind it, by at most half the circle
as no packet lives longer; and what lies up to half a circle behind is taken for something more
than half a circle ahead, which is old. Windows on the circle and on the line are related
by the lemmas about quotients and remainders in **ENetSequenceProofs**, which
the circle of reliable numbers rests on, too.

The other sections prove `WaitingExact`, `OwnFragments`, `AcceptedOnce` and that the channel
implements `SequencedDelivery`, from one inductive invariant, `ChannelInv` (`ChannelRight`):

 - `SentRight`: of the packets that are not unsequenced, the pairs of a reliable and an
   unreliable number go up with each packet, and only a reliable one has 0 for the second.
 - `ListRight`: each entry of the list has the numbers of its packet and fragments of no other
   (`EntryRight`); the entries are in the order in which their packets were sent, within
   reach of the last reliable number (`InReach`); nothing was passed by, and nothing is ready,
   or the pass would have moved it.
 - `ReliableRight`, `DeliveredRight`: a reliable packet that came early is ahead, but not
   beyond the window; what was delivered or dispatched is in order, not beyond the
   two numbers the channel keeps, and has every reliable packet up to them.
 - `Behind`, `Waits`: the receiver is behind by no more than `Backlog`; the waiting data are
   the space of what is on the lists.

The argument follows the pass over the list. Before it the list need only be `ListReady`: an
unsequenced packet may be at its front, the entry just queued may be complete, and after a
reliable packet has moved the numbers on there are entries that have been passed by, though
less than half a circle. `DispatchGood` says that the pass makes a channel that is ready for
it (`ReadyFor`) `Good` again; for that it is enough to know which positions are moved and
which dropped (`PassFacts`, `PassKeeps`), as both parts keep the order of the list
(`PickFacts`). `AdvancedReady` brings the channel there after reliable packets,
`InsertReady` after a packet is queued: the scan from the end, with its comparison on the circle, stops
where the packet belongs (`StopsOnCircle`, `ScanFacts`), since all that is on the list lies in less than
half a circle. For the waiting data, what is inserted, picked or joined takes
the sum of the space of its parts (`SpaceInserted`, `SpacePicked`, `SpaceConcat`).
For the refinement, `Gapless` states in terms of packets what the invariant says of numbers,
and every step of the receiver only adds to what is delivered (`ChannelStep`), so that what is
new in a state is what may follow there (`MoreDelivers`).

`Backlog` is at most one window short of the circle. With a circle of reliable packets queued and
not put in order, an unreliable packet behind the last of them has the numbers of one behind
the packet that was dispatched last; nothing in the code prevents that (section 4, `peer.c:681`).

`ReceiveFragment` in DISCONNECT_LATER needs no argument of its own: what it changes is an entry of
the list, as in a peer CONNECTED, and of the state the invariant says only which two it may be.

**ENetDatagramProofs** proves `Authentic`, for any number of peers, connections and session ids,
also when an encryptor fails for some peers only; and `Understood` when it fails for all
peers of a call or for none. The invariant says of a datagram in the network
that its session and the seed of its checksum are those of the connection it was sent on
(`Sealed`), and that its layers are those its flags announce (`Wrapped`); and of the flag that
one call keeps across peers and passes, that it is only set where every encryption works
(`FlagRight`).

**ENetTimeoutsProofs** proves `RoundTripTrue`, for words and headers of any sizes and
a service time that starts anywhere. The invariant (`TimesRight`) is only that acknowledgements
are for what was sent before; the work is in `SentTimeWhole`, which says that the sent time
`enet_protocol_handle_acknowledge` puts together from 16 bits and the upper half of the service
time is the true one modulo `Word`, or one header's range later and then in the future,
in each of the cases in which the header, the word, both or neither have wrapped since.

Only model-checked: `GivenUpInTime` of ENetTimeouts and all of ENetOutgoing, whose passes are
folds over filtered and sorted lists, about which nothing can be proved without induction
over data; ENetBandwidth and ENetRangeCoder; and `LastConnectionRefused` of
ENetConnection, which is bounded by nature: session ids are few.
Liveness under fairness (`AllDelivered`, `AllSettled`, `Settles`) is out of the prover's
reach, as are the recursive operators of ENetRangeCoder and ENetBandwidth, which are in
modules without theorems for that reason.

## 6. Not modelled

`PROJECT.json` lists every component with its status. Left out, and why:

 - Intrusive lists: sets and sequences stand for them. Where an element might be linked twice
   the models count its links.
 - Memory: allocation and its failure, and the bytes of packets. A datagram's size is counted
   in commands, so that the budget of `check_outgoing_commands` in bytes, which takes no account
   of the extended header, the checksum and encryption, is not checked.
 - Parsing: the handlers' checks of lengths and of malformed commands. No ENet host sends such
   commands; what remains is memory safety, not protocol.
 - Addresses and sockets (`address.c`, `unix.c`, `win32.c`): system calls and formatting.
 - `intercept`, packet loss statistics, `packetFreeCallback`, `enet_initialize`: no protocol
   state depends on them.
 - Context exclusion of the range coder is switched off in the source. Data that was not made
   by the compressor is left out. In base 256 the total of the root is never rescaled
   within a datagram; the instance in base 8 does rescale.
 - Timeouts: `earliestTimeout` 0 stands for none in the code and in the model (section 4);
   a shift by 32 or more is not reached before the peer is given up.
 - The C# binding and the examples.

What could come next: ENetOutgoing's counters for any number of peers, as theorems.
