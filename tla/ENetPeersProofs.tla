--------------------------- MODULE ENetPeersProofs ---------------------------
(***************************************************************************)
(* Theorems of ENetPeers, for any number of peers and for both values of   *)
(* NullEvents, StaleAcks and LateDisconnects.  Two at the end are about    *)
(* some of these values only, and say so: that no event is lost without    *)
(* LateDisconnects, and that nobody waits for nothing without StaleAcks.   *)
(*                                                                         *)
(* Everything proved here is an invariant of each peer by itself, Sound of *)
(* its record.  A handler is an operator on records; the lemmas say of     *)
(* each that it keeps a sound record sound, in the order in which they     *)
(* call each other, and the steps of the theorem only have to look up the  *)
(* operator an action applies.                                             *)
(***************************************************************************)
EXTENDS ENetPeers, TLAPS

(* States that need the application's attention.                            *)
Pending(r) ==
    \/ r.state \in {"CONNECTION_PENDING", "CONNECTION_SUCCEEDED", "ZOMBIE", "TIMEDOUT"}
    \/ r.state = "CONNECTED" /\ r.waiting > 0

(* A peer whose flag is set is linked into dispatchQueue; one that is not   *)
(* has the links left when it was used anew, and one more once it is reset  *)
(* while linked, for enet_peer_reset clears the flag first.                 *)
QueueSound(r) ==
    /\ r.queued >= 0
    /\ r.needsDispatch => r.queued > 0
    /\ r.queued <= MaxLinks + 1
    /\ r.state # "DISCONNECTED" /\ ~ r.needsDispatch => r.queued <= MaxLinks

(* The strengthening PendingIsQueued needs: packets wait only on a peer     *)
(* that is connected, or was.                                               *)
Linked(r) ==
    /\ Pending(r) => r.needsDispatch
    /\ r.waiting > 0 => r.state \in {"CONNECTED", "DISCONNECT_LATER", "ZOMBIE", "TIMEDOUT"}

Counted(r) ==
    /\ r.counted = One(IsConnected(r.state))
    /\ r.limitCounted = One(IsConnected(r.state) /\ r.limited)

Announced(r) ==
    IsConnected(r.state) \/ r.state \in {"DISCONNECTING", "ACKNOWLEDGING_DISCONNECT"}
        => r.told

(* The states between the two reports, of a connection and of its end.      *)
Ended(r) ==
    r.told =>
        \/ IsConnected(r.state)
        \/ r.state \in {"DISCONNECTING", "ACKNOWLEDGING_DISCONNECT", "ZOMBIE", "TIMEDOUT"}

Clean(r) ==
    r.state = "DISCONNECTED" =>
        /\ r.commands = {}
        /\ r.waiting = 0
        /\ ~ r.ackDisconnect
        /\ ~ r.limited
        /\ ~ r.needsDispatch

(* What a peer waits for is resent; an acknowledgement of an earlier        *)
(* connection may take its CONNECT away.                                    *)
Waits(r) ==
    /\ r.state = "CONNECTING" => "CONNECT" \in r.commands
    /\ r.state = "ACKNOWLEDGING_CONNECT" => "VERIFY_CONNECT" \in r.commands
    /\ r.state = "DISCONNECT_LATER" => r.commands # {}
    /\ r.state = "DISCONNECTING" => "DISCONNECT" \in r.commands
    /\ r.state = "ACKNOWLEDGING_DISCONNECT" => r.ackDisconnect

Basic(r) == r \in PeerRecords /\ QueueSound(r) /\ Counted(r)

Sound(r) ==
    /\ Basic(r)
    /\ Linked(r)
    /\ Announced(r)
    /\ Clean(r)
    /\ ~ StaleAcks => Waits(r)
    /\ ~ LateDisconnects => Ended(r)

(* What LinksRemembered says of one peer: a link is forgotten only by the   *)
(* reset of a peer whose flag tells of it.                                  *)
Links(r, q) ==
    \/ Forgotten(q) = Forgotten(r)
    \/ Forgotten(q) = Forgotten(r) - 1
    \/ /\ r.needsDispatch /\ q.state = "DISCONNECTED"
       /\ Forgotten(q) = Forgotten(r) + 1

(* What NoWayBack and LinksRemembered say of one peer.                      *)
Moves(r, q) ==
    /\ Leaving(r.state) => Leaving(q.state) \/ q.state = "DISCONNECTED"
    /\ r.state = "DISCONNECT_LATER" => q.state # "CONNECTED"
    /\ Links(r, q)

Inv ==
    /\ serving \in Phases \cup Peers
    /\ peer \in [Peers -> PeerRecords]
    /\ \A p \in Peers : Sound(peer[p])

-----------------------------------------------------------------------------

(* A peer of a new host is sound.                                           *)
LEMMA NewPeerSound == Sound(NewPeer)
BY PeersAssumption
   DEF Sound, Basic, Waits, NewPeer, PeerRecords, Linked, QueueSound, Counted, Announced,
       Ended, Clean, Pending, One, IsConnected, States, Commands, Reliable

(* What the operators every handler is made of leave as it was.             *)
SameButCounts(a, b) ==
    /\ a.commands = b.commands
    /\ a.waiting = b.waiting
    /\ a.ackDisconnect = b.ackDisconnect
    /\ a.limited = b.limited
    /\ a.needsDispatch = b.needsDispatch
    /\ a.queued = b.queued
    /\ a.told = b.told

SameButQueue(a, b) ==
    /\ a.state = b.state
    /\ a.commands = b.commands
    /\ a.waiting = b.waiting
    /\ a.ackDisconnect = b.ackDisconnect
    /\ a.limited = b.limited
    /\ a.counted = b.counted
    /\ a.limitCounted = b.limitCounted
    /\ a.told = b.told

(* A sound peer's two counts, from its state and its limit.                 *)
LEMMA CountedIs ==
    ASSUME NEW r \in PeerRecords
    PROVE  Counted(r) <=>
               /\ IsConnected(r.state) => r.counted = 1 /\ r.limitCounted = One(r.limited)
               /\ ~ IsConnected(r.state) => r.counted = 0 /\ r.limitCounted = 0
<1>1. CASE IsConnected(r.state)
  <2>1. (IsConnected(r.state) /\ r.limited) = r.limited
    BY <1>1 DEF PeerRecords
  <2>2. One(IsConnected(r.state)) = 1
    BY <1>1 DEF One
  <2>. QED
    BY <1>1, <2>1, <2>2 DEF Counted
<1>2. CASE ~ IsConnected(r.state)
  BY <1>2 DEF Counted, One
<1>. QED
  BY <1>1, <1>2

WithCounts(r, s, c, l) ==
    [r EXCEPT !.counted = c, !.limitCounted = l, !.state = s]

(* The fields of a record whose counts and state are replaced.              *)
LEMMA SetCounts ==
    ASSUME NEW r \in PeerRecords, NEW s \in States, NEW c \in Int, NEW l \in Int
    PROVE  /\ WithCounts(r, s, c, l) \in PeerRecords
           /\ WithCounts(r, s, c, l).state = s
           /\ WithCounts(r, s, c, l).counted = c
           /\ WithCounts(r, s, c, l).limitCounted = l
           /\ SameButCounts(WithCounts(r, s, c, l), r)
BY DEF PeerRecords, SameButCounts, WithCounts

(* Counting is right again after any change of state made by                *)
(* enet_protocol_change_state.                                              *)
LEMMA ChangeStateFacts ==
    ASSUME NEW r \in PeerRecords, Counted(r), NEW s \in States
    PROVE  /\ ChangeState(r, s) \in PeerRecords
           /\ ChangeState(r, s).state = s
           /\ Counted(ChangeState(r, s))
           /\ SameButCounts(ChangeState(r, s), r)
<1>. DEFINE q == ChangeState(r, s)
<1>1. r.limited \in BOOLEAN /\ r.counted \in Int /\ r.limitCounted \in Int
  BY DEF PeerRecords
<1>2. One(r.limited) \in Int
  BY <1>1 DEF One
<1>3. CASE IsConnected(s) /\ ~ IsConnected(r.state)
  <2>. DEFINE c == r.counted + 1
              l == r.limitCounted + One(r.limited)
  <2>1. q = WithCounts(r, s, c, l)
    BY <1>3 DEF ChangeState, OnConnect, OnDisconnect, WithCounts, PeerRecords
  <2>2. c = 1 /\ l = One(r.limited)
    BY <1>1, <1>2, <1>3, CountedIs
  <2>3. c \in Int /\ l \in Int
    BY <1>1, <1>2, <2>2
  <2>. HIDE DEF c, l
  <2>4. q \in PeerRecords /\ q.counted = c /\ q.limitCounted = l /\ q.state = s /\ SameButCounts(q, r)
    BY <2>1, <2>3, SetCounts
  <2>. QED
    BY <1>3, <2>2, <2>4, CountedIs DEF SameButCounts
<1>4. CASE ~ IsConnected(s) /\ IsConnected(r.state)
  <2>. DEFINE c == r.counted - 1
              l == r.limitCounted - One(r.limited)
  <2>1. q = WithCounts(r, s, c, l)
    BY <1>4 DEF ChangeState, OnConnect, OnDisconnect, WithCounts, PeerRecords
  <2>2. c = 0 /\ l = 0
    BY <1>1, <1>2, <1>4, CountedIs
  <2>3. c \in Int /\ l \in Int
    BY <1>1, <1>2, <2>2
  <2>. HIDE DEF c, l
  <2>4. q \in PeerRecords /\ q.counted = c /\ q.limitCounted = l /\ q.state = s /\ SameButCounts(q, r)
    BY <2>1, <2>3, SetCounts
  <2>. QED
    BY <1>4, <2>2, <2>4, CountedIs
<1>5. CASE IsConnected(s) <=> IsConnected(r.state)
  <2>1. q = WithCounts(r, s, r.counted, r.limitCounted)
    BY <1>5 DEF ChangeState, OnConnect, OnDisconnect, WithCounts, PeerRecords
  <2>2. /\ q \in PeerRecords /\ q.state = s
        /\ q.counted = r.counted /\ q.limitCounted = r.limitCounted
        /\ SameButCounts(q, r)
    BY <1>1, <2>1, SetCounts
  <2>. QED
    BY <1>5, <2>2, CountedIs DEF SameButCounts
<1>. QED
  BY <1>3, <1>4, <1>5

(* Linking a peer into dispatchQueue changes nothing but its link and       *)
(* flag, and leaves the two agreeing.                                       *)
LEMMA EnqueueFacts ==
    ASSUME NEW r \in PeerRecords, QueueSound(r), r.state # "DISCONNECTED"
    PROVE  /\ Enqueue(r) \in PeerRecords
           /\ QueueSound(Enqueue(r))
           /\ Enqueue(r).needsDispatch
           /\ SameButQueue(Enqueue(r), r)
           /\ Forgotten(Enqueue(r)) = Forgotten(r)
<1>1. r.queued \in Int /\ r.needsDispatch \in BOOLEAN
  BY DEF PeerRecords
<1>2. CASE r.needsDispatch
  BY <1>2 DEF Enqueue, SameButQueue
<1>3. CASE ~ r.needsDispatch
  <2>. DEFINE n == r.queued + 1
              q == [r EXCEPT !.needsDispatch = TRUE, !.queued = n]
  <2>1. n \in Int /\ n > 0 /\ n <= MaxLinks + 1
    BY <1>1, <1>3, PeersAssumption DEF QueueSound
  <2>2. Enqueue(r) = q
    BY <1>3 DEF Enqueue
  <2>. HIDE DEF n
  <2>3. q \in PeerRecords
    BY <2>1 DEF PeerRecords
  <2>4. q.needsDispatch = TRUE /\ q.queued = n /\ SameButQueue(q, r)
    BY DEF PeerRecords, SameButQueue
  <2>. HIDE DEF q
  <2>5. Forgotten(q) = Forgotten(r)
    BY <1>1, <1>3, <2>4 DEF Forgotten, One, n
  <2>. QED
    BY <2>1, <2>2, <2>3, <2>4, <2>5 DEF QueueSound
<1>. QED
  BY <1>1, <1>2, <1>3

(* enet_peer_reset_queues empties the lists and leaves the queue as its     *)
(* flag says.                                                               *)
LEMMA ResetQueuesFacts ==
    ASSUME NEW r \in PeerRecords, QueueSound(r)
    PROVE  /\ ResetQueues(r) \in PeerRecords
           /\ QueueSound(ResetQueues(r))
           /\ ~ ResetQueues(r).needsDispatch
           /\ ~ ResetQueues(r).ackDisconnect
           /\ ResetQueues(r).commands = {}
           /\ ResetQueues(r).waiting = 0
           /\ ResetQueues(r).state = r.state
           /\ ResetQueues(r).limited = r.limited
           /\ ResetQueues(r).told = r.told
           /\ ResetQueues(r).counted = r.counted
           /\ ResetQueues(r).limitCounted = r.limitCounted
           /\ Forgotten(ResetQueues(r)) = Forgotten(r)
<1>. DEFINE n == r.queued - One(r.needsDispatch)
            q == [r EXCEPT !.queued = n, !.needsDispatch = FALSE,
                           !.commands = {}, !.waiting = 0, !.ackDisconnect = FALSE]
<1>1. /\ n \in Int /\ n >= 0 /\ n <= MaxLinks + 1
      /\ r.state # "DISCONNECTED" => n <= MaxLinks
  <2>1. r.queued \in Int /\ r.needsDispatch \in BOOLEAN
    BY DEF PeerRecords
  <2>2. CASE r.needsDispatch = TRUE
    BY <2>1, <2>2, PeersAssumption DEF QueueSound, One
  <2>3. CASE r.needsDispatch = FALSE
    BY <2>1, <2>3, PeersAssumption DEF QueueSound, One
  <2>. QED
    BY <2>1, <2>2, <2>3
<1>2. ResetQueues(r) = q
  BY DEF ResetQueues
<1>. HIDE DEF n
<1>3. q \in PeerRecords
  BY <1>1 DEF PeerRecords
<1>4. q.queued = n /\ q.needsDispatch = FALSE /\ q.ackDisconnect = FALSE
  BY DEF PeerRecords
<1>5. /\ q.commands = {} /\ q.waiting = 0
      /\ q.state = r.state /\ q.limited = r.limited /\ q.told = r.told
      /\ q.counted = r.counted /\ q.limitCounted = r.limitCounted
  BY DEF PeerRecords
<1>. HIDE DEF q
<1>6. Forgotten(q) = Forgotten(r)
  BY <1>1, <1>4 DEF Forgotten, One, n
<1>. QED
  BY <1>1, <1>2, <1>3, <1>4, <1>5, <1>6 DEF QueueSound

(* enet_protocol_dispatch_state changes the state, the counts and the       *)
(* link, nothing else.                                                      *)
LEMMA DispatchStateFacts ==
    ASSUME NEW r, Basic(r), NEW s \in States,
           r.state # "DISCONNECTED", s # "DISCONNECTED"
    PROVE  /\ Basic(DispatchState(r, s))
           /\ DispatchState(r, s).state = s
           /\ DispatchState(r, s).needsDispatch
           /\ DispatchState(r, s).commands = r.commands
           /\ DispatchState(r, s).waiting = r.waiting
           /\ DispatchState(r, s).ackDisconnect = r.ackDisconnect
           /\ DispatchState(r, s).limited = r.limited
           /\ DispatchState(r, s).told = r.told
           /\ Forgotten(DispatchState(r, s)) = Forgotten(r)
<1>. DEFINE c == ChangeState(r, s)
<1>1. /\ c \in PeerRecords /\ c.state = s /\ Counted(c) /\ SameButCounts(c, r)
  BY ChangeStateFacts DEF Basic
<1>2. QueueSound(c)
  BY <1>1 DEF Basic, QueueSound, SameButCounts
<1>. HIDE DEF c
<1>3. /\ Enqueue(c) \in PeerRecords /\ QueueSound(Enqueue(c)) /\ Enqueue(c).needsDispatch
      /\ SameButQueue(Enqueue(c), c) /\ Forgotten(Enqueue(c)) = Forgotten(c)
  BY <1>1, <1>2, EnqueueFacts
<1>4. Counted(Enqueue(c))
  BY <1>1, <1>3 DEF Counted, SameButQueue
<1>5. DispatchState(r, s) = Enqueue(c)
  BY DEF DispatchState, c
<1>6. Forgotten(c) = Forgotten(r)
  BY <1>1 DEF Forgotten, SameButCounts
<1>. QED
  BY <1>1, <1>3, <1>4, <1>5, <1>6 DEF Basic, SameButCounts, SameButQueue

(* enet_peer_reset_queues keeps the types and the counts of a peer.         *)
LEMMA ResetQueuesBasic ==
    ASSUME NEW r, Basic(r)
    PROVE  Basic(ResetQueues(r))
<1>1. r \in PeerRecords /\ QueueSound(r) /\ Counted(r)
  BY DEF Basic
<1>2. ResetQueues(r) \in PeerRecords /\ QueueSound(ResetQueues(r))
  BY <1>1, ResetQueuesFacts
<1>3. Counted(ResetQueues(r))
  BY <1>1, ResetQueuesFacts DEF Counted
<1>. QED
  BY <1>2, <1>3 DEF Basic

(* A free peer of which the application was told may forget it.             *)
LEMMA UntoldSound ==
    ASSUME NEW r, Basic(r), r.state = "DISCONNECTED", Clean(r)
    PROVE  /\ Sound([r EXCEPT !.told = FALSE])
           /\ [r EXCEPT !.told = FALSE].state = "DISCONNECTED"
           /\ Forgotten([r EXCEPT !.told = FALSE]) = Forgotten(r)
           /\ (~ LateDisconnects => ~ r.told) => Sound(r)
<1>. DEFINE q == [r EXCEPT !.told = FALSE]
<1>1. r \in PeerRecords
  BY DEF Basic
<1>2. /\ q \in PeerRecords /\ q.state = r.state /\ q.told = FALSE
      /\ q.waiting = r.waiting /\ q.limited = r.limited /\ q.commands = r.commands
      /\ q.counted = r.counted /\ q.limitCounted = r.limitCounted
      /\ q.queued = r.queued /\ q.needsDispatch = r.needsDispatch
      /\ q.ackDisconnect = r.ackDisconnect
  BY <1>1 DEF PeerRecords
<1>. HIDE DEF q
<1>3. Counted(q) /\ QueueSound(q)
  BY <1>2 DEF Basic, Counted, QueueSound
<1>4. Sound(q)
  BY <1>2, <1>3 DEF Sound, Basic, Linked, Pending, Announced, Ended, Clean, Waits, IsConnected
<1>5. (~ LateDisconnects => ~ r.told) => Sound(r)
  BY DEF Sound, Linked, Pending, Announced, Ended, Clean, Waits, IsConnected
<1>6. Forgotten(q) = Forgotten(r)
  BY <1>2 DEF Forgotten
<1>. QED
  BY <1>2, <1>4, <1>5, <1>6 DEF q

(* enet_peer_reset leaves a free, clean, uncounted peer.                    *)
LEMMA ResetPeerFacts ==
    ASSUME NEW r, Basic(r)
    PROVE  /\ ResetPeer(r).state = "DISCONNECTED"
           /\ Sound([ResetPeer(r) EXCEPT !.told = FALSE])
           /\ [ResetPeer(r) EXCEPT !.told = FALSE].state = "DISCONNECTED"
           /\ (~ LateDisconnects => ~ r.told) => Sound(ResetPeer(r))
           /\ ~ r.needsDispatch =>
                 Forgotten([ResetPeer(r) EXCEPT !.told = FALSE]) = Forgotten(r)
           /\ Links(r, ResetPeer(r)) /\ Links(r, [ResetPeer(r) EXCEPT !.told = FALSE])
<1>. DEFINE c == ChangeState(r, "DISCONNECTED")
            d == [c EXCEPT !.limited = FALSE, !.needsDispatch = FALSE]
            q == ResetQueues(d)
<1>0. "DISCONNECTED" \in States /\ ~ IsConnected("DISCONNECTED")
  BY DEF States, IsConnected
<1>1. /\ c \in PeerRecords /\ c.state = "DISCONNECTED" /\ Counted(c) /\ SameButCounts(c, r)
  BY <1>0, ChangeStateFacts DEF Basic
<1>2. ResetPeer(r) = q
  BY DEF ResetPeer, ChangeState, IsConnected, OnDisconnect, Basic, PeerRecords
<1>3. QueueSound(c)
  BY <1>1 DEF Basic, QueueSound, SameButCounts
<1>. HIDE DEF c
<1>4. /\ d \in PeerRecords /\ d.state = "DISCONNECTED" /\ d.limited = FALSE
      /\ d.needsDispatch = FALSE /\ d.queued = c.queued
      /\ d.counted = c.counted /\ d.limitCounted = c.limitCounted
      /\ d.told = c.told
  BY <1>1 DEF PeerRecords
<1>. HIDE DEF d
<1>5. Counted(d)
  BY <1>0, <1>1, <1>4, CountedIs
<1>6. QueueSound(d)
  BY <1>3, <1>4 DEF QueueSound
<1>7. Basic(d)
  BY <1>4, <1>5, <1>6 DEF Basic
<1>8. Basic(q)
  BY <1>7, ResetQueuesBasic
<1>9. /\ q.state = "DISCONNECTED" /\ q.limited = FALSE /\ q.told = r.told
      /\ ~ q.needsDispatch /\ ~ q.ackDisconnect /\ q.commands = {} /\ q.waiting = 0
      /\ Forgotten(q) = Forgotten(d)
  BY <1>1, <1>4, <1>7, ResetQueuesFacts DEF Basic, SameButCounts
<1>. HIDE DEF q
<1>10. Clean(q)
  BY <1>9 DEF Clean
<1>11. Forgotten(q) = Forgotten(r) + One(r.needsDispatch)
  <2>1. r.queued \in Int /\ r.needsDispatch \in BOOLEAN /\ d.queued = r.queued
    BY <1>1, <1>4 DEF Basic, PeerRecords, SameButCounts
  <2>. QED
    BY <1>4, <1>9, <2>1 DEF Forgotten, One
<1>12. /\ Sound([q EXCEPT !.told = FALSE])
       /\ [q EXCEPT !.told = FALSE].state = "DISCONNECTED"
       /\ Forgotten([q EXCEPT !.told = FALSE]) = Forgotten(q)
       /\ (~ LateDisconnects => ~ q.told) => Sound(q)
  BY <1>8, <1>9, <1>10, UntoldSound
<1>13. /\ Links(r, q) /\ Links(r, [q EXCEPT !.told = FALSE])
       /\ ~ r.needsDispatch => Forgotten([q EXCEPT !.told = FALSE]) = Forgotten(r)
  <2>1. r.queued \in Int /\ r.needsDispatch \in BOOLEAN
    BY DEF Basic, PeerRecords
  <2>2. Forgotten(r) \in Int
    BY <2>1 DEF Forgotten, One
  <2>3. One(r.needsDispatch) = IF r.needsDispatch THEN 1 ELSE 0
    BY DEF One
  <2>. QED
    BY <1>9, <1>11, <1>12, <2>1, <2>2, <2>3 DEF Links
<1>. QED
  BY <1>2, <1>9, <1>12, <1>13

(* enet_peer_disconnect of a connected peer.                                *)
LEMMA DisconnectConnectedFacts ==
    ASSUME NEW r, Basic(r), r.told, r.state # "DISCONNECTED"
    PROVE  /\ Sound(DisconnectConnected(r))
           /\ DisconnectConnected(r).state = "DISCONNECTING"
           /\ Forgotten(DisconnectConnected(r)) = Forgotten(r)
<1>. DEFINE a == ResetQueues(r)
            c == ChangeState(a, "DISCONNECTING")
            q == [c EXCEPT !.commands = {"DISCONNECT"}]
<1>0. "DISCONNECTING" \in States /\ ~ IsConnected("DISCONNECTING")
  BY DEF States, IsConnected
<1>1. Basic(a)
  BY ResetQueuesBasic
<1>2. a.waiting = 0 /\ a.told = r.told /\ a.state = r.state /\ Forgotten(a) = Forgotten(r)
  BY ResetQueuesFacts DEF Basic
<1>3. DisconnectConnected(r) = q
  BY <1>1 DEF DisconnectConnected, ChangeState, IsConnected, OnDisconnect, Basic, PeerRecords
<1>. HIDE DEF a
<1>4. /\ c \in PeerRecords /\ c.state = "DISCONNECTING" /\ Counted(c)
      /\ SameButCounts(c, a)
  BY <1>0, <1>1, ChangeStateFacts DEF Basic
<1>5. QueueSound(c) /\ c.waiting = 0 /\ c.told = r.told
  BY <1>1, <1>2, <1>4 DEF Basic, QueueSound, SameButCounts
<1>. HIDE DEF c
<1>6. "DISCONNECT" \in Commands
  BY DEF Commands, Reliable
<1>7. /\ q \in PeerRecords /\ q.state = c.state /\ q.commands = {"DISCONNECT"}
      /\ q.waiting = c.waiting /\ q.told = c.told /\ q.limited = c.limited
      /\ q.counted = c.counted /\ q.limitCounted = c.limitCounted
      /\ q.queued = c.queued /\ q.needsDispatch = c.needsDispatch
  BY <1>4, <1>6 DEF PeerRecords
<1>. HIDE DEF q
<1>8. Counted(q) /\ QueueSound(q)
  BY <1>4, <1>5, <1>7 DEF Counted, QueueSound
<1>9. Sound(q)
  BY <1>4, <1>5, <1>7, <1>8
     DEF Sound, Basic, Linked, Pending, Announced, Ended, Clean, Waits, IsConnected
<1>10. Forgotten(q) = Forgotten(r)
  BY <1>2, <1>4, <1>7 DEF Forgotten, SameButCounts
<1>. QED
  BY <1>3, <1>4, <1>7, <1>9, <1>10

(* enet_protocol_dispatch_state into a state of which the application has   *)
(* still to be told.                                                        *)
LEMMA DispatchStateSound ==
    ASSUME NEW r, Basic(r),
           NEW s \in {"CONNECTION_PENDING", "CONNECTION_SUCCEEDED", "ZOMBIE", "TIMEDOUT"},
           r.state # "DISCONNECTED",
           s \in {"CONNECTION_PENDING", "CONNECTION_SUCCEEDED"}
               => r.waiting = 0 /\ (~ LateDisconnects => ~ r.told)
    PROVE  /\ Sound(DispatchState(r, s))
           /\ DispatchState(r, s).state = s
           /\ Forgotten(DispatchState(r, s)) = Forgotten(r)
<1>1. s \in States /\ s # "DISCONNECTED"
  BY DEF States
<1>2. /\ Basic(DispatchState(r, s))
      /\ DispatchState(r, s).state = s
      /\ DispatchState(r, s).needsDispatch
      /\ DispatchState(r, s).waiting = r.waiting
      /\ DispatchState(r, s).told = r.told
      /\ Forgotten(DispatchState(r, s)) = Forgotten(r)
  BY <1>1, DispatchStateFacts
<1>. QED
  BY <1>2 DEF Sound, Linked, Pending, Announced, Ended, Clean, Waits, IsConnected

(* A new connection, whether the application can be told now or later.      *)
LEMMA NotifyConnectSound ==
    ASSUME NEW r, Basic(r), NEW event \in BOOLEAN,
           r.state # "DISCONNECTED", r.waiting = 0, ~ LateDisconnects => ~ r.told
    PROVE  /\ Sound(NotifyConnect(r, event))
           /\ NotifyConnect(r, event).state
                 \in {"CONNECTED", "CONNECTION_SUCCEEDED", "CONNECTION_PENDING"}
           /\ Forgotten(NotifyConnect(r, event)) = Forgotten(r)
<1>1. CASE event = TRUE
  <2>. DEFINE c == ChangeState(r, "CONNECTED")
              q == [c EXCEPT !.told = TRUE]
  <2>1. "CONNECTED" \in States
    BY DEF States
  <2>2. c \in PeerRecords /\ c.state = "CONNECTED" /\ Counted(c) /\ SameButCounts(c, r)
    BY <2>1, ChangeStateFacts DEF Basic
  <2>3. QueueSound(c) /\ c.waiting = 0
    BY <2>2 DEF Basic, QueueSound, SameButCounts
  <2>4. NotifyConnect(r, event) = q
    BY <1>1 DEF NotifyConnect
  <2>. HIDE DEF c
  <2>5. /\ q \in PeerRecords /\ q.state = "CONNECTED" /\ q.told = TRUE
        /\ q.waiting = c.waiting /\ q.limited = c.limited
        /\ q.counted = c.counted /\ q.limitCounted = c.limitCounted
        /\ q.queued = c.queued /\ q.needsDispatch = c.needsDispatch
    BY <2>2 DEF PeerRecords
  <2>. HIDE DEF q
  <2>6. Counted(q) /\ QueueSound(q)
    BY <2>2, <2>3, <2>5 DEF Counted, QueueSound
  <2>7. Sound(q)
    BY <2>3, <2>5, <2>6
       DEF Sound, Basic, Linked, Pending, Announced, Ended, Clean, Waits, IsConnected
  <2>8. Forgotten(q) = Forgotten(r)
    BY <2>2, <2>5 DEF Forgotten, SameButCounts
  <2>. QED
    BY <2>4, <2>5, <2>7, <2>8
<1>2. CASE event = FALSE
  <2>. DEFINE s == IF r.state = "CONNECTING" THEN "CONNECTION_SUCCEEDED"
                                             ELSE "CONNECTION_PENDING"
  <2>1. NotifyConnect(r, event) = DispatchState(r, s)
    BY <1>2 DEF NotifyConnect
  <2>2. s \in {"CONNECTION_PENDING", "CONNECTION_SUCCEEDED"}
    OBVIOUS
  <2>. HIDE DEF s
  <2>. QED
    BY <2>1, <2>2, DispatchStateSound
<1>. QED
  BY <1>1, <1>2

(* The end of a connection, asked for or timed out.                         *)
LEMMA NotifyDisconnectSound ==
    ASSUME NEW r, Basic(r), ~ LateDisconnects => Ended(r),
           NEW event \in BOOLEAN, NEW s \in {"ZOMBIE", "TIMEDOUT"}
    PROVE  /\ Sound(NotifyDisconnect(r, event, s))
           /\ NotifyDisconnect(r, event, s).state \in {"DISCONNECTED", "ZOMBIE", "TIMEDOUT"}
           /\ Links(r, NotifyDisconnect(r, event, s))
<1>1. /\ ResetPeer(r).state = "DISCONNECTED"
      /\ Links(r, ResetPeer(r)) /\ Links(r, [ResetPeer(r) EXCEPT !.told = FALSE])
      /\ Sound([ResetPeer(r) EXCEPT !.told = FALSE])
      /\ [ResetPeer(r) EXCEPT !.told = FALSE].state = "DISCONNECTED"
      /\ (~ LateDisconnects => ~ r.told) => Sound(ResetPeer(r))
  BY ResetPeerFacts
<1>2. CASE IsUnannounced(r.state)
  BY <1>1, <1>2 DEF NotifyDisconnect, IsUnannounced, Ended, IsConnected
<1>3. CASE ~ IsUnannounced(r.state) /\ event = TRUE
  <2>1. NotifyDisconnect(r, event, s) = [ResetPeer(r) EXCEPT !.told = FALSE]
    BY <1>3 DEF NotifyDisconnect
  <2>. QED
    BY <1>1, <2>1
<1>4. CASE ~ IsUnannounced(r.state) /\ event = FALSE
  BY <1>4, DispatchStateSound DEF NotifyDisconnect, IsUnannounced, Links
<1>. QED
  BY <1>2, <1>3, <1>4

-----------------------------------------------------------------------------
(* Handlers that only change what is on the lists of commands.              *)

WithCommands(r, c) == [r EXCEPT !.commands = c]

(* A record with other commands keeps every other field.                    *)
LEMMA WithCommandsFacts ==
    ASSUME NEW r, Sound(r), NEW c \in SUBSET Commands
    PROVE  /\ WithCommands(r, c) \in PeerRecords
           /\ WithCommands(r, c).state = r.state
           /\ WithCommands(r, c).commands = c
           /\ WithCommands(r, c).told = r.told
           /\ WithCommands(r, c).waiting = r.waiting
           /\ WithCommands(r, c).ackDisconnect = r.ackDisconnect
           /\ WithCommands(r, c).needsDispatch = r.needsDispatch
           /\ Basic(WithCommands(r, c))
           /\ Forgotten(WithCommands(r, c)) = Forgotten(r)
           /\ (r.state = "DISCONNECTED" => c = {}) /\ (~ StaleAcks => Waits(WithCommands(r, c)))
                 => Sound(WithCommands(r, c))
<1>. DEFINE q == WithCommands(r, c)
<1>1. r \in PeerRecords
  BY DEF Sound, Basic
<1>2. /\ q \in PeerRecords /\ q.state = r.state /\ q.commands = c
      /\ q.waiting = r.waiting /\ q.limited = r.limited /\ q.told = r.told
      /\ q.counted = r.counted /\ q.limitCounted = r.limitCounted
      /\ q.queued = r.queued /\ q.needsDispatch = r.needsDispatch
      /\ q.ackDisconnect = r.ackDisconnect
  BY <1>1 DEF PeerRecords, WithCommands
<1>. HIDE DEF q
<1>3. Basic(q)
  BY <1>2 DEF Sound, Basic, Counted, QueueSound
<1>4. ASSUME r.state = "DISCONNECTED" => c = {}, ~ StaleAcks => Waits(q)
      PROVE  Sound(q)
  BY <1>2, <1>3, <1>4 DEF Sound, Linked, Pending, Announced, Ended, Clean
<1>5. Forgotten(q) = Forgotten(r)
  BY <1>2 DEF Forgotten
<1>. QED
  BY <1>2, <1>3, <1>4, <1>5 DEF q

(* A command more on the lists of a peer in use disturbs nothing.           *)
LEMMA MoreCommandsSound ==
    ASSUME NEW r, Sound(r), NEW c \in SUBSET Commands, r.state # "DISCONNECTED"
    PROVE  Sound(WithCommands(r, r.commands \cup c)) /\ Moves(r, WithCommands(r, r.commands \cup c))
<1>. DEFINE d == r.commands \cup c
            q == WithCommands(r, d)
<1>1. d \in SUBSET Commands
  BY DEF Sound, Basic, PeerRecords
<1>2. r.commands \subseteq d
  OBVIOUS
<1>. HIDE DEF d
<1>3. /\ q.state = r.state /\ q.commands = d /\ q.ackDisconnect = r.ackDisconnect
      /\ Forgotten(q) = Forgotten(r)
      /\ (~ StaleAcks => Waits(q)) => Sound(q)
  BY <1>1, WithCommandsFacts
<1>. HIDE DEF q
<1>4. ~ StaleAcks => Waits(q)
  BY <1>2, <1>3 DEF Sound, Waits
<1>. QED
  BY <1>3, <1>4 DEF Moves, Links, q, d

(* One turn of a peer in enet_protocol_send_outgoing_commands.              *)
LEMMA AcksSentSound ==
    ASSUME NEW r, Sound(r)
    PROVE  /\ Sound(AcksSent(r))
           /\ AcksSent(r).state = r.state \/ AcksSent(r).state = "ZOMBIE"
           /\ Forgotten(AcksSent(r)) = Forgotten(r)
<1>1. CASE r.ackDisconnect
  <2>. DEFINE q == [r EXCEPT !.ackDisconnect = FALSE]
  <2>1. r \in PeerRecords
    BY DEF Sound, Basic
  <2>2. /\ q \in PeerRecords /\ q.state = r.state /\ q.limited = r.limited
        /\ q.counted = r.counted /\ q.limitCounted = r.limitCounted
        /\ q.queued = r.queued /\ q.needsDispatch = r.needsDispatch
    BY <2>1 DEF PeerRecords
  <2>3. AcksSent(r) = DispatchState(q, "ZOMBIE")
    BY <1>1 DEF AcksSent
  <2>. HIDE DEF q
  <2>4. Basic(q)
    BY <2>2 DEF Sound, Basic, Counted, QueueSound
  <2>5. r.state # "DISCONNECTED"
    BY <1>1 DEF Sound, Clean
  <2>6. Forgotten(q) = Forgotten(r)
    BY <2>2 DEF Forgotten
  <2>. QED
    BY <2>2, <2>3, <2>4, <2>5, <2>6, DispatchStateSound
<1>2. CASE ~ r.ackDisconnect
  BY <1>2 DEF AcksSent
<1>. QED
  BY <1>1, <1>2

(* A whole turn keeps a peer sound, and does not revive one on its way      *)
(* out.                                                                     *)
LEMMA TurnSound ==
    ASSUME NEW r, Sound(r), NEW turn \in Turns
    PROVE  Sound(Turn(r, turn)) /\ Moves(r, Turn(r, turn))
<1>1. CASE ~ IsServed(r.state)
  BY <1>1 DEF Turn, Moves, Links, Leaving
<1>2. CASE IsServed(r.state)
  <2>. DEFINE a == AcksSent(r)
              d == IF "drained" \in turn THEN a.commands \ {"UNRELIABLE"} ELSE a.commands
              b == WithCommands(a, d)
              c == IF b.state = "DISCONNECT_LATER" /\ b.commands = {}
                   THEN DisconnectConnected(b) ELSE b
              q == IF "ping" \in turn /\ c.state = "CONNECTED"
                   THEN WithCommands(c, c.commands \cup {"RELIABLE"}) ELSE c
  <2>1. Sound(a) /\ (a.state = r.state \/ a.state = "ZOMBIE") /\ Forgotten(a) = Forgotten(r)
    BY AcksSentSound
  <2>2. Turn(r, turn) = q
    <3>1. a \in PeerRecords
      BY <2>1 DEF Sound, Basic
    <3>2. (IF "drained" \in turn THEN [a EXCEPT !.commands = @ \ {"UNRELIABLE"}] ELSE a) = b
      BY <3>1 DEF WithCommands, PeerRecords
    <3>. HIDE DEF a, b
    <3>. QED
      BY <1>2, <3>2 DEF Turn, WithCommands, a
  <2>. HIDE DEF a
  <2>3. d \in SUBSET Commands
    BY <2>1 DEF Sound, Basic, PeerRecords
  <2>4. a.state = "DISCONNECTED" => d = {}
    BY <2>1 DEF Sound, Clean
  <2>5. \A k \in {"CONNECT", "VERIFY_CONNECT", "DISCONNECT"} : k \in a.commands => k \in d
    OBVIOUS
  <2>. HIDE DEF d
  <2>6. /\ b.state = a.state /\ b.commands = d /\ b.told = a.told /\ Basic(b)
        /\ b.ackDisconnect = a.ackDisconnect /\ Forgotten(b) = Forgotten(a)
        /\ (~ StaleAcks => Waits(b)) => Sound(b)
    BY <2>1, <2>3, <2>4, WithCommandsFacts
  <2>. HIDE DEF b
  <2>7. /\ Sound(c) /\ Moves(r, c) /\ c.state \in {b.state, "DISCONNECTING"}
        /\ Forgotten(c) = Forgotten(r)
    <3>1. CASE b.state = "DISCONNECT_LATER" /\ b.commands = {}
      <4>1. b.told
        BY <2>1, <2>6, <3>1 DEF Sound, Announced, IsConnected
      <4>2. Sound(c) /\ c.state = "DISCONNECTING" /\ Forgotten(c) = Forgotten(b)
        BY <2>6, <3>1, <4>1, DisconnectConnectedFacts
      <4>. QED
        BY <2>1, <2>6, <4>2 DEF Moves, Links, Leaving
    <3>2. CASE ~ (b.state = "DISCONNECT_LATER" /\ b.commands = {})
      <4>1. c = b
        BY <3>2
      <4>2. ~ StaleAcks => Waits(b)
        BY <2>1, <2>5, <2>6, <3>2 DEF Sound, Waits
      <4>. QED
        BY <2>1, <2>6, <4>1, <4>2 DEF Moves, Links, Leaving
    <3>. QED
      BY <3>1, <3>2
  <2>. HIDE DEF c
  <2>8. CASE "ping" \in turn /\ c.state = "CONNECTED"
    <3>1. {"RELIABLE"} \in SUBSET Commands
      BY DEF Commands, Reliable
    <3>2. c.commands \cup {"RELIABLE"} \in SUBSET Commands
      BY <2>7, <3>1 DEF Sound, Basic, PeerRecords
    <3>3. q = WithCommands(c, c.commands \cup {"RELIABLE"})
      BY <2>8
    <3>. HIDE DEF q
    <3>4. Sound(q) /\ q.state = c.state /\ Forgotten(q) = Forgotten(c)
      BY <2>7, <2>8, <3>1, <3>2, <3>3, MoreCommandsSound, WithCommandsFacts
    <3>. QED
      BY <2>2, <2>7, <3>4 DEF Moves, Links
  <2>9. CASE ~ ("ping" \in turn /\ c.state = "CONNECTED")
    BY <2>2, <2>7, <2>9
  <2>. QED
    BY <2>8, <2>9
<1>. QED
  BY <1>1, <1>2

(* enet_protocol_handle_disconnect and the acknowledgement it queues.       *)
LEMMA DisconnectedSound ==
    ASSUME NEW r, Sound(r), NEW asksAck \in BOOLEAN, IsServed(r.state)
    PROVE  Sound(Disconnected(r, asksAck)) /\ Moves(r, Disconnected(r, asksAck))
<1>. DEFINE q == ResetQueues(r)
<1>1. Basic(r) /\ r \in PeerRecords /\ r.state \in States
  BY DEF Sound, Basic, PeerRecords
<1>2. /\ Basic(q) /\ q.waiting = 0 /\ q.told = r.told /\ q.state = r.state
      /\ Forgotten(q) = Forgotten(r) /\ ~ q.needsDispatch
  BY <1>1, ResetQueuesBasic, ResetQueuesFacts DEF Basic
<1>3. CASE r.state \in {"CONNECTION_SUCCEEDED", "DISCONNECTING", "CONNECTING"}
  <2>1. Disconnected(r, asksAck) = DispatchState(q, "ZOMBIE")
    BY <1>3 DEF Disconnected, IsConnected
  <2>. HIDE DEF q
  <2>2. /\ Sound(DispatchState(q, "ZOMBIE")) /\ DispatchState(q, "ZOMBIE").state = "ZOMBIE"
        /\ Forgotten(DispatchState(q, "ZOMBIE")) = Forgotten(q)
    BY <1>2, <1>3, DispatchStateSound
  <2>. QED
    BY <1>2, <1>3, <2>1, <2>2 DEF Moves, Links, Leaving
<1>4. CASE r.state \in {"ACKNOWLEDGING_CONNECT", "CONNECTION_PENDING"}
  <2>1. Disconnected(r, asksAck) = ResetPeer(q)
    BY <1>4 DEF Disconnected, IsConnected
  <2>2. ~ LateDisconnects => ~ r.told
    BY <1>4 DEF Sound, Ended, IsConnected
  <2>. HIDE DEF q
  <2>3. /\ ResetPeer(q).state = "DISCONNECTED" /\ Sound(ResetPeer(q))
        /\ Links(q, ResetPeer(q))
    BY <1>2, <2>2, ResetPeerFacts
  <2>. QED
    BY <1>2, <1>4, <2>1, <2>3 DEF Moves, Links, Leaving
<1>5. CASE IsConnected(r.state) /\ asksAck
  <2>. DEFINE c == ChangeState(q, "ACKNOWLEDGING_DISCONNECT")
              d == [c EXCEPT !.ackDisconnect = TRUE]
  <2>1. Disconnected(r, asksAck) = d
    BY <1>5 DEF Disconnected, IsConnected
  <2>2. r.told
    BY <1>5 DEF Sound, Announced
  <2>. HIDE DEF q
  <2>3. "ACKNOWLEDGING_DISCONNECT" \in States
    BY DEF States
  <2>4. /\ c \in PeerRecords /\ c.state = "ACKNOWLEDGING_DISCONNECT" /\ Counted(c)
        /\ SameButCounts(c, q)
    BY <1>2, <2>3, ChangeStateFacts DEF Basic
  <2>5. QueueSound(c) /\ c.waiting = 0 /\ c.told = r.told
    BY <1>2, <1>5, <2>4 DEF Basic, QueueSound, SameButCounts, IsConnected
  <2>. HIDE DEF c
  <2>6. /\ d \in PeerRecords /\ d.state = c.state /\ d.ackDisconnect = TRUE
        /\ d.waiting = c.waiting /\ d.told = c.told /\ d.limited = c.limited
        /\ d.counted = c.counted /\ d.limitCounted = c.limitCounted
        /\ d.queued = c.queued /\ d.needsDispatch = c.needsDispatch
    BY <2>4 DEF PeerRecords
  <2>. HIDE DEF d
  <2>7. Counted(d) /\ QueueSound(d) /\ Forgotten(d) = Forgotten(q)
    BY <2>4, <2>5, <2>6 DEF Counted, QueueSound, Forgotten, SameButCounts
  <2>8. Sound(d)
    BY <2>2, <2>4, <2>5, <2>6, <2>7
       DEF Sound, Basic, Linked, Pending, Announced, Ended, Clean, Waits, IsConnected
  <2>. QED
    BY <1>2, <1>5, <2>1, <2>4, <2>6, <2>7, <2>8 DEF Moves, Links, Leaving, IsConnected
<1>6. CASE IsConnected(r.state) /\ ~ asksAck
  <2>1. Disconnected(r, asksAck) = DispatchState(q, "ZOMBIE")
    BY <1>6 DEF Disconnected, IsConnected
  <2>. HIDE DEF q
  <2>2. /\ Sound(DispatchState(q, "ZOMBIE")) /\ DispatchState(q, "ZOMBIE").state = "ZOMBIE"
        /\ Forgotten(DispatchState(q, "ZOMBIE")) = Forgotten(q)
    BY <1>2, <1>6, DispatchStateSound DEF IsConnected
  <2>. QED
    BY <1>2, <2>1, <2>2 DEF Moves, Links, Leaving
<1>7. CASE r.state = "ACKNOWLEDGING_DISCONNECT"
  <2>. DEFINE a == r.ackDisconnect \/ asksAck
              d == [r EXCEPT !.ackDisconnect = a]
  <2>1. Disconnected(r, asksAck) = d
    BY <1>1, <1>7 DEF Disconnected, IsConnected, PeerRecords
  <2>2. a \in BOOLEAN /\ (r.ackDisconnect => a)
    OBVIOUS
  <2>. HIDE DEF a
  <2>3. /\ d \in PeerRecords /\ d.state = r.state /\ d.ackDisconnect = a
        /\ d.waiting = r.waiting /\ d.told = r.told /\ d.limited = r.limited
        /\ d.counted = r.counted /\ d.limitCounted = r.limitCounted
        /\ d.queued = r.queued /\ d.needsDispatch = r.needsDispatch
    BY <1>1, <2>2 DEF PeerRecords
  <2>. HIDE DEF d
  <2>4. Counted(d) /\ QueueSound(d) /\ Forgotten(d) = Forgotten(r)
    BY <2>3 DEF Sound, Basic, Counted, QueueSound, Forgotten
  <2>5. Sound(d)
    BY <1>7, <2>2, <2>3, <2>4
       DEF Sound, Basic, Linked, Pending, Announced, Ended, Clean, Waits, IsConnected
  <2>. QED
    BY <1>7, <2>1, <2>3, <2>4, <2>5 DEF Moves, Links, Leaving
<1>. QED
  BY <1>1, <1>3, <1>4, <1>5, <1>6, <1>7 DEF States, IsServed, IsConnected

-----------------------------------------------------------------------------
(* The actions.                                                             *)

Moved == \A p \in Peers : Moves(peer[p], peer'[p])

(* A step that keeps the state and the links of a peer is an allowed move.  *)
LEMMA MovesNowhere ==
    ASSUME NEW r, NEW q, q.state = r.state,
           q.queued = r.queued /\ q.needsDispatch = r.needsDispatch
    PROVE  Moves(r, q)
BY DEF Moves, Links, Leaving, Forgotten

(* A step that changes one peer, soundly and as allowed, keeps the          *)
(* invariant.                                                               *)
LEMMA BecomesSound ==
    ASSUME Inv, NEW p \in Peers, NEW r, Sound(r), Moves(peer[p], r), Becomes(p, r),
           serving' \in Phases \cup Peers
    PROVE  Inv' /\ Moved
<1>1. r \in PeerRecords
  BY DEF Sound, Basic
<1>2. peer' = [peer EXCEPT ![p] = r]
  BY DEF Becomes
<1>3. \A q \in Peers : peer'[q] = IF q = p THEN r ELSE peer[q]
  BY <1>2 DEF Inv
<1>4. peer' \in [Peers -> PeerRecords]
  BY <1>1, <1>2 DEF Inv
<1>5. \A q \in Peers : Sound(peer'[q]) /\ Moves(peer[q], peer'[q])
  BY <1>3, MovesNowhere DEF Inv
<1>. QED
  BY <1>4, <1>5 DEF Inv, Moved

(* enet_host_flush, with one peer disconnected after it or none.            *)
LEMMA FlushedSound ==
    ASSUME Inv, NEW turns \in [Peers -> Turns]
    PROVE  /\ Flushed(turns) \in [Peers -> PeerRecords]
           /\ \A q \in Peers : Sound(Flushed(turns)[q]) /\ Moves(peer[q], Flushed(turns)[q])
<1>1. \A q \in Peers : Sound(Turn(peer[q], turns[q])) /\ Moves(peer[q], Turn(peer[q], turns[q]))
  BY TurnSound DEF Inv
<1>2. \A q \in Peers : Turn(peer[q], turns[q]) \in PeerRecords
  BY <1>1 DEF Sound, Basic
<1>. QED
  BY <1>1, <1>2 DEF Flushed

(* enet_host_flush followed by the reset of one peer keeps the invariant.   *)
LEMMA FlushedThenSound ==
    ASSUME Inv, NEW turns \in [Peers -> Turns], NEW p \in Peers,
           NEW r, Sound(r), Moves(peer[p], r),
           peer' = [Flushed(turns) EXCEPT ![p] = r], UNCHANGED serving
    PROVE  Inv' /\ Moved
<1>1. r \in PeerRecords
  BY DEF Sound, Basic
<1>. DEFINE f == Flushed(turns)
<1>2. /\ f \in [Peers -> PeerRecords]
      /\ \A q \in Peers : Sound(f[q]) /\ Moves(peer[q], f[q])
  BY FlushedSound
<1>. HIDE DEF f
<1>3. peer' = [f EXCEPT ![p] = r]
  BY DEF f
<1>4. \A q \in Peers : peer'[q] = IF q = p THEN r ELSE f[q]
  BY <1>2, <1>3
<1>5. peer' \in [Peers -> PeerRecords]
  BY <1>1, <1>2, <1>3
<1>. QED
  BY <1>2, <1>4, <1>5 DEF Inv, Moved

(* A peer reset by the application is sound.                                *)
LEMMA ResetSound ==
    ASSUME Inv, NEW p \in Peers
    PROVE  /\ ResetPeer(ResetQueues(peer[p])).state = "DISCONNECTED"
           /\ (~ LateDisconnects => ~ peer[p].told) => Sound(ResetPeer(ResetQueues(peer[p])))
           /\ Sound([ResetPeer(ResetQueues(peer[p])) EXCEPT !.told = FALSE])
           /\ [ResetPeer(ResetQueues(peer[p])) EXCEPT !.told = FALSE].state = "DISCONNECTED"
           /\ Sound([ResetPeer(peer[p]) EXCEPT !.told = FALSE])
           /\ [ResetPeer(peer[p]) EXCEPT !.told = FALSE].state = "DISCONNECTED"
           /\ Links(peer[p], ResetPeer(ResetQueues(peer[p])))
           /\ Links(peer[p], [ResetPeer(ResetQueues(peer[p])) EXCEPT !.told = FALSE])
           /\ Links(peer[p], [ResetPeer(peer[p]) EXCEPT !.told = FALSE])
<1>. DEFINE r == peer[p]
            q == ResetQueues(r)
<1>1. Basic(r) /\ Basic(q)
  BY ResetQueuesBasic DEF Inv, Sound
<1>2. q.told = r.told /\ Forgotten(q) = Forgotten(r) /\ ~ q.needsDispatch
  BY <1>1, ResetQueuesFacts DEF Basic
<1>. HIDE DEF q, r
<1>3. /\ Links(r, [ResetPeer(r) EXCEPT !.told = FALSE])
      /\ Links(q, ResetPeer(q)) /\ Links(q, [ResetPeer(q) EXCEPT !.told = FALSE])
  BY <1>1, ResetPeerFacts
<1>4. Links(r, ResetPeer(q)) /\ Links(r, [ResetPeer(q) EXCEPT !.told = FALSE])
  BY <1>2, <1>3 DEF Links
<1>5. /\ ResetPeer(q).state = "DISCONNECTED"
      /\ (~ LateDisconnects => ~ r.told) => Sound(ResetPeer(q))
      /\ Sound([ResetPeer(q) EXCEPT !.told = FALSE])
      /\ [ResetPeer(q) EXCEPT !.told = FALSE].state = "DISCONNECTED"
      /\ Sound([ResetPeer(r) EXCEPT !.told = FALSE])
      /\ [ResetPeer(r) EXCEPT !.told = FALSE].state = "DISCONNECTED"
  BY <1>1, <1>2, ResetPeerFacts
<1>. QED
  BY <1>3, <1>4, <1>5 DEF q, r

(* A peer may become free from every state.                                 *)
LEMMA MovesOut ==
    ASSUME NEW r, NEW q, q.state = "DISCONNECTED", Links(r, q)
    PROVE  Moves(r, q)
BY DEF Moves, Leaving

(* The application's calls.                                                 *)
LEMMA HostConnectSound ==
    ASSUME Inv, NEW p \in Peers, HostConnect(p), UNCHANGED serving
    PROVE  Inv' /\ Moved
<1>. DEFINE r == peer[p]
            d == r.commands \cup {"CONNECT"}
            q == [r EXCEPT !.state = "CONNECTING", !.commands = d]
<1>1. r.state = "DISCONNECTED" /\ r.queued <= MaxLinks /\ Becomes(p, q)
  BY DEF HostConnect, IsFree
<1>2. Sound(r) /\ r \in PeerRecords /\ serving' \in Phases \cup Peers
  BY DEF Inv
<1>. HIDE DEF r
<1>3. d \in SUBSET Commands /\ "CONNECT" \in d /\ "CONNECTING" \in States
  BY <1>2 DEF PeerRecords, Commands, Reliable, States
<1>. HIDE DEF d
<1>4. /\ q \in PeerRecords /\ q.state = "CONNECTING" /\ q.commands = d
      /\ q.waiting = r.waiting /\ q.told = r.told /\ q.limited = r.limited
      /\ q.counted = r.counted /\ q.limitCounted = r.limitCounted
      /\ q.queued = r.queued /\ q.needsDispatch = r.needsDispatch
  BY <1>2, <1>3 DEF PeerRecords
<1>. HIDE DEF q
<1>5. Counted(q) /\ QueueSound(q) /\ q.waiting = 0 /\ (~ LateDisconnects => ~ q.told)
  BY <1>1, <1>2, <1>4
     DEF Sound, Basic, Counted, QueueSound, IsConnected, Clean, Ended
<1>6. Sound(q)
  BY <1>3, <1>4, <1>5
     DEF Sound, Basic, Linked, Pending, Announced, Ended, Clean, Waits, IsConnected
<1>7. Moves(peer[p], q)
  BY <1>1, <1>4 DEF Moves, Links, Leaving, Forgotten, r
<1>. QED
  BY <1>1, <1>2, <1>6, <1>7, BecomesSound

(* Queueing a command for a peer in use keeps the invariant.                *)
LEMMA MoreCommands ==
    ASSUME Inv, NEW p \in Peers, NEW c \in SUBSET Commands, peer[p].state # "DISCONNECTED",
           Becomes(p, [peer[p] EXCEPT !.commands = @ \cup c]), UNCHANGED serving
    PROVE  Inv' /\ Moved
<1>1. /\ Sound(peer[p]) /\ peer[p] \in PeerRecords
      /\ serving' \in Phases \cup Peers
  BY DEF Inv
<1>2. Becomes(p, WithCommands(peer[p], peer[p].commands \cup c))
  BY <1>1 DEF WithCommands, PeerRecords
<1>3. LET q == WithCommands(peer[p], peer[p].commands \cup c) IN Sound(q) /\ Moves(peer[p], q)
  BY <1>1, MoreCommandsSound
<1>. QED
  BY <1>1, <1>2, <1>3, BecomesSound

(* enet_peer_receive keeps the invariant.                                   *)
LEMMA PeerReceiveSound ==
    ASSUME Inv, NEW p \in Peers, PeerReceive(p), UNCHANGED serving
    PROVE  Inv' /\ Moved
<1>. DEFINE r == peer[p]
            n == r.waiting - 1
            q == [r EXCEPT !.waiting = n]
<1>1. r.waiting > 0 /\ Becomes(p, q)
  BY DEF PeerReceive
<1>2. Sound(r) /\ r \in PeerRecords /\ serving' \in Phases \cup Peers
  BY DEF Inv
<1>. HIDE DEF r
<1>3. n \in Nat /\ (n > 0 => r.waiting > 0)
  BY <1>1, <1>2 DEF PeerRecords
<1>. HIDE DEF n
<1>4. /\ q \in PeerRecords /\ q.state = r.state /\ q.commands = r.commands
      /\ q.waiting = n /\ q.told = r.told /\ q.limited = r.limited
      /\ q.counted = r.counted /\ q.limitCounted = r.limitCounted
      /\ q.queued = r.queued /\ q.needsDispatch = r.needsDispatch
      /\ q.ackDisconnect = r.ackDisconnect
  BY <1>2, <1>3 DEF PeerRecords
<1>. HIDE DEF q
<1>5. r.state # "DISCONNECTED"
  BY <1>1, <1>2 DEF Sound, Clean
<1>6. Counted(q) /\ QueueSound(q)
  BY <1>2, <1>4 DEF Sound, Basic, Counted, QueueSound
<1>7. Sound(q)
  BY <1>1, <1>2, <1>3, <1>4, <1>5, <1>6
     DEF Sound, Basic, Linked, Pending, Announced, Ended, Clean, Waits
<1>8. Moves(peer[p], q)
  BY <1>4, MovesNowhere DEF r
<1>. QED
  BY <1>1, <1>2, <1>7, <1>8, BecomesSound

(* enet_peer_reset keeps the invariant.                                     *)
LEMMA PeerResetSound ==
    ASSUME Inv, NEW p \in Peers, PeerReset(p), UNCHANGED serving
    PROVE  Inv' /\ Moved
BY ResetSound, MovesOut, BecomesSound DEF PeerReset, Inv

(* enet_peer_disconnect keeps the invariant.                                *)
LEMMA PeerDisconnectSound ==
    ASSUME Inv, NEW p \in Peers, PeerDisconnect(p), UNCHANGED serving
    PROVE  Inv' /\ Moved
<1>1. Sound(peer[p]) /\ serving' \in Phases \cup Peers
  BY DEF Inv
<1>2. CASE IsConnected(peer[p].state) /\ Becomes(p, DisconnectConnected(peer[p]))
  <2>1. peer[p].told
    BY <1>1, <1>2 DEF Sound, Announced
  <2>2. /\ Sound(DisconnectConnected(peer[p]))
        /\ DisconnectConnected(peer[p]).state = "DISCONNECTING"
        /\ Forgotten(DisconnectConnected(peer[p])) = Forgotten(peer[p])
    BY <1>1, <1>2, <2>1, DisconnectConnectedFacts DEF Sound, IsConnected
  <2>3. Moves(peer[p], DisconnectConnected(peer[p]))
    BY <2>2 DEF Moves, Links, Leaving
  <2>. QED
    BY <1>1, <1>2, <2>2, <2>3, BecomesSound
<1>3. ASSUME ~ IsConnected(peer[p].state), NEW turns \in [Peers -> Turns],
             peer' = [Flushed(turns) EXCEPT ![p] = ResetPeer(ResetQueues(peer[p]))]
      PROVE  Inv' /\ Moved
  <2>1. ~ LateDisconnects => ~ peer[p].told
    BY <1>1, <1>3 DEF PeerDisconnect, Sound, Ended
  <2>. QED
    BY <1>3, <2>1, ResetSound, MovesOut, FlushedThenSound
<1>. QED
  BY <1>2, <1>3 DEF PeerDisconnect

(* enet_peer_disconnect_now keeps the invariant.                            *)
LEMMA PeerDisconnectNowSound ==
    ASSUME Inv, NEW p \in Peers, PeerDisconnectNow(p), UNCHANGED serving
    PROVE  Inv' /\ Moved
<1>1. CASE PeerReset(p)
  BY <1>1, PeerResetSound
<1>2. ASSUME NEW turns \in [Peers -> Turns],
             peer' = [Flushed(turns) EXCEPT
                         ![p] = [ResetPeer(ResetQueues(peer[p])) EXCEPT !.told = FALSE]]
      PROVE  Inv' /\ Moved
  BY <1>2, ResetSound, MovesOut, FlushedThenSound
<1>. QED
  BY <1>1, <1>2 DEF PeerDisconnectNow

(* enet_peer_disconnect_later keeps the invariant.                          *)
LEMMA PeerDisconnectLaterSound ==
    ASSUME Inv, NEW p \in Peers, PeerDisconnectLater(p), UNCHANGED serving
    PROVE  Inv' /\ Moved
<1>1. CASE ~ (IsConnected(peer[p].state) /\ peer[p].commands # {})
  BY <1>1, PeerDisconnectSound DEF PeerDisconnectLater
<1>2. CASE IsConnected(peer[p].state) /\ peer[p].commands # {}
  <2>. DEFINE r == peer[p]
              q == [r EXCEPT !.state = "DISCONNECT_LATER"]
  <2>1. Becomes(p, q) /\ IsConnected(r.state) /\ r.commands # {}
    BY <1>2 DEF PeerDisconnectLater
  <2>2. Sound(r) /\ r \in PeerRecords /\ serving' \in Phases \cup Peers
    BY DEF Inv
  <2>. HIDE DEF r
  <2>3. /\ q \in PeerRecords /\ q.state = "DISCONNECT_LATER" /\ q.commands = r.commands
        /\ q.waiting = r.waiting /\ q.told = r.told /\ q.limited = r.limited
        /\ q.counted = r.counted /\ q.limitCounted = r.limitCounted
        /\ q.queued = r.queued /\ q.needsDispatch = r.needsDispatch
    BY <2>2 DEF PeerRecords, States
  <2>. HIDE DEF q
  <2>4. IsConnected(q.state)
    BY <2>3 DEF IsConnected
  <2>5. Counted(q)
    BY <2>1, <2>2, <2>3, <2>4, CountedIs DEF Sound, Basic
  <2>6. QueueSound(q) /\ r.told
    BY <2>1, <2>2, <2>3 DEF Sound, Basic, QueueSound, Announced, IsConnected
  <2>7. Sound(q)
    BY <2>1, <2>3, <2>4, <2>5, <2>6
       DEF Sound, Basic, Linked, Pending, Announced, Ended, Clean, Waits
  <2>8. Moves(peer[p], q)
    BY <2>1, <2>3 DEF Moves, Links, Leaving, Forgotten, IsConnected, r
  <2>. QED
    BY <2>1, <2>2, <2>7, <2>8, BecomesSound
<1>. QED
  BY <1>1, <1>2

(* Every call of the application keeps the invariant.                       *)
LEMMA ApplicationSound ==
    ASSUME Inv, ApplicationStep
    PROVE  Inv' /\ Moved
<1>0. UNCHANGED serving
  BY DEF ApplicationStep
<1>1. ASSUME NEW p \in Peers, NEW kind \in {"RELIABLE", "UNRELIABLE"}, PeerSend(p, kind)
      PROVE  Inv' /\ Moved
  <2>1. {kind} \in SUBSET Commands
    BY DEF Commands, Reliable
  <2>. QED
    BY <1>0, <1>1, <2>1, MoreCommands DEF PeerSend
<1>2. ASSUME NEW p \in Peers, ThrottleConfigure(p)
      PROVE  Inv' /\ Moved
  <2>1. {"RELIABLE"} \in SUBSET Commands
    BY DEF Commands, Reliable
  <2>. QED
    BY <1>0, <1>2, <2>1, MoreCommands DEF ThrottleConfigure
<1>3. CASE HostFlush
  <2>1. PICK turns \in [Peers -> Turns] : peer' = Flushed(turns)
    BY <1>3 DEF HostFlush
  <2>. QED
    BY <1>0, <2>1, FlushedSound DEF Inv, Moved
<1>. QED
  BY <1>0, <1>1, <1>2, <1>3, HostConnectSound, PeerReceiveSound, PeerResetSound,
     PeerDisconnectSound, PeerDisconnectNowSound, PeerDisconnectLaterSound
     DEF ApplicationStep

(* enet_protocol_dispatch_incoming_commands taking one peer off the queue.  *)
LEMMA UnlinkedFacts ==
    ASSUME NEW r, Sound(r), r.queued > 0,
           NEW q, q = [r EXCEPT !.queued = @ - 1, !.needsDispatch = FALSE]
    PROVE  /\ Basic(q)
           /\ q.state = r.state /\ q.commands = r.commands /\ q.waiting = r.waiting
           /\ q.told = r.told /\ q.ackDisconnect = r.ackDisconnect
           /\ q.limited = r.limited /\ q.needsDispatch = FALSE
           /\ Forgotten(q) \in {Forgotten(r), Forgotten(r) - 1}
<1>. DEFINE n == r.queued - 1
            d == [r EXCEPT !.queued = n, !.needsDispatch = FALSE]
<1>1. r \in PeerRecords
  BY DEF Sound, Basic
<1>2. q = d
  BY <1>1 DEF PeerRecords
<1>3. n \in Int /\ n >= 0 /\ n <= MaxLinks
  BY <1>1, PeersAssumption DEF PeerRecords, Sound, Basic, QueueSound
<1>. HIDE DEF n
<1>4. /\ d \in PeerRecords /\ d.state = r.state /\ d.commands = r.commands
      /\ d.waiting = r.waiting /\ d.told = r.told /\ d.limited = r.limited
      /\ d.counted = r.counted /\ d.limitCounted = r.limitCounted
      /\ d.queued = n /\ d.needsDispatch = FALSE
      /\ d.ackDisconnect = r.ackDisconnect
  BY <1>1, <1>3 DEF PeerRecords
<1>. HIDE DEF d
<1>5. Counted(d) /\ QueueSound(d)
  BY <1>3, <1>4, PeersAssumption DEF Sound, Basic, Counted, QueueSound
<1>6. Forgotten(d) \in {Forgotten(r), Forgotten(r) - 1}
  <2>1. r.queued \in Int /\ r.needsDispatch \in BOOLEAN
    BY <1>1 DEF PeerRecords
  <2>. QED
    BY <1>4, <2>1 DEF Forgotten, One, n
<1>. QED
  BY <1>2, <1>4, <1>5, <1>6 DEF Basic

(* Taking a peer out of dispatchQueue keeps the invariant.                  *)
LEMMA DispatchIncomingSound ==
    ASSUME Inv, NEW p \in Peers, DispatchIncoming(p)
    PROVE  Inv' /\ Moved
<1>. DEFINE o == peer[p]
            r == [o EXCEPT !.queued = @ - 1, !.needsDispatch = FALSE]
<1>0. r = [peer[p] EXCEPT !.queued = @ - 1, !.needsDispatch = FALSE]
  OBVIOUS
<1>1. Sound(o) /\ o \in PeerRecords /\ o.queued > 0 /\ o.state \in States
  BY DEF Inv, DispatchIncoming, PeerRecords
<1>2. serving' \in Phases \cup Peers
  BY DEF DispatchIncoming, Inv, Phases
<1>3. \/ /\ r.state \in {"CONNECTION_PENDING", "CONNECTION_SUCCEEDED"}
         /\ Becomes(p, [ChangeState(r, "CONNECTED") EXCEPT !.told = TRUE])
      \/ /\ r.state \in {"TIMEDOUT", "ZOMBIE"}
         /\ Becomes(p, [ResetPeer(r) EXCEPT !.told = FALSE])
      \/ /\ r.state = "CONNECTED" /\ r.waiting > 0
         /\ LET taken == [r EXCEPT !.waiting = @ - 1]
            IN  Becomes(p, IF taken.waiting > 0 THEN Enqueue(taken) ELSE taken)
      \/ /\ \/ r.state = "CONNECTED" /\ r.waiting = 0
            \/ r.state \in {"DISCONNECTED", "CONNECTING", "ACKNOWLEDGING_CONNECT",
                            "DISCONNECT_LATER", "DISCONNECTING",
                            "ACKNOWLEDGING_DISCONNECT"}
         /\ Becomes(p, r)
  BY DEF DispatchIncoming
<1>. HIDE DEF o
<1>4. /\ Basic(r) /\ r.state = o.state /\ r.commands = o.commands
      /\ r.waiting = o.waiting /\ r.told = o.told /\ r.ackDisconnect = o.ackDisconnect
      /\ r.limited = o.limited /\ r.needsDispatch = FALSE
      /\ Forgotten(r) \in {Forgotten(o), Forgotten(o) - 1}
  BY <1>1, UnlinkedFacts
<1>. HIDE DEF r
<1>5. CASE /\ r.state \in {"CONNECTION_PENDING", "CONNECTION_SUCCEEDED"}
           /\ Becomes(p, [ChangeState(r, "CONNECTED") EXCEPT !.told = TRUE])
  <2>1. r.waiting = 0 /\ (~ LateDisconnects => ~ r.told)
    BY <1>1, <1>4, <1>5 DEF Sound, Linked, Ended, Basic, PeerRecords, IsConnected
  <2>2. NotifyConnect(r, TRUE) = [ChangeState(r, "CONNECTED") EXCEPT !.told = TRUE]
    BY DEF NotifyConnect
  <2>3. Sound(NotifyConnect(r, TRUE)) /\ Forgotten(NotifyConnect(r, TRUE)) = Forgotten(r)
    BY <1>4, <1>5, <2>1, NotifyConnectSound
  <2>4. Moves(o, NotifyConnect(r, TRUE))
    BY <1>4, <1>5, <2>3 DEF Moves, Links, Leaving
  <2>. QED
    BY <1>2, <1>5, <2>2, <2>3, <2>4, BecomesSound DEF o
<1>6. CASE /\ r.state \in {"TIMEDOUT", "ZOMBIE"}
           /\ Becomes(p, [ResetPeer(r) EXCEPT !.told = FALSE])
  <2>. DEFINE q == [ResetPeer(r) EXCEPT !.told = FALSE]
  <2>1. Sound(q) /\ q.state = "DISCONNECTED" /\ Forgotten(q) = Forgotten(r)
    BY <1>4, ResetPeerFacts
  <2>2. Becomes(p, q)
    BY <1>6
  <2>. HIDE DEF q
  <2>3. Links(o, q)
    BY <1>4, <2>1 DEF Links
  <2>. QED
    BY <1>2, <2>1, <2>2, <2>3, MovesOut, BecomesSound DEF o
<1>7. CASE /\ r.state = "CONNECTED" /\ r.waiting > 0
           /\ LET taken == [r EXCEPT !.waiting = @ - 1]
              IN  Becomes(p, IF taken.waiting > 0 THEN Enqueue(taken) ELSE taken)
  <2>. DEFINE n == r.waiting - 1
              t == [r EXCEPT !.waiting = n]
              q == IF t.waiting > 0 THEN Enqueue(t) ELSE t
  <2>1. r \in PeerRecords
    BY <1>4 DEF Basic
  <2>2. Becomes(p, q)
    BY <1>7, <2>1 DEF PeerRecords
  <2>3. n \in Nat
    BY <1>7, <2>1 DEF PeerRecords
  <2>. HIDE DEF n
  <2>4. /\ t \in PeerRecords /\ t.state = "CONNECTED" /\ t.waiting = n
        /\ t.told = r.told /\ t.limited = r.limited
        /\ t.counted = r.counted /\ t.limitCounted = r.limitCounted
        /\ t.queued = r.queued /\ t.needsDispatch = r.needsDispatch
    BY <1>7, <2>1, <2>3 DEF PeerRecords
  <2>. HIDE DEF t
  <2>5. Basic(t) /\ t.told
    <3>1. Counted(t) /\ QueueSound(t)
      BY <1>4, <1>7, <2>4 DEF Basic, Counted, QueueSound
    <3>2. o.told
      BY <1>1, <1>4, <1>7 DEF Sound, Announced, IsConnected
    <3>. QED
      BY <1>4, <2>4, <3>1, <3>2 DEF Basic
  <2>6. /\ Enqueue(t) \in PeerRecords /\ QueueSound(Enqueue(t)) /\ Enqueue(t).needsDispatch
        /\ SameButQueue(Enqueue(t), t) /\ Forgotten(Enqueue(t)) = Forgotten(t)
    BY <2>4, <2>5, EnqueueFacts DEF Basic
  <2>7. Counted(Enqueue(t))
    BY <2>5, <2>6 DEF Basic, Counted, SameButQueue
  <2>8. /\ Basic(q) /\ q.state = "CONNECTED" /\ q.told
        /\ (q.waiting > 0 => q.needsDispatch) /\ Forgotten(q) = Forgotten(r)
    BY <2>4, <2>5, <2>6, <2>7 DEF Basic, SameButQueue, Forgotten
  <2>. HIDE DEF q
  <2>9. Sound(q) /\ Moves(o, q)
    BY <1>4, <1>7, <2>8
       DEF Sound, Linked, Pending, Announced, Ended, Clean, Waits, Moves, Links, Leaving,
           IsConnected
  <2>. QED
    BY <1>2, <2>2, <2>9, BecomesSound DEF o
<1>8. CASE /\ \/ r.state = "CONNECTED" /\ r.waiting = 0
              \/ r.state \in {"DISCONNECTED", "CONNECTING", "ACKNOWLEDGING_CONNECT",
                              "DISCONNECT_LATER", "DISCONNECTING",
                              "ACKNOWLEDGING_DISCONNECT"}
           /\ Becomes(p, r)
  <2>1. Sound(r)
    BY <1>1, <1>4, <1>8 DEF Sound, Linked, Pending, Announced, Ended, Clean, Waits
  <2>2. Moves(peer[p], r)
    BY <1>4 DEF Moves, Links, Leaving, o
  <2>. QED
    BY <1>2, <1>8, <2>1, <2>2, BecomesSound
<1>. QED
  BY <1>3, <1>5, <1>6, <1>7, <1>8

(* The commands of a peer.                                                  *)
LEMMA HandleConnectSound ==
    ASSUME Inv, NEW p \in Peers, HandleConnect(p)
    PROVE  Inv' /\ Moved
<1>. DEFINE r == peer[p]
            d == r.commands \cup {"VERIFY_CONNECT"}
<1>1. PICK limited \in BOOLEAN :
          Silent(p, [peer[p] EXCEPT !.state = "ACKNOWLEDGING_CONNECT",
                                    !.limited = limited,
                                    !.commands = @ \cup {"VERIFY_CONNECT"}])
  BY DEF HandleConnect
<1>. DEFINE q == [r EXCEPT !.state = "ACKNOWLEDGING_CONNECT", !.limited = limited,
                           !.commands = d]
<1>2. r.state = "DISCONNECTED" /\ r.queued <= MaxLinks /\ Sound(r) /\ r \in PeerRecords
  BY DEF Inv, HandleConnect, IsFree
<1>3. Becomes(p, q) /\ serving' \in Phases \cup Peers
  BY <1>1, <1>2 DEF Inv, Silent, PeerRecords
<1>. HIDE DEF r
<1>4. d \in SUBSET Commands /\ "VERIFY_CONNECT" \in d /\ "ACKNOWLEDGING_CONNECT" \in States
  BY <1>2 DEF PeerRecords, Commands, Reliable, States
<1>. HIDE DEF d
<1>5. /\ q \in PeerRecords /\ q.state = "ACKNOWLEDGING_CONNECT" /\ q.commands = d
      /\ q.waiting = r.waiting /\ q.told = r.told
      /\ q.counted = r.counted /\ q.limitCounted = r.limitCounted
      /\ q.queued = r.queued /\ q.needsDispatch = r.needsDispatch
  BY <1>2, <1>4 DEF PeerRecords
<1>. HIDE DEF q
<1>6. r.counted = 0 /\ r.limitCounted = 0
  BY <1>2, CountedIs DEF Sound, Basic, IsConnected
<1>7. Counted(q)
  BY <1>5, <1>6, CountedIs DEF IsConnected
<1>8. QueueSound(q) /\ q.waiting = 0 /\ (~ LateDisconnects => ~ q.told)
  BY <1>2, <1>5 DEF Sound, Basic, QueueSound, Clean, Ended, IsConnected
<1>9. Sound(q)
  BY <1>4, <1>5, <1>7, <1>8
     DEF Sound, Basic, Linked, Pending, Announced, Ended, Clean, Waits, IsConnected
<1>10. Moves(peer[p], q)
  BY <1>2, <1>5 DEF Moves, Links, Leaving, Forgotten, r
<1>. QED
  BY <1>3, <1>9, <1>10, BecomesSound

(* A handler that reports an event keeps the invariant if its peer stays    *)
(* sound.                                                                   *)
LEMMA ReportsSound ==
    ASSUME Inv, NEW p \in Peers, NEW r, Sound(r), Moves(peer[p], r),
           Reports(p, r) \/ Silent(p, r)
    PROVE  Inv' /\ Moved
<1>1. Becomes(p, r) /\ serving' \in Phases \cup Peers
  BY DEF Reports, Silent, Inv
<1>. QED
  BY <1>1, BecomesSound

(* A VERIFY_CONNECT, accepted or refused, keeps the invariant.              *)
LEMMA HandleVerifyConnectSound ==
    ASSUME Inv, NEW p \in Peers, HandleVerifyConnect(p)
    PROVE  Inv' /\ Moved
<1>. DEFINE r == peer[p]
<1>1. r.state = "CONNECTING" /\ Sound(r) /\ r \in PeerRecords /\ Basic(r)
  BY DEF Inv, HandleVerifyConnect, Sound
<1>2. /\ r.waiting = 0 /\ ~ IsConnected(r.state) /\ ~ Leaving(r.state)
      /\ ~ LateDisconnects => ~ r.told
  BY <1>1 DEF Sound, Linked, Ended, PeerRecords, IsConnected, Leaving
<1>3. CASE Silent(p, DispatchState(r, "ZOMBIE"))
  <2>1. /\ Sound(DispatchState(r, "ZOMBIE")) /\ DispatchState(r, "ZOMBIE").state = "ZOMBIE"
        /\ Forgotten(DispatchState(r, "ZOMBIE")) = Forgotten(r)
    BY <1>1, DispatchStateSound
  <2>. QED
    BY <1>3, <2>1, ReportsSound DEF Moves, Links, Leaving
<1>4. ASSUME NEW limited \in BOOLEAN,
             Reports(p, NotifyConnect([r EXCEPT !.commands = @ \ {"CONNECT"},
                                                !.limited = limited], WithEvent))
      PROVE  Inv' /\ Moved
  <2>. DEFINE d == r.commands \ {"CONNECT"}
              q == [r EXCEPT !.commands = d, !.limited = limited]
              e == NotifyConnect(q, WithEvent)
  <2>1. Reports(p, e)
    BY <1>1, <1>4 DEF PeerRecords
  <2>. HIDE DEF r
  <2>2. d \in SUBSET Commands
    BY <1>1 DEF PeerRecords
  <2>. HIDE DEF d
  <2>3. /\ q \in PeerRecords /\ q.state = r.state /\ q.waiting = r.waiting
        /\ q.told = r.told
        /\ q.counted = r.counted /\ q.limitCounted = r.limitCounted
        /\ q.queued = r.queued /\ q.needsDispatch = r.needsDispatch
    BY <1>1, <2>2 DEF PeerRecords
  <2>. HIDE DEF q
  <2>4. Counted(q)
    BY <1>1, <1>2, <2>3, CountedIs DEF Basic
  <2>5. Basic(q)
    BY <1>1, <2>3, <2>4 DEF Basic, QueueSound
  <2>6. WithEvent \in BOOLEAN
    BY DEF WithEvent
  <2>7. Sound(e) /\ Forgotten(e) = Forgotten(r)
    <3>1. Sound(e) /\ Forgotten(e) = Forgotten(q)
      BY <1>1, <1>2, <2>3, <2>5, <2>6, NotifyConnectSound
    <3>. QED
      BY <2>3, <3>1 DEF Forgotten
  <2>. HIDE DEF e
  <2>8. Moves(peer[p], e)
    BY <1>1, <2>7 DEF Moves, Links, Leaving, r
  <2>. QED
    BY <2>1, <2>7, <2>8, ReportsSound
<1>. QED
  BY <1>3, <1>4 DEF HandleVerifyConnect

(* A DISCONNECT keeps the invariant.                                        *)
LEMMA HandleDisconnectSound ==
    ASSUME Inv, NEW p \in Peers, HandleDisconnect(p)
    PROVE  Inv' /\ Moved
<1>1. PICK asksAck \in BOOLEAN : Silent(p, Disconnected(peer[p], asksAck))
  BY DEF HandleDisconnect
<1>2. Sound(peer[p]) /\ IsServed(peer[p].state)
  BY DEF Inv, HandleDisconnect
<1>. QED
  BY <1>1, <1>2, DisconnectedSound, ReportsSound

(* A BANDWIDTH_LIMIT keeps the invariant: the peer's part in                *)
(* bandwidthLimitedPeers follows.                                           *)
LEMMA HandleBandwidthLimitSound ==
    ASSUME Inv, NEW p \in Peers, HandleBandwidthLimit(p)
    PROVE  Inv' /\ Moved
<1>. DEFINE r == peer[p]
<1>1. PICK limited \in BOOLEAN :
          Silent(p, [peer[p] EXCEPT
                        !.limitCounted = @ - One(peer[p].limited) + One(limited),
                        !.limited = limited])
  BY DEF HandleBandwidthLimit
<1>. DEFINE n == r.limitCounted - One(r.limited) + One(limited)
            q == [r EXCEPT !.limitCounted = n, !.limited = limited]
<1>2. Sound(r) /\ r \in PeerRecords /\ IsConnected(r.state) /\ Basic(r)
  BY DEF Inv, HandleBandwidthLimit, Sound, Basic
<1>3. Silent(p, q)
  BY <1>1, <1>2 DEF PeerRecords
<1>4. r.limitCounted = One(r.limited) /\ r.counted = 1
  BY <1>2, CountedIs DEF Basic
<1>5. One(r.limited) \in Int /\ One(limited) \in Int
  BY DEF One
<1>6. n = One(limited) /\ n \in Int
  BY <1>4, <1>5
<1>. HIDE DEF n, r
<1>7. /\ q \in PeerRecords /\ q.state = r.state /\ q.commands = r.commands
      /\ q.waiting = r.waiting /\ q.told = r.told /\ q.limited = limited
      /\ q.counted = r.counted /\ q.limitCounted = n
      /\ q.queued = r.queued /\ q.needsDispatch = r.needsDispatch
      /\ q.ackDisconnect = r.ackDisconnect
  BY <1>2, <1>6 DEF PeerRecords
<1>. HIDE DEF q
<1>8. Counted(q)
  BY <1>2, <1>4, <1>6, <1>7, CountedIs
<1>9. QueueSound(q)
  BY <1>2, <1>7 DEF Basic, QueueSound
<1>10. Sound(q)
  BY <1>2, <1>7, <1>8, <1>9
     DEF Sound, Basic, Linked, Pending, Announced, Ended, Clean, Waits, IsConnected
<1>11. Moves(peer[p], q)
  BY <1>7, MovesNowhere DEF r
<1>. QED
  BY <1>3, <1>10, <1>11, ReportsSound

(* A packet that can be dispatched keeps the invariant.                     *)
LEMMA HandleSendSound ==
    ASSUME Inv, NEW p \in Peers, HandleSend(p)
    PROVE  Inv' /\ Moved
<1>. DEFINE r == peer[p]
            n == r.waiting + 1
            t == [r EXCEPT !.waiting = n]
            q == Enqueue(t)
<1>1. /\ Sound(r) /\ Basic(r) /\ r \in PeerRecords
      /\ IsConnected(r.state) /\ Silent(p, q)
  BY DEF Inv, HandleSend, TakesPacket, Sound, Basic
<1>2. r.told /\ r.state # "DISCONNECTED"
  BY <1>1 DEF Sound, Announced, IsConnected
<1>. HIDE DEF r
<1>3. n \in Nat
  BY <1>1 DEF PeerRecords
<1>. HIDE DEF n
<1>4. /\ t \in PeerRecords /\ t.state = r.state
      /\ t.told = r.told /\ t.limited = r.limited /\ t.commands = r.commands
      /\ t.counted = r.counted /\ t.limitCounted = r.limitCounted
      /\ t.queued = r.queued /\ t.needsDispatch = r.needsDispatch
  BY <1>1, <1>3 DEF PeerRecords
<1>. HIDE DEF t
<1>5. Counted(t) /\ QueueSound(t) /\ Forgotten(t) = Forgotten(r)
  BY <1>1, <1>4 DEF Basic, Counted, QueueSound, Forgotten
<1>6. /\ q \in PeerRecords /\ QueueSound(q) /\ q.needsDispatch /\ SameButQueue(q, t)
      /\ Forgotten(q) = Forgotten(t)
  BY <1>2, <1>4, <1>5, EnqueueFacts
<1>. HIDE DEF q
<1>7. /\ q.state = r.state /\ q.commands = r.commands /\ q.told /\ Counted(q)
      /\ IsConnected(q.state)
  BY <1>1, <1>2, <1>4, <1>5, <1>6 DEF SameButQueue, Counted
<1>8. Sound(q)
  BY <1>1, <1>6, <1>7
     DEF Sound, Basic, Linked, Pending, Announced, Ended, Clean, Waits, IsConnected
<1>9. Moves(peer[p], q)
  BY <1>5, <1>6, <1>7 DEF Moves, Links, Leaving, r
<1>. QED
  BY <1>1, <1>8, <1>9, ReportsSound

(* An acknowledgement of any command on the lists keeps the invariant.      *)
LEMMA HandleAcknowledgeSound ==
    ASSUME Inv, NEW p \in Peers, HandleAcknowledge(p)
    PROVE  Inv' /\ Moved
<1>. DEFINE o == peer[p]
<1>. DEFINE Result(kind, left) ==
        LET r == [o EXCEPT !.commands = left] IN
        /\ IsServed(r.state)
        /\ kind = "CONNECT" => StaleAcks
        /\ \/ /\ r.state = "ACKNOWLEDGING_CONNECT" /\ kind = "VERIFY_CONNECT"
              /\ Reports(p, NotifyConnect(r, WithEvent))
           \/ /\ r.state = "DISCONNECTING" /\ kind = "DISCONNECT"
              /\ Reports(p, NotifyDisconnect(r, WithEvent, "ZOMBIE"))
           \/ /\ r.state = "DISCONNECT_LATER" /\ left = {}
              /\ Silent(p, DisconnectConnected(r))
           \/ /\ ~ (r.state = "ACKNOWLEDGING_CONNECT" /\ kind = "VERIFY_CONNECT")
              /\ ~ (r.state = "DISCONNECTING" /\ kind = "DISCONNECT")
              /\ ~ (r.state = "DISCONNECT_LATER" /\ left = {})
              /\ Silent(p, r)
<1>0. PICK kind \in o.commands \cap Reliable :
        \E left \in {o.commands \ {kind}}
                       \cup (IF kind = "RELIABLE" THEN {o.commands} ELSE {}) :
            Result(kind, left)
  BY DEF HandleAcknowledge
<1>1. PICK left \in {o.commands \ {kind}}
                       \cup (IF kind = "RELIABLE" THEN {o.commands} ELSE {}) :
            Result(kind, left)
  BY <1>0
<1>. DEFINE r == WithCommands(o, left)
<1>2. Sound(o) /\ o \in PeerRecords
  BY DEF Inv
<1>3. left \in SUBSET Commands
  BY <1>2 DEF PeerRecords
<1>4. /\ r.state = o.state /\ r.commands = left /\ r.told = o.told
      /\ r.waiting = o.waiting /\ r.ackDisconnect = o.ackDisconnect /\ Basic(r)
      /\ Forgotten(r) = Forgotten(o) /\ r.needsDispatch = o.needsDispatch
      /\ (o.state = "DISCONNECTED" => left = {}) /\ (~ StaleAcks => Waits(r)) => Sound(r)
  BY <1>2, <1>3, WithCommandsFacts
<1>5. /\ IsServed(r.state)
      /\ kind = "CONNECT" => StaleAcks
      /\ \/ /\ r.state = "ACKNOWLEDGING_CONNECT" /\ kind = "VERIFY_CONNECT"
            /\ Reports(p, NotifyConnect(r, WithEvent))
         \/ /\ r.state = "DISCONNECTING" /\ kind = "DISCONNECT"
            /\ Reports(p, NotifyDisconnect(r, WithEvent, "ZOMBIE"))
         \/ /\ r.state = "DISCONNECT_LATER" /\ left = {}
            /\ Silent(p, DisconnectConnected(r))
         \/ /\ ~ (r.state = "ACKNOWLEDGING_CONNECT" /\ kind = "VERIFY_CONNECT")
            /\ ~ (r.state = "DISCONNECTING" /\ kind = "DISCONNECT")
            /\ ~ (r.state = "DISCONNECT_LATER" /\ left = {})
            /\ Silent(p, r)
  BY <1>1 DEF WithCommands
<1>6. \A k \in {"CONNECT", "VERIFY_CONNECT", "DISCONNECT"} :
          k \in o.commands /\ kind # k => k \in left
  OBVIOUS
<1>. HIDE DEF r, o
<1>7. WithEvent \in BOOLEAN
  BY DEF WithEvent
<1>8. CASE /\ r.state = "ACKNOWLEDGING_CONNECT"
           /\ Reports(p, NotifyConnect(r, WithEvent))
  <2>1. r.waiting = 0 /\ (~ LateDisconnects => ~ r.told)
    BY <1>2, <1>4, <1>8 DEF Sound, Linked, Ended, PeerRecords, IsConnected
  <2>2. /\ Sound(NotifyConnect(r, WithEvent))
        /\ Forgotten(NotifyConnect(r, WithEvent)) = Forgotten(r)
    BY <1>4, <1>7, <1>8, <2>1, NotifyConnectSound
  <2>3. Moves(peer[p], NotifyConnect(r, WithEvent))
    BY <1>4, <1>8, <2>2 DEF Moves, Links, Leaving, o
  <2>. QED
    BY <1>8, <2>2, <2>3, ReportsSound
<1>9. CASE /\ r.state = "DISCONNECTING"
           /\ Reports(p, NotifyDisconnect(r, WithEvent, "ZOMBIE"))
  <2>. DEFINE e == NotifyDisconnect(r, WithEvent, "ZOMBIE")
  <2>1. Sound(e) /\ e.state \in {"DISCONNECTED", "ZOMBIE", "TIMEDOUT"} /\ Links(r, e)
    BY <1>4, <1>7, <1>9, NotifyDisconnectSound DEF Ended
  <2>. HIDE DEF e
  <2>2. Moves(peer[p], e)
    BY <1>4, <1>9, <2>1 DEF Moves, Links, Leaving, o
  <2>. QED
    BY <1>9, <2>1, <2>2, ReportsSound DEF e
<1>10. CASE r.state = "DISCONNECT_LATER" /\ Silent(p, DisconnectConnected(r))
  <2>1. r.told
    BY <1>2, <1>4, <1>10 DEF Sound, Announced, IsConnected
  <2>2. /\ Sound(DisconnectConnected(r)) /\ DisconnectConnected(r).state = "DISCONNECTING"
        /\ Forgotten(DisconnectConnected(r)) = Forgotten(r)
    BY <1>4, <1>10, <2>1, DisconnectConnectedFacts
  <2>3. Moves(peer[p], DisconnectConnected(r))
    BY <1>4, <2>2 DEF Moves, Links, Leaving, o
  <2>. QED
    BY <1>10, <2>2, <2>3, ReportsSound
<1>11. CASE /\ ~ (r.state = "ACKNOWLEDGING_CONNECT" /\ kind = "VERIFY_CONNECT")
            /\ ~ (r.state = "DISCONNECTING" /\ kind = "DISCONNECT")
            /\ ~ (r.state = "DISCONNECT_LATER" /\ left = {})
            /\ Silent(p, r)
  <2>1. ~ StaleAcks => Waits(r)
    BY <1>2, <1>4, <1>5, <1>6, <1>11 DEF Sound, Waits
  <2>2. o.state # "DISCONNECTED"
    BY <1>4, <1>5 DEF IsServed
  <2>3. Sound(r)
    BY <1>4, <2>1, <2>2
  <2>4. Moves(peer[p], r)
    BY <1>4 DEF Moves, Links, Leaving, o
  <2>. QED
    BY <1>11, <2>3, <2>4, ReportsSound
<1>. QED
  BY <1>5, <1>8, <1>9, <1>10, <1>11

(* enet_host_bandwidth_throttle keeps the invariant.                        *)
LEMMA BandwidthThrottleSound ==
    ASSUME Inv, BandwidthThrottle
    PROVE  Inv' /\ Moved
<1>1. {"RELIABLE"} \in SUBSET Commands
  BY DEF Commands, Reliable
<1>2. \A p \in Peers : peer[p] \in PeerRecords /\ Sound(peer[p])
  BY DEF Inv
<1>3. \A p \in Peers :
          [peer[p] EXCEPT !.commands = @ \cup {"RELIABLE"}]
             = WithCommands(peer[p], peer[p].commands \cup {"RELIABLE"})
  BY <1>2 DEF WithCommands, PeerRecords
<1>4. \A p \in Peers : peer'[p] =
          IF IsConnected(peer[p].state)
          THEN WithCommands(peer[p], peer[p].commands \cup {"RELIABLE"}) ELSE peer[p]
  BY <1>3 DEF BandwidthThrottle
<1>5. ASSUME NEW p \in Peers
      PROVE  Sound(peer'[p]) /\ Moves(peer[p], peer'[p])
  <2>1. CASE IsConnected(peer[p].state)
    <3>1. peer[p].state # "DISCONNECTED"
      BY <2>1 DEF IsConnected
    <3>. QED
      BY <1>1, <1>2, <1>4, <2>1, <3>1, MoreCommandsSound
  <2>2. CASE ~ IsConnected(peer[p].state)
    BY <1>2, <1>4, <2>2, MovesNowhere
  <2>. QED
    BY <2>1, <2>2
<1>6. \A p \in Peers : peer'[p] \in PeerRecords
  BY <1>5 DEF Sound, Basic
<1>7. peer' \in [Peers -> PeerRecords] /\ serving' = serving
  BY <1>6 DEF BandwidthThrottle
<1>. QED
  BY <1>5, <1>7 DEF Inv, Moved

(* A peer's turn inside a service keeps the invariant.                      *)
LEMMA ServePeerSound ==
    ASSUME Inv, NEW p \in Peers, ServePeer(p)
    PROVE  Inv' /\ Moved
BY TurnSound, ReportsSound DEF ServePeer, Inv

(* A timeout keeps the invariant.                                           *)
LEMMA CheckTimeoutsSound ==
    ASSUME Inv, NEW p \in Peers, CheckTimeouts(p)
    PROVE  Inv' /\ Moved
<1>. DEFINE e == NotifyDisconnect(peer[p], WithEvent, "TIMEDOUT")
<1>1. /\ Becomes(p, e) /\ Basic(peer[p]) /\ serving' \in Phases \cup Peers
      /\ ~ LateDisconnects => Ended(peer[p])
  BY DEF CheckTimeouts, Inv, Sound, Phases
<1>2. WithEvent \in BOOLEAN
  BY DEF WithEvent
<1>3. Sound(e) /\ e.state \in {"DISCONNECTED", "ZOMBIE", "TIMEDOUT"} /\ Links(peer[p], e)
  BY <1>1, <1>2, NotifyDisconnectSound
<1>. HIDE DEF e
<1>4. Moves(peer[p], e)
  BY <1>3 DEF Moves, Leaving
<1>. QED
  BY <1>1, <1>3, <1>4, BecomesSound

-----------------------------------------------------------------------------

(* A new host satisfies the invariant.                                      *)
LEMMA InitSound == Init => Inv
BY NewPeerSound DEF Init, Inv, Sound, Basic, Phases

(* Every step keeps the invariant, and moves each peer only as allowed.     *)
LEMMA StepSound == Inv /\ [Next]_vars => Inv' /\ Moved
<1>. SUFFICES ASSUME Inv, [Next]_vars
              PROVE  Inv' /\ Moved
  OBVIOUS
<1>1. ASSUME peer' = peer, serving' \in Phases \cup Peers
      PROVE  Inv' /\ Moved
  BY <1>1, MovesNowhere DEF Inv, Moved
<1>2. CASE ApplicationStep
  BY <1>2, ApplicationSound
<1>3. CASE \E event \in BOOLEAN : HostService(event)
  BY <1>1, <1>3 DEF HostService, Phases
<1>4. CASE CheckEvents
  BY <1>1, <1>4 DEF CheckEvents, Phases
<1>5. CASE \E p \in Peers : DispatchIncoming(p)
  BY <1>5, DispatchIncomingSound
<1>6. CASE DispatchDone
  BY <1>1, <1>6 DEF DispatchDone, Phases
<1>7. CASE ServiceDone
  BY <1>1, <1>7 DEF ServiceDone, Phases
<1>8. CASE ServiceStep
  BY <1>8, HandleConnectSound, HandleVerifyConnectSound, HandleDisconnectSound,
     HandleBandwidthLimitSound, HandleSendSound, HandleAcknowledgeSound,
     ServePeerSound, CheckTimeoutsSound, BandwidthThrottleSound
     DEF ServiceStep
<1>9. CASE UNCHANGED vars
  BY <1>1, <1>9 DEF vars, Inv
<1>. QED
  BY <1>2, <1>3, <1>4, <1>5, <1>6, <1>7, <1>8, <1>9 DEF Next

(* Inv holds at all times.                                                  *)
THEOREM Invariant == Spec => []Inv
<1>1. Init => Inv
  BY InitSound
<1>2. Inv /\ [Next]_vars => Inv'
  BY StepSound
<1>. QED
  BY <1>1, <1>2, PTL DEF Spec

(* The records of the peers and the phase of the host keep their types.     *)
THEOREM Typing == Spec => []TypeOK
<1>1. Inv => TypeOK
  BY DEF Inv, TypeOK
<1>. QED
  BY <1>1, Invariant, PTL

(* host->connectedPeers and host->bandwidthLimitedPeers count each peer     *)
(* exactly while it is connected, through enet_peer_on_connect and          *)
(* enet_peer_on_disconnect, however many peers the host has.                *)
THEOREM CountersExact == Spec => []CountedWhileConnected
<1>1. Inv => CountedWhileConnected
  BY DEF Inv, Sound, Basic, Counted, CountedWhileConnected
<1>. QED
  BY <1>1, Invariant, PTL

(* A peer with an event for the application is in dispatchQueue, also when  *)
(* the host has been serviced without an event to fill.                     *)
THEOREM NothingForgotten == Spec => []PendingIsQueued
<1>1. Inv => PendingIsQueued
  BY DEF Inv, Sound, Basic, QueueSound, Linked, Pending, PendingIsQueued
<1>. QED
  BY <1>1, Invariant, PTL

(* The application knows of every connection that is up.                    *)
THEOREM ConnectFirst == Spec => []ConnectIsReported
<1>1. Inv => ConnectIsReported
  BY DEF Inv, Sound, Announced, ConnectIsReported
<1>. QED
  BY <1>1, Invariant, PTL

(* A peer is linked into dispatchQueue once more at most than the links     *)
(* that enet_host_connect and enet_protocol_handle_connect leave in it when *)
(* they use it anew: each use adds one link at most, for the flag keeps the *)
(* others away.                                                             *)
THEOREM LinksBounded == Spec => [](\A p \in Peers : peer[p].queued \in 0 .. MaxLinks + 1)
<1>1. Inv => \A p \in Peers : peer[p].queued \in 0 .. MaxLinks + 1
  <2>. SUFFICES ASSUME Inv, NEW p \in Peers
                PROVE  peer[p].queued \in 0 .. MaxLinks + 1
    OBVIOUS
  <2>1. peer[p] \in PeerRecords /\ QueueSound(peer[p])
    BY DEF Inv, Sound, Basic
  <2>. QED
    BY <2>1, PeersAssumption DEF QueueSound, PeerRecords
<1>. QED
  BY <1>1, Invariant, PTL

(* ENET_PEER_FLAG_NEEDS_DISPATCH stands for one link of its peer: nothing   *)
(* but enet_peer_reset, which clears the flag and leaves the link, makes    *)
(* the queue and the flags differ, and no step unlinks a peer that is not   *)
(* linked, not even one that is used anew with links left.                  *)
THEOREM FlagsTellOfLinks == Spec => LinksRemembered
<1>1. ASSUME Inv, Inv', Moved, NEW p \in Peers
      PROVE  \/ Forgotten(peer[p])' \in 0 .. Forgotten(peer[p])
             \/ /\ peer[p].needsDispatch /\ peer'[p].state = "DISCONNECTED"
                /\ Forgotten(peer[p])' = Forgotten(peer[p]) + 1
  <2>. DEFINE r == peer[p]
              q == peer'[p]
  <2>1. Links(r, q)
    BY <1>1 DEF Moved, Moves
  <2>2. Sound(r) /\ Sound(q)
    BY <1>1 DEF Inv
  <2>3. Forgotten(q) = Forgotten(r)'
    BY DEF Forgotten
  <2>. HIDE DEF r, q
  <2>4. Forgotten(r) \in Nat /\ Forgotten(q) \in Nat
    BY <2>2 DEF Sound, Basic, PeerRecords, QueueSound, Forgotten, One
  <2>5. \/ Forgotten(q) \in 0 .. Forgotten(r)
        \/ r.needsDispatch /\ q.state = "DISCONNECTED" /\ Forgotten(q) = Forgotten(r) + 1
    BY <2>1, <2>4 DEF Links
  <2>. QED
    BY <2>3, <2>5 DEF r, q
<1>2. Inv /\ Inv' /\ [Next]_vars =>
        [\A p \in Peers :
          \/ Forgotten(peer[p])' \in 0 .. Forgotten(peer[p])
          \/ /\ peer[p].needsDispatch /\ peer'[p].state = "DISCONNECTED"
             /\ Forgotten(peer[p])' = Forgotten(peer[p]) + 1]_vars
  BY <1>1, StepSound
<1>. QED
  BY <1>2, Invariant, PTL DEF Spec, LinksRemembered

(* The application hears of every connection before it is used and, if it   *)
(* disconnects no peer that has timed out already, of the end of every      *)
(* connection it heard of, whichever side ended it and however the end was  *)
(* found out.                                                               *)
THEOREM NoEventLost ==
    ASSUME ~ LateDisconnects
    PROVE  Spec => []EventsReported
<1>1. Inv => EventsReported
  BY DEF Inv, Sound, Announced, Ended, EventsReported, ConnectIsReported, EndIsReported
<1>. QED
  BY <1>1, Invariant, PTL

(* enet_peer_reset leaves nothing of a connection to the next one in the    *)
(* same slot.                                                               *)
THEOREM SlotsAreClean == Spec => []FreeIsClean
<1>1. Inv => FreeIsClean
  BY DEF Inv, Sound, Clean, FreeIsClean
<1>. QED
  BY <1>1, Invariant, PTL

(* Provided no acknowledgement of an earlier connection is accepted, what   *)
(* a peer waits for is always being resent.                                 *)
THEOREM NobodyWaitsForNothing ==
    ASSUME ~ StaleAcks
    PROVE  Spec => []WaitingEnds
<1>1. Inv => WaitingEnds
  BY DEF Inv, Sound, Waits, WaitingEnds
<1>. QED
  BY <1>1, Invariant, PTL

(* A connection that is ending ends; a peer to be disconnected later does   *)
(* not become an ordinary connected one again.                              *)
THEOREM EndsAreFinal == Spec => NoWayBack
<1>1. Inv /\ [Next]_vars =>
        [\A p \in Peers :
          /\ Leaving(peer[p].state) =>
                Leaving(peer[p].state)' \/ peer'[p].state = "DISCONNECTED"
          /\ peer[p].state = "DISCONNECT_LATER" => peer'[p].state # "CONNECTED"]_vars
  BY StepSound DEF Moved, Moves, Leaving
<1>. QED
  BY <1>1, Invariant, PTL DEF Spec, NoWayBack
=============================================================================
