------------------------ MODULE ENetConnectionProofs ------------------------
(***************************************************************************)
(* What two hosts agree on when they connect, for hosts of any sizes and   *)
(* limits, any number of connections and session ids, and a network that   *)
(* keeps datagrams for any time.                                           *)
(*                                                                         *)
(* The invariant names three functions that no state holds: made, by whom  *)
(* a connection was begun; answers, what a use of a slot answered to the   *)
(* CONNECT it was taken by; and met, whose answer the one who began a      *)
(* connection has got.  It says that whatever is in a slot or on its way   *)
(* was told by them.  That an end which answered is connected by the one   *)
(* it answered, and not by an acknowledgement left from another use of its *)
(* slot that chose the same session ids, the code does not ensure; what    *)
(* rests on it is proved of the behaviours in which it is so.              *)
(***************************************************************************)
EXTENDS ENetConnection, TLAPS

Fields == {"state", "connectID", "outgoingPeerID", "incomingSessionID", "outgoingSessionID",
           "used", "partner", "number", "outgoing", "acknowledgements", "limits"}

States == {"DISCONNECTED", "CONNECTING", "ACKNOWLEDGING_CONNECT", "CONNECTED",
           "DISCONNECTING", "ACKNOWLEDGING_DISCONNECT", "ZOMBIE"}

(* Each host has the slots it was made with.                                *)
Shaped ==
    /\ DOMAIN peers = Hosts
    /\ \A h \in Hosts : DOMAIN peers[h] = Slots(h)

(* The limits that the two sides put into CONNECT and VERIFY_CONNECT, and   *)
(* that the one that answers keeps.                                         *)
AskedLimits(h) ==
    [channels |-> AskedChannels, mtu |-> Mtu[h], window |-> WindowOf(Outgoing[h])]

TakenLimits(h) == Accepted(h, AskedLimits(Other(h)), Incoming[Other(h)])

AnsweredLimits(h) ==
    [TakenLimits(h) EXCEPT !.window = Least(WindowOf(Incoming[h]), AskedLimits(Other(h)).window)]

(* g says all that f says.                                                  *)
Extends(f, g) == \A x \in DOMAIN f : x \in DOMAIN g /\ g[x] = f[x]

(* What slot s of host h says in the CONNECT of connection c.               *)
IsOffer(h, s, c, data) ==
    /\ data.outgoingPeerID = s
    /\ data.connectID = c
    /\ data.limits = AskedLimits(h)
    /\ data.incomingBandwidth = Incoming[h]

(* Use u of slot s of host h chose these session ids for what it gets and   *)
(* what it sends.                                                           *)
Chose(answers, h, s, u, incoming, outgoing) ==
    /\ <<h, s, u>> \in DOMAIN answers
    /\ answers[<<h, s, u>>] = [incoming |-> incoming, outgoing |-> outgoing]

(* What use u of slot s of host h says in its VERIFY_CONNECT.               *)
IsAnswer(answers, h, s, u, c, data) ==
    /\ data.outgoingPeerID = s
    /\ data.connectID = c
    /\ data.limits = AnsweredLimits(h)
    /\ Chose(answers, h, s, u, data.outgoingSessionID, data.incomingSessionID)

(* Use u of slot s of host h began connection c.                            *)
Began(made, c, h, s, u) ==
    /\ c \in DOMAIN made
    /\ made[c] = [host |-> h, slot |-> s, used |-> u]

(* Connection c was accepted from use u of slot s of the other host.        *)
Met(met, c, s, u) == c \in DOMAIN met /\ met[c] = <<s, u>>

(* A slot that has begun its connection.                                    *)
Maker(made, answers, met, h, s, p) ==
    /\ Began(made, p.connectID, h, s, p.used)
    /\ p.state # "ACKNOWLEDGING_CONNECT"
    /\ p.state = "CONNECTING" =>
          /\ p.connectID \notin DOMAIN met
          /\ p.outgoingPeerID = NoPeerID
          /\ p.limits = AskedLimits(h)
    /\ p.state \in Standing => p.outgoingPeerID # NoPeerID
    /\ \A x \in p.outgoing :
          /\ x.kind # "VERIFY_CONNECT"
          /\ x.kind = "CONNECT" => IsOffer(h, s, p.connectID, x.data)
    /\ p.outgoingPeerID # NoPeerID =>
          /\ p.outgoingPeerID \in Slots(Other(h))
          /\ Met(met, p.connectID, p.outgoingPeerID, p.partner)
          /\ Chose(answers, Other(h), p.outgoingPeerID, p.partner,
                   p.outgoingSessionID, p.incomingSessionID)
          /\ p.limits.channels = TakenLimits(Other(h)).channels
          /\ p.limits.mtu = TakenLimits(Other(h)).mtu
          /\ p.limits.window <= WindowOf(Incoming[Other(h)])

(* A slot taken by the CONNECT of another.                                  *)
Taker(made, answers, met, sure, h, s, p) ==
    /\ Began(made, p.connectID, Other(h), p.outgoingPeerID, p.partner)
    /\ p.outgoingPeerID \in Slots(Other(h))
    /\ p.state # "CONNECTING"
    /\ Chose(answers, h, s, p.used, p.incomingSessionID, p.outgoingSessionID)
    /\ p.limits = TakenLimits(h)
    /\ \A x \in p.outgoing :
          /\ x.kind # "CONNECT"
          /\ x.kind = "VERIFY_CONNECT" => IsAnswer(answers, h, s, p.used, p.connectID, x.data)
    /\ sure /\ p.state \in Standing => Met(met, p.connectID, s, p.used)

(* A slot not in use.                                                       *)
Idle(p) ==
    /\ p.state = "DISCONNECTED"
    /\ p.connectID = NoConnection
    /\ p.outgoingPeerID = NoPeerID
    /\ p.outgoing = {}

PeerRight(made, answers, met, sure, h, s, p) ==
    /\ DOMAIN p = Fields
    /\ p.used \in Nat
    /\ \/ Idle(p)
       \/ /\ p.state \in States \ {"DISCONNECTED"}
          /\ \/ Maker(made, answers, met, h, s, p)
             \/ Taker(made, answers, met, sure, h, s, p)

DatagramRight(made, answers, met, d) ==
    LET h == Other(d.to)
        x == d.command
    IN  /\ d.to \in Hosts
        /\ d.peerID = NoPeerID \/ d.peerID \in Slots(d.to)
        /\ x.kind = "CONNECT" =>
              /\ Began(made, d.connectID, h, d.from, d.used)
              /\ d.from \in Slots(h)
              /\ IsOffer(h, d.from, d.connectID, x.data)
        /\ x.kind = "VERIFY_CONNECT" =>
              /\ d.from \in Slots(h)
              /\ IsAnswer(answers, h, d.from, d.used, d.connectID, x.data)
        /\ x.kind = "ACKNOWLEDGE" /\ d.peerID # NoPeerID =>
              /\ d.connectID \in DOMAIN made
              /\ made[d.connectID].host = h => Met(met, d.connectID, d.peerID, d.partner)

(* No two slots of a host have the same connection.                         *)
OneSlotEach ==
    \A h \in Hosts : \A s \in Slots(h), t \in Slots(h) :
        s # t /\ peers[h][s].connectID = peers[h][t].connectID
        => peers[h][s].connectID = NoConnection

(* All of it; sure is whether every acknowledgement so far was by the other *)
(* end of the connection.                                                   *)
Told(made, answers, met, sure) ==
    /\ Shaped
    /\ uses \in Nat
    /\ DOMAIN made \subseteq 1 .. uses
    /\ DOMAIN met = accepted /\ accepted \subseteq DOMAIN made
    /\ \A h \in Hosts : \A s \in Slots(h) : \A u \in Nat :
          <<h, s, u>> \in DOMAIN answers => u <= peers[h][s].used
    /\ \A h \in Hosts : \A s \in Slots(h) :
          PeerRight(made, answers, met, sure, h, s, peers[h][s])
    /\ \A d \in network : DatagramRight(made, answers, met, d)
    /\ OneSlotEach

Agreement(sure) == \E made, answers, met : Told(made, answers, met, sure)

-----------------------------------------------------------------------------
(* The hosts and their limits.                                              *)

(* There are two hosts.                                                     *)
LEMMA TwoHosts ==
    ASSUME NEW h \in Hosts
    PROVE  /\ Other(h) \in Hosts /\ Other(h) # h /\ Other(Other(h)) = h
           /\ \A g \in Hosts : g # h => g = Other(h)
<1>1. PICK a \in Hosts, b \in Hosts : a # b /\ Hosts = {a, b}
  BY ConnectionAssumption
<1>2. \A g \in Hosts : \E f \in Hosts : f # g
  BY <1>1
<1>3. \A g \in Hosts : Other(g) \in Hosts /\ Other(g) # g
  BY <1>2 DEF Other
<1>. QED
  BY <1>1, <1>3

(* No slot has the number that stands for none.                             *)
LEMMA SlotIDs ==
    ASSUME NEW h \in Hosts
    PROVE  NoPeerID \notin Slots(h) /\ Slots(h) \subseteq Nat
<1>1. NoPeerID \in Nat
  BY DEF NoPeerID
<1>2. PeerCount[h] \in 0 .. NoPeerID
  BY ConnectionAssumption
<1>. QED
  BY <1>1, <1>2 DEF Slots

(* What a host answers to the limits of another is less than both have; it  *)
(* keeps the same, but for the window, which is what the other can take.    *)
LEMMA LimitsMeet ==
    ASSUME NEW h \in Hosts, NEW g, g = Other(h)
    PROVE  /\ Least(AskedLimits(h).channels, AnsweredLimits(g).channels) = TakenLimits(g).channels
           /\ Least(AskedLimits(h).mtu, AnsweredLimits(g).mtu) = TakenLimits(g).mtu
           /\ Least(AskedLimits(h).window, AnsweredLimits(g).window) <= WindowOf(Incoming[g])
           /\ TakenLimits(g).window <= WindowOf(Incoming[h])
<1>1. g \in Hosts /\ Other(g) = h
  BY TwoHosts
<1>2. /\ ChannelLimit \in Nat /\ AskedChannels \in Nat /\ MaxWindow \in Nat
      /\ Mtu[g] \in Nat /\ Mtu[h] \in Nat /\ Incoming[g] \in Nat /\ Incoming[h] \in Nat
      /\ Outgoing[g] \in Nat /\ Outgoing[h] \in Nat
  BY <1>1, ConnectionAssumption
<1>3. \A n \in Nat : WindowOf(n) \in Nat
  BY <1>2 DEF WindowOf
<1>4. /\ TakenLimits(g).channels = Least(AskedChannels, ChannelLimit)
      /\ TakenLimits(g).mtu = Least(Mtu[h], Mtu[g])
      /\ TakenLimits(g).window = WindowOf(IF 0 \in {Outgoing[g], Incoming[h]}
                                            THEN Outgoing[g] + Incoming[h]
                                            ELSE Least(Outgoing[g], Incoming[h]))
  BY <1>1 DEF TakenLimits, Accepted, AskedLimits
<1>5. /\ AnsweredLimits(g).channels = TakenLimits(g).channels
      /\ AnsweredLimits(g).mtu = TakenLimits(g).mtu
      /\ AnsweredLimits(g).window = Least(WindowOf(Incoming[g]), WindowOf(Outgoing[h]))
  BY <1>1 DEF AnsweredLimits, TakenLimits, Accepted, AskedLimits
<1>6. AskedLimits(h) = [channels |-> AskedChannels, mtu |-> Mtu[h],
                        window |-> WindowOf(Outgoing[h])]
  BY DEF AskedLimits
<1>7. TakenLimits(g).window <= WindowOf(Incoming[h])
  BY <1>2, <1>4 DEF WindowOf, Least
<1>. QED
  BY <1>2, <1>3, <1>4, <1>5, <1>6, <1>7 DEF Least

-----------------------------------------------------------------------------
(* What was told stays true when more is told.                              *)

(* A slot is right after more connections were begun, answered or accepted, *)
(* but for one that waits for its own to be accepted.                       *)
LEMMA PeerKept ==
    ASSUME NEW made, NEW answers, NEW met, NEW made2, NEW answers2, NEW met2,
           Extends(made, made2), Extends(answers, answers2), Extends(met, met2),
           NEW sure, NEW h \in Hosts, NEW s, NEW p,
           PeerRight(made, answers, met, sure, h, s, p),
           p.state = "CONNECTING" => p.connectID \notin DOMAIN met2
    PROVE  PeerRight(made2, answers2, met2, sure, h, s, p)
<1>1. \A c, g, t, u : Began(made, c, g, t, u) => Began(made2, c, g, t, u)
  BY DEF Began, Extends
<1>2. \A c, t, u : Met(met, c, t, u) => Met(met2, c, t, u)
  BY DEF Met, Extends
<1>3. \A g, t, u, i, o : Chose(answers, g, t, u, i, o) => Chose(answers2, g, t, u, i, o)
  BY DEF Chose, Extends
<1>4. \A g, t, u, c, x : IsAnswer(answers, g, t, u, c, x) => IsAnswer(answers2, g, t, u, c, x)
  BY <1>3 DEF IsAnswer
<1>5. Maker(made, answers, met, h, s, p) => Maker(made2, answers2, met2, h, s, p)
  BY <1>1, <1>2, <1>3 DEF Maker
<1>6. Taker(made, answers, met, sure, h, s, p) => Taker(made2, answers2, met2, sure, h, s, p)
  BY <1>1, <1>2, <1>3, <1>4 DEF Taker
<1>. QED
  BY <1>5, <1>6 DEF PeerRight

(* So is a datagram, an acknowledgement because whose connection it is was  *)
(* known when it was sent.                                                  *)
LEMMA DatagramKept ==
    ASSUME NEW made, NEW answers, NEW met, NEW made2, NEW answers2, NEW met2,
           Extends(made, made2), Extends(answers, answers2), Extends(met, met2),
           NEW d, DatagramRight(made, answers, met, d)
    PROVE  DatagramRight(made2, answers2, met2, d)
<1>1. \A c, g, t, u : Began(made, c, g, t, u) => Began(made2, c, g, t, u)
  BY DEF Began, Extends
<1>2. \A c, t, u : Met(met, c, t, u) => Met(met2, c, t, u)
  BY DEF Met, Extends
<1>3. \A g, t, u, i, o : Chose(answers, g, t, u, i, o) => Chose(answers2, g, t, u, i, o)
  BY DEF Chose, Extends
<1>4. \A g, t, u, c, x : IsAnswer(answers, g, t, u, c, x) => IsAnswer(answers2, g, t, u, c, x)
  BY <1>3 DEF IsAnswer
<1>5. \A c \in DOMAIN made : c \in DOMAIN made2 /\ made2[c] = made[c]
  BY DEF Extends
<1>. QED
  BY <1>1, <1>2, <1>4, <1>5 DEF DatagramRight

(* A slot that stays in its connection, moves to a state no earlier one may *)
(* not have, and has no new command but a DISCONNECT, is right.             *)
LEMMA SameConnection ==
    ASSUME NEW made, NEW answers, NEW met, NEW sure, NEW h, NEW s, NEW p, NEW x,
           PeerRight(made, answers, met, sure, h, s, p),
           DOMAIN x = Fields,
           p.state # "DISCONNECTED",
           x.state \in States \ {"DISCONNECTED"},
           x.state \in Standing => p.state \in Standing,
           x.state \in {"CONNECTING", "ACKNOWLEDGING_CONNECT"} => x.state = p.state,
           x.connectID = p.connectID, x.outgoingPeerID = p.outgoingPeerID,
           x.incomingSessionID = p.incomingSessionID,
           x.outgoingSessionID = p.outgoingSessionID,
           x.used = p.used, x.partner = p.partner, x.limits = p.limits,
           \A e \in x.outgoing : e \in p.outgoing \/ e.kind = "DISCONNECT"
    PROVE  PeerRight(made, answers, met, sure, h, s, x)
<1>1. ~ Idle(p) /\ p.used \in Nat
  BY DEF Idle, PeerRight
<1>2. Maker(made, answers, met, h, s, p) => Maker(made, answers, met, h, s, x)
  BY DEF Maker
<1>3. Taker(made, answers, met, sure, h, s, p) => Taker(made, answers, met, sure, h, s, x)
  BY DEF Taker
<1>. QED
  BY <1>1, <1>2, <1>3 DEF PeerRight

(* enet_peer_reset leaves a slot that is not in use.                        *)
LEMMA ResetRight ==
    ASSUME NEW made, NEW answers, NEW met, NEW sure, NEW h, NEW s, NEW p, p.used \in Nat
    PROVE  /\ PeerRight(made, answers, met, sure, h, s, Reset(p))
           /\ Reset(p).used = p.used
           /\ Reset(p).connectID = NoConnection
           /\ Reset(p).state = "DISCONNECTED"
BY DEF PeerRight, Idle, Reset, Fields

(* What a slot in use sends is right: one of its commands, or one that says *)
(* nothing of itself.                                                       *)
LEMMA SentRight ==
    ASSUME NEW made, NEW answers, NEW met, NEW sure,
           Told(made, answers, met, sure),
           NEW h \in Hosts, NEW s \in Slots(h),
           peers[h][s].state # "DISCONNECTED",
           NEW command,
           command \in peers[h][s].outgoing
              \/ command.kind \in {"ACKNOWLEDGE", "DISCONNECT_NOW"}
    PROVE  DatagramRight(made, answers, met, Datagram(h, s, command))
<1>. DEFINE p == peers[h][s]
            d == Datagram(h, s, command)
<1>1. /\ d.to = Other(h) /\ d.peerID = p.outgoingPeerID /\ d.command = command
      /\ d.from = s /\ d.connectID = p.connectID /\ d.used = p.used
      /\ d.partner = p.partner
  BY DEF Datagram
<1>2. Other(h) \in Hosts /\ Other(h) # h /\ Other(Other(h)) = h
  BY TwoHosts
<1>3. Maker(made, answers, met, h, s, p) \/ Taker(made, answers, met, sure, h, s, p)
  BY DEF Told, PeerRight, Idle
<1>4. command \in p.outgoing \/ command.kind \in {"ACKNOWLEDGE", "DISCONNECT_NOW"}
  OBVIOUS
<1>. HIDE DEF p, d
<1>5. ASSUME Maker(made, answers, met, h, s, p)
      PROVE  DatagramRight(made, answers, met, d)
  BY <1>1, <1>2, <1>4, <1>5 DEF Maker, DatagramRight, Began
<1>6. ASSUME Taker(made, answers, met, sure, h, s, p)
      PROVE  DatagramRight(made, answers, met, d)
  BY <1>1, <1>2, <1>4, <1>6 DEF Taker, DatagramRight, Began
<1>. QED
  BY <1>3, <1>5, <1>6 DEF d

-----------------------------------------------------------------------------
(* A step that changes one slot, h's s, to x.                               *)

Changes(h, s, x) ==
    /\ Shaped'
    /\ peers'[h][s] = x
    /\ \A g \in Hosts : \A t \in Slots(g) :
          g # h \/ t # s => peers'[g][t] = peers[g][t]

(* What an action says of peers when it changes one slot.                   *)
LEMMA OneSlot ==
    ASSUME Shaped, NEW h \in Hosts, NEW s \in Slots(h), NEW x,
           peers' = [peers EXCEPT ![h][s] = x]
    PROVE  Changes(h, s, x)
BY DEF Changes, Shaped

(* The agreement stays when the slot is right, nobody else waited for what  *)
(* was accepted, nobody else of its host has its connection, and what was   *)
(* sent is right.                                                           *)
LEMMA StepTold ==
    ASSUME NEW made, NEW answers, NEW met, NEW sure, Told(made, answers, met, sure),
           NEW made2, NEW answers2, NEW met2,
           Extends(made, made2), Extends(answers, answers2), Extends(met, met2),
           NEW h \in Hosts, NEW s \in Slots(h), NEW x, Changes(h, s, x),
           uses' \in Nat, DOMAIN made2 \subseteq 1 .. uses', DOMAIN met2 = accepted',
           DOMAIN met2 \subseteq DOMAIN made2,
           PeerRight(made2, answers2, met2, sure, h, s, x),
           peers[h][s].used <= x.used,
           \A g, t, u : <<g, t, u>> \in DOMAIN answers2 =>
              <<g, t, u>> \in DOMAIN answers \/ (g = h /\ t = s /\ u <= x.used),
           \A t \in Slots(h) \ {s} :
              x.connectID = peers[h][t].connectID => x.connectID = NoConnection,
           \A g \in Hosts : \A t \in Slots(g) :
              (g # h \/ t # s) /\ peers[g][t].state = "CONNECTING"
              => peers[g][t].connectID \notin DOMAIN met2,
           \A d \in network' : d \in network \/ DatagramRight(made2, answers2, met2, d)
    PROVE  Agreement(sure)'
<1>1. Shaped'
  BY DEF Changes
<1>2. ASSUME NEW g \in Hosts, NEW t \in Slots(g), NEW u \in Nat,
             <<g, t, u>> \in DOMAIN answers2
      PROVE  u <= peers'[g][t].used
  <2>1. x.used \in Nat /\ peers[h][s].used \in Nat
    BY DEF PeerRight, Told
  <2>2. CASE g = h /\ t = s
    <3>1. <<g, t, u>> \in DOMAIN answers => u <= peers[h][s].used
      BY <2>2 DEF Told
    <3>. QED
      BY <1>2, <2>1, <2>2, <3>1 DEF Changes
  <2>3. CASE ~ (g = h /\ t = s)
    BY <1>2, <2>3 DEF Told, Changes
  <2>. QED
    BY <2>2, <2>3
<1>3. ASSUME NEW g \in Hosts, NEW t \in Slots(g)
      PROVE  PeerRight(made2, answers2, met2, sure, g, t, peers'[g][t])
  <2>1. CASE g = h /\ t = s
    BY <2>1 DEF Changes
  <2>2. CASE ~ (g = h /\ t = s)
    <3>1. peers'[g][t] = peers[g][t]
      BY <2>2 DEF Changes
    <3>2. PeerRight(made, answers, met, sure, g, t, peers[g][t])
      BY DEF Told
    <3>3. peers[g][t].state = "CONNECTING" => peers[g][t].connectID \notin DOMAIN met2
      BY <2>2
    <3>. QED
      BY <3>1, <3>2, <3>3, PeerKept
  <2>. QED
    BY <2>1, <2>2
<1>4. \A d \in network' : DatagramRight(made2, answers2, met2, d)
  BY DatagramKept DEF Told
<1>5. OneSlotEach'
  <2>1. SUFFICES ASSUME NEW g \in Hosts, NEW t \in Slots(g), NEW u \in Slots(g), t # u,
                        peers'[g][t].connectID = peers'[g][u].connectID
                 PROVE  peers'[g][t].connectID = NoConnection
    BY DEF OneSlotEach
  <2>2. CASE g = h /\ t = s
    BY <2>1, <2>2 DEF Changes
  <2>3. CASE g = h /\ u = s
    BY <2>1, <2>3 DEF Changes
  <2>4. CASE ~ (g = h /\ t = s) /\ ~ (g = h /\ u = s)
    BY <2>1, <2>4 DEF Changes, Told, OneSlotEach
  <2>. QED
    BY <2>2, <2>3, <2>4
<1>6. Told(made2, answers2, met2, sure)'
  BY <1>1, <1>2, <1>3, <1>4, <1>5 DEF Told
<1>. QED
  BY <1>6 DEF Agreement

(* So it is with a step that begins, answers and accepts nothing.           *)
LEMMA StepSame ==
    ASSUME NEW made, NEW answers, NEW met, NEW sure, Told(made, answers, met, sure),
           NEW h \in Hosts, NEW s \in Slots(h), NEW x,
           peers' = [peers EXCEPT ![h][s] = x],
           uses' = uses, accepted' = accepted,
           PeerRight(made, answers, met, sure, h, s, x),
           x.used = peers[h][s].used,
           x.connectID \in {NoConnection, peers[h][s].connectID},
           \A d \in network' : d \in network \/ DatagramRight(made, answers, met, d)
    PROVE  Agreement(sure)'
<1>1. Changes(h, s, x)
  BY OneSlot DEF Told
<1>2. Extends(made, made) /\ Extends(answers, answers) /\ Extends(met, met)
  BY DEF Extends
<1>3. x.used \in Nat
  BY DEF PeerRight
<1>4. /\ uses' \in Nat /\ DOMAIN made \subseteq 1 .. uses'
      /\ DOMAIN met = accepted' /\ DOMAIN met \subseteq DOMAIN made
  BY DEF Told
<1>5. \A t \in Slots(h) \ {s} :
         x.connectID = peers[h][t].connectID => x.connectID = NoConnection
  BY DEF Told, OneSlotEach
<1>6. \A g \in Hosts : \A t \in Slots(g) :
         peers[g][t].state = "CONNECTING" => peers[g][t].connectID \notin DOMAIN met
  BY DEF Told, PeerRight, Maker, Taker, Idle
<1>7. peers[h][s].used <= x.used
  BY <1>3
<1>8. \A g, t, u : <<g, t, u>> \in DOMAIN answers =>
         <<g, t, u>> \in DOMAIN answers \/ (g = h /\ t = s /\ u <= x.used)
  OBVIOUS
<1>. QED
  BY <1>1, <1>2, <1>4, <1>5, <1>6, <1>7, <1>8, StepTold

-----------------------------------------------------------------------------
(* The actions of one host.                                                 *)

(* enet_peer_reset, whoever calls it.                                       *)
LEMMA ResetAgrees ==
    ASSUME NEW made, NEW answers, NEW met, NEW sure, Told(made, answers, met, sure),
           NEW h \in Hosts, NEW s \in Slots(h),
           peers' = [peers EXCEPT ![h][s] = Reset(@)],
           uses' = uses, accepted' = accepted,
           \A d \in network' : d \in network \/ DatagramRight(made, answers, met, d)
    PROVE  Agreement(sure)'
<1>1. peers[h][s].used \in Nat
  BY DEF Told, PeerRight
<1>. DEFINE x == Reset(peers[h][s])
<1>2. /\ PeerRight(made, answers, met, sure, h, s, x)
      /\ x.used = peers[h][s].used
      /\ x.connectID = NoConnection
  BY <1>1, ResetRight
<1>3. peers' = [peers EXCEPT ![h][s] = x]
  OBVIOUS
<1>. HIDE DEF x
<1>. QED
  BY <1>2, <1>3, StepSame

(* A connection begun is one that nobody had.                               *)
LEMMA ConnectAgrees ==
    ASSUME NEW made, NEW answers, NEW met, NEW sure, Told(made, answers, met, sure),
           NEW h \in Hosts, NEW s \in Slots(h), Connect(h, s)
    PROVE  Agreement(sure)'
<1>. DEFINE p == peers[h][s]
            c == uses + 1
            x == Begun(h, p, s, c)
            made2 == [k \in DOMAIN made \cup {c} |->
                        IF k = c THEN [host |-> h, slot |-> s, used |-> p.used + 1]
                                 ELSE made[k]]
<1>1. /\ uses' = c /\ accepted' = accepted
      /\ \A d \in network' : d \in network
      /\ p.state = "DISCONNECTED"
      /\ peers' = [peers EXCEPT ![h][s] = x]
  BY DEF Connect, UseSlot
<1>2. PeerRight(made, answers, met, sure, h, s, p)
  BY DEF Told
<1>3. DOMAIN p = Fields /\ p.used \in Nat /\ Idle(p)
  BY <1>1, <1>2 DEF PeerRight
<1>4. /\ uses \in Nat /\ c \in Nat /\ c \notin DOMAIN made
      /\ DOMAIN met \subseteq DOMAIN made /\ DOMAIN made \subseteq 1 .. c
      /\ DOMAIN met = accepted /\ c \in 1 .. c
  BY DEF Told
<1>5. /\ DOMAIN x = Fields /\ x.state = "CONNECTING" /\ x.connectID = c
      /\ x.used = p.used + 1 /\ x.limits = AskedLimits(h)
      /\ x.outgoingPeerID = p.outgoingPeerID
      /\ \A e \in x.outgoing : e \in p.outgoing
                               \/ (e.kind = "CONNECT" /\ IsOffer(h, s, c, e.data))
  <2>. HIDE DEF p, c
  <2>. QED
    BY <1>3 DEF Begun, Queued, Fields, AskedLimits, IsOffer
<1>6. \A g \in Hosts : \A t \in Slots(g) :
         /\ peers[g][t].connectID # c
         /\ peers[g][t].state = "CONNECTING" => peers[g][t].connectID \notin DOMAIN met
  <2>1. SUFFICES ASSUME NEW g \in Hosts, NEW t \in Slots(g)
                 PROVE  /\ peers[g][t].connectID # c
                        /\ peers[g][t].state = "CONNECTING" =>
                              peers[g][t].connectID \notin DOMAIN met
    OBVIOUS
  <2>2. PeerRight(made, answers, met, sure, g, t, peers[g][t])
    BY DEF Told
  <2>. QED
    BY <1>4, <2>2 DEF PeerRight, Idle, Maker, Taker, Began, NoConnection
<1>. HIDE DEF x, p, c
<1>7. Extends(made, made2) /\ Extends(answers, answers) /\ Extends(met, met)
  BY <1>4 DEF Extends
<1>8. Began(made2, c, h, s, x.used)
  BY <1>5 DEF Began
<1>9. DOMAIN made2 \subseteq 1 .. c /\ DOMAIN met \subseteq DOMAIN made2
  BY <1>4
<1>. HIDE DEF made2
<1>10. PeerRight(made2, answers, met, sure, h, s, x)
  <2>1. Maker(made2, answers, met, h, s, x)
    BY <1>3, <1>4, <1>5, <1>8 DEF Maker, Idle, Standing
  <2>. QED
    BY <1>3, <1>5, <2>1 DEF PeerRight, States
<1>11. Changes(h, s, x)
  BY <1>1, OneSlot DEF Told
<1>12. /\ peers[h][s].used <= x.used
       /\ \A t \in Slots(h) \ {s} :
             x.connectID = peers[h][t].connectID => x.connectID = NoConnection
  BY <1>3, <1>5, <1>6 DEF p
<1>. QED
  BY <1>1, <1>4, <1>6, <1>7, <1>9, <1>10, <1>11, <1>12, StepTold

(* What a pass sends, and the end of a peer whose DISCONNECT it             *)
(* acknowledges, change no connection.                                      *)
LEMMA TransmitAgrees ==
    ASSUME NEW made, NEW answers, NEW met, NEW sure, Told(made, answers, met, sure),
           NEW h \in Hosts, NEW s \in Slots(h), Transmit(h, s)
    PROVE  Agreement(sure)'
<1>. DEFINE p == peers[h][s]
            acks == {[kind |-> "ACKNOWLEDGE", number |-> c.number, data |-> NoData] :
                        c \in p.acknowledgements}
            next == IF \E c \in p.acknowledgements : c.kind = "DISCONNECT"
                      THEN "ZOMBIE" ELSE p.state
            x == [p EXCEPT !.acknowledgements = {}, !.state = next]
<1>1. /\ p.state \notin {"DISCONNECTED", "ZOMBIE"}
      /\ network' = network \cup {Datagram(h, s, c) : c \in acks \cup p.outgoing}
      /\ uses' = uses /\ accepted' = accepted
  BY DEF Transmit
<1>2. Shaped /\ PeerRight(made, answers, met, sure, h, s, p)
  BY DEF Told
<1>3. DOMAIN p = Fields /\ p.state \in States
  BY <1>1, <1>2 DEF PeerRight, Idle
<1>4. peers' = [peers EXCEPT ![h][s] = x]
  <2>1. peers' = [peers EXCEPT ![h][s].acknowledgements = {}, ![h][s].state = next]
    <3>1. peers' = [peers EXCEPT ![h][s].acknowledgements = {},
                                 ![h][s].state =
                        IF \E c \in p.acknowledgements : c.kind = "DISCONNECT"
                        THEN "ZOMBIE" ELSE p.state]
      BY <1>2, <1>3 DEF Transmit, Shaped, Fields
    <3>. QED
      BY <3>1
  <2>. HIDE DEF next
  <2>. QED
    BY <1>2, <1>3, <2>1 DEF Shaped, Fields
<1>5. ASSUME NEW d \in network'
      PROVE  d \in network \/ DatagramRight(made, answers, met, d)
  <2>1. CASE d \notin network
    <3>1. PICK c \in acks \cup p.outgoing : d = Datagram(h, s, c)
      BY <1>1, <1>5, <2>1
    <3>2. c.kind = "ACKNOWLEDGE" \/ c \in p.outgoing
      OBVIOUS
    <3>. QED
      BY <1>1, <3>1, <3>2, SentRight
  <2>. QED
    BY <2>1
<1>6. next \in {"ZOMBIE", p.state}
  OBVIOUS
<1>. HIDE DEF next
<1>7. /\ DOMAIN x = Fields /\ x.state = next /\ x.connectID = p.connectID
      /\ x.outgoingPeerID = p.outgoingPeerID /\ x.used = p.used /\ x.partner = p.partner
      /\ x.incomingSessionID = p.incomingSessionID
      /\ x.outgoingSessionID = p.outgoingSessionID
      /\ x.limits = p.limits /\ x.outgoing = p.outgoing
  BY <1>3 DEF Fields
<1>. HIDE DEF x
<1>8. PeerRight(made, answers, met, sure, h, s, x)
  <2>. HIDE DEF p
  <2>. QED
    BY <1>1, <1>2, <1>3, <1>6, <1>7, SameConnection DEF States, Standing
<1>. QED
  BY <1>1, <1>4, <1>5, <1>7, <1>8, StepSame

(* enet_peer_disconnect of a peer that is connected.                        *)
LEMMA DisconnectAgrees ==
    ASSUME NEW made, NEW answers, NEW met, NEW sure, Told(made, answers, met, sure),
           NEW h \in Hosts, NEW s \in Slots(h), Disconnect(h, s)
    PROVE  Agreement(sure)'
<1>. DEFINE p == peers[h][s]
            x == [Queued(ResetQueues(p), "DISCONNECT", NoData) EXCEPT !.state = "DISCONNECTING"]
<1>1. /\ p.state = "CONNECTED"
      /\ network' = network /\ uses' = uses /\ accepted' = accepted
      /\ peers' = [peers EXCEPT ![h][s] = x]
  BY DEF Disconnect
<1>2. Shaped /\ PeerRight(made, answers, met, sure, h, s, p)
  BY DEF Told
<1>3. DOMAIN p = Fields
  BY <1>2 DEF PeerRight
<1>4. /\ DOMAIN x = Fields /\ x.state = "DISCONNECTING" /\ x.connectID = p.connectID
      /\ x.outgoingPeerID = p.outgoingPeerID /\ x.used = p.used /\ x.partner = p.partner
      /\ x.incomingSessionID = p.incomingSessionID
      /\ x.outgoingSessionID = p.outgoingSessionID
      /\ x.limits = p.limits
      /\ \A e \in x.outgoing : e.kind = "DISCONNECT"
  <2>. HIDE DEF p
  <2>. QED
    BY <1>3 DEF Fields, Queued, ResetQueues
<1>. HIDE DEF x
<1>5. PeerRight(made, answers, met, sure, h, s, x)
  <2>. HIDE DEF p
  <2>. QED
    BY <1>1, <1>2, <1>4, SameConnection DEF States, Standing
<1>. QED
  BY <1>1, <1>4, <1>5, StepSame

(* enet_peer_disconnect_now, which sends of a connection it then forgets.   *)
LEMMA DisconnectNowAgrees ==
    ASSUME NEW made, NEW answers, NEW met, NEW sure, Told(made, answers, met, sure),
           NEW h \in Hosts, NEW s \in Slots(h), DisconnectNow(h, s)
    PROVE  Agreement(sure)'
<1>. DEFINE command == [kind |-> "DISCONNECT_NOW", number |-> 0, data |-> NoData]
<1>1. /\ peers[h][s].state # "DISCONNECTED"
      /\ network' = network \cup {Datagram(h, s, command)}
      /\ uses' = uses /\ accepted' = accepted
      /\ peers' = [peers EXCEPT ![h][s] = Reset(@)]
  BY DEF DisconnectNow
<1>2. DatagramRight(made, answers, met, Datagram(h, s, command))
  BY <1>1, SentRight
<1>. QED
  BY <1>1, <1>2, ResetAgrees

-----------------------------------------------------------------------------
(* The handlers.                                                            *)

(* What is to be acknowledged is nothing of the connection.                 *)
LEMMA AcknowledgedRight ==
    ASSUME NEW made, NEW answers, NEW met, NEW sure, NEW h, NEW s, NEW p, NEW c,
           PeerRight(made, answers, met, sure, h, s, p)
    PROVE  /\ PeerRight(made, answers, met, sure, h, s, Acknowledged(p, c))
           /\ Acknowledged(p, c).used = p.used
           /\ Acknowledged(p, c).connectID = p.connectID
           /\ Acknowledged(p, c).state = p.state
           /\ Acknowledged(p, c).outgoingPeerID = p.outgoingPeerID
<1>. DEFINE acks == p.acknowledgements \cup {[kind |-> c.kind, number |-> c.number]}
            x == [p EXCEPT !.acknowledgements = acks]
<1>1. Acknowledged(p, c) = p \/ (Acknowledged(p, c) = x /\ p.state # "DISCONNECTED")
  BY DEF Acknowledged
<1>2. DOMAIN p = Fields
  BY DEF PeerRight
<1>. HIDE DEF acks
<1>3. /\ DOMAIN x = Fields /\ x.state = p.state /\ x.connectID = p.connectID
      /\ x.outgoingPeerID = p.outgoingPeerID /\ x.used = p.used /\ x.partner = p.partner
      /\ x.incomingSessionID = p.incomingSessionID
      /\ x.outgoingSessionID = p.outgoingSessionID
      /\ x.limits = p.limits /\ x.outgoing = p.outgoing
  BY <1>2 DEF Fields
<1>. HIDE DEF x
<1>4. p.state # "DISCONNECTED" =>
         p.state \in States \ {"DISCONNECTED"} /\ PeerRight(made, answers, met, sure, h, s, x)
  BY <1>3, SameConnection DEF PeerRight, Idle
<1>. QED
  BY <1>1, <1>3, <1>4

(* enet_protocol_handle_disconnect.                                         *)
LEMMA DisconnectRight ==
    ASSUME NEW made, NEW answers, NEW met, NEW sure, NEW h, NEW s, NEW p, NEW c,
           PeerRight(made, answers, met, sure, h, s, p),
           p.state \notin {"DISCONNECTED", "ZOMBIE"}
    PROVE  /\ PeerRight(made, answers, met, sure, h, s, HandleDisconnect(p, c))
           /\ HandleDisconnect(p, c).used = p.used
           /\ HandleDisconnect(p, c).connectID \in {NoConnection, p.connectID}
           /\ p.state = "CONNECTING" => HandleDisconnect(p, c).state = "ZOMBIE"
<1>1. /\ DOMAIN p = Fields /\ p.used \in Nat
      /\ p.state \in States \ {"DISCONNECTED", "ZOMBIE"}
  BY DEF PeerRight, Idle
<1>2. CASE p.state = "ACKNOWLEDGING_DISCONNECT"
  <2>1. HandleDisconnect(p, c) = p
    BY <1>2 DEF HandleDisconnect
  <2>. QED
    BY <1>2, <2>1
<1>3. CASE p.state = "ACKNOWLEDGING_CONNECT"
  <2>1. HandleDisconnect(p, c) = Reset(p)
    BY <1>3 DEF HandleDisconnect
  <2>. QED
    BY <1>1, <1>3, <2>1, ResetRight
<1>4. CASE p.state \in {"CONNECTING", "CONNECTED", "DISCONNECTING"}
  <2>. DEFINE next == IF p.state = "CONNECTED" /\ c.kind = "DISCONNECT"
                        THEN "ACKNOWLEDGING_DISCONNECT" ELSE "ZOMBIE"
              x == [ResetQueues(p) EXCEPT !.state = next]
  <2>1. HandleDisconnect(p, c) = x
    BY <1>4 DEF HandleDisconnect
  <2>2. /\ next \in {"ACKNOWLEDGING_DISCONNECT", "ZOMBIE"}
        /\ next = "ZOMBIE" \/ p.state = "CONNECTED"
    OBVIOUS
  <2>. HIDE DEF next
  <2>3. /\ DOMAIN x = Fields /\ x.state = next /\ x.connectID = p.connectID
        /\ x.outgoingPeerID = p.outgoingPeerID /\ x.used = p.used /\ x.partner = p.partner
        /\ x.incomingSessionID = p.incomingSessionID
        /\ x.outgoingSessionID = p.outgoingSessionID
        /\ x.limits = p.limits /\ x.outgoing = {}
    BY <1>1 DEF Fields, ResetQueues
  <2>. HIDE DEF x
  <2>4. PeerRight(made, answers, met, sure, h, s, x)
    BY <1>1, <2>2, <2>3, SameConnection DEF States, Standing
  <2>. QED
    BY <2>1, <2>2, <2>3, <2>4
<1>. QED
  BY <1>1, <1>2, <1>3, <1>4 DEF States

(* enet_protocol_handle_acknowledge, of a slot that answered by the one it  *)
(* answered.                                                                *)
LEMMA AcknowledgeRight ==
    ASSUME NEW made, NEW answers, NEW met, NEW sure, NEW h, NEW s, NEW p, NEW c,
           PeerRight(made, answers, met, sure, h, s, p),
           p.state \notin {"DISCONNECTED", "ZOMBIE"},
           sure /\ p.state = "ACKNOWLEDGING_CONNECT" => Met(met, p.connectID, s, p.used)
    PROVE  /\ PeerRight(made, answers, met, sure, h, s, HandleAcknowledge(p, c))
           /\ HandleAcknowledge(p, c).used = p.used
           /\ HandleAcknowledge(p, c).connectID \in {NoConnection, p.connectID}
           /\ p.state = "CONNECTING" => HandleAcknowledge(p, c).state = "CONNECTING"
<1>. DEFINE kept == p.outgoing \ Found(p, c.number)
            x == [p EXCEPT !.outgoing = kept]
            y == [x EXCEPT !.state = "CONNECTED"]
<1>1. /\ DOMAIN p = Fields /\ p.used \in Nat
      /\ p.state \in States \ {"DISCONNECTED", "ZOMBIE"}
  BY DEF PeerRight, Idle
<1>2. kept \subseteq p.outgoing
  OBVIOUS
<1>3. \/ HandleAcknowledge(p, c) = x
      \/ HandleAcknowledge(p, c) = Reset(x) /\ p.state = "DISCONNECTING"
      \/ HandleAcknowledge(p, c) = y /\ p.state = "ACKNOWLEDGING_CONNECT"
  BY DEF HandleAcknowledge
<1>. HIDE DEF kept
<1>4. /\ DOMAIN x = Fields /\ x.state = p.state /\ x.connectID = p.connectID
      /\ x.outgoingPeerID = p.outgoingPeerID /\ x.used = p.used /\ x.partner = p.partner
      /\ x.incomingSessionID = p.incomingSessionID
      /\ x.outgoingSessionID = p.outgoingSessionID
      /\ x.limits = p.limits /\ x.outgoing = kept
  BY <1>1 DEF Fields
<1>. HIDE DEF x
<1>5. PeerRight(made, answers, met, sure, h, s, x)
  BY <1>1, <1>2, <1>4, SameConnection
<1>6. CASE HandleAcknowledge(p, c) = x
  BY <1>4, <1>5, <1>6
<1>7. CASE HandleAcknowledge(p, c) = Reset(x) /\ p.state = "DISCONNECTING"
  BY <1>1, <1>4, <1>7, ResetRight
<1>8. CASE HandleAcknowledge(p, c) = y /\ p.state = "ACKNOWLEDGING_CONNECT"
  <2>1. /\ DOMAIN y = Fields /\ y.state = "CONNECTED" /\ y.connectID = p.connectID
        /\ y.outgoingPeerID = p.outgoingPeerID /\ y.used = p.used /\ y.partner = p.partner
        /\ y.incomingSessionID = p.incomingSessionID
        /\ y.outgoingSessionID = p.outgoingSessionID
        /\ y.limits = p.limits /\ y.outgoing = kept
    BY <1>4 DEF Fields
  <2>. HIDE DEF y
  <2>2. Taker(made, answers, met, sure, h, s, p)
    BY <1>8 DEF PeerRight, Idle, Maker
  <2>3. Taker(made, answers, met, sure, h, s, y)
    BY <1>2, <1>8, <2>1, <2>2 DEF Taker
  <2>. QED
    BY <1>1, <1>8, <2>1, <2>3 DEF PeerRight, States
<1>. QED
  BY <1>3, <1>6, <1>7, <1>8

(* enet_protocol_handle_verify_connect, when it does not connect.           *)
LEMMA VerifyRefused ==
    ASSUME NEW made, NEW answers, NEW met, NEW sure, NEW h, NEW s, NEW p, NEW c,
           PeerRight(made, answers, met, sure, h, s, p),
           p.state \notin {"DISCONNECTED", "ZOMBIE"},
           ~ (p.state = "CONNECTING" /\ IsVerified(p, c))
    PROVE  /\ PeerRight(made, answers, met, sure, h, s, HandleVerifyConnect(p, c))
           /\ HandleVerifyConnect(p, c).used = p.used
           /\ HandleVerifyConnect(p, c).connectID = p.connectID
           /\ p.state = "CONNECTING" => HandleVerifyConnect(p, c).state = "ZOMBIE"
<1>1. DOMAIN p = Fields
  BY DEF PeerRight
<1>. DEFINE x == [p EXCEPT !.state = "ZOMBIE"]
<1>2. CASE p.state # "CONNECTING"
  BY <1>2 DEF HandleVerifyConnect
<1>3. CASE p.state = "CONNECTING"
  <2>1. HandleVerifyConnect(p, c) = x
    BY <1>3 DEF HandleVerifyConnect
  <2>2. /\ DOMAIN x = Fields /\ x.state = "ZOMBIE" /\ x.connectID = p.connectID
        /\ x.outgoingPeerID = p.outgoingPeerID /\ x.used = p.used /\ x.partner = p.partner
        /\ x.incomingSessionID = p.incomingSessionID
        /\ x.outgoingSessionID = p.outgoingSessionID
        /\ x.limits = p.limits /\ x.outgoing = p.outgoing
    BY <1>1 DEF Fields
  <2>. HIDE DEF x
  <2>3. PeerRight(made, answers, met, sure, h, s, x)
    BY <2>2, SameConnection DEF States, Standing
  <2>. QED
    BY <1>3, <2>1, <2>2, <2>3
<1>. QED
  BY <1>2, <1>3

(* The slot that accepted VERIFY_CONNECT d.                                 *)
Joined(p, d) ==
    [Acknowledged(HandleVerifyConnect(p, d.command.data), d.command) EXCEPT !.partner = d.used]

(* enet_protocol_handle_verify_connect, when it does: the slot has met the  *)
(* one that answered, and takes its session ids and the lesser limits.      *)
LEMMA VerifyMet ==
    ASSUME NEW made, NEW answers, NEW met, NEW met2, NEW sure,
           NEW h \in Hosts, NEW s, NEW p, NEW d,
           PeerRight(made, answers, met, sure, h, s, p),
           p.state = "CONNECTING",
           DatagramRight(made, answers, met, d), d.to = h,
           d.command.kind = "VERIFY_CONNECT",
           IsVerified(p, d.command.data),
           Met(met2, p.connectID, d.from, d.used)
    PROVE  /\ PeerRight(made, answers, met2, sure, h, s, Joined(p, d))
           /\ Joined(p, d).used = p.used
           /\ Joined(p, d).connectID = p.connectID
           /\ Acknowledged(HandleVerifyConnect(p, d.command.data), d.command).state = "CONNECTED"
<1>. DEFINE c == d.command.data
            g == Other(h)
            x == HandleVerifyConnect(p, c)
            y == Joined(p, d)
<1>1. DOMAIN p = Fields /\ p.used \in Nat /\ Maker(made, answers, met, h, s, p)
  BY DEF PeerRight, Idle, Taker
<1>2. /\ d.from \in Slots(g) /\ c.outgoingPeerID = d.from
      /\ c.limits = AnsweredLimits(g)
      /\ Chose(answers, g, d.from, d.used, c.outgoingSessionID, c.incomingSessionID)
  BY DEF DatagramRight, IsAnswer
<1>3. p.limits = AskedLimits(h)
  BY <1>1 DEF Maker
<1>. HIDE DEF c
<1>4. /\ DOMAIN x = Fields /\ x.state = "CONNECTED" /\ x.connectID = p.connectID
      /\ x.used = p.used /\ x.outgoingPeerID = c.outgoingPeerID
      /\ x.incomingSessionID = c.incomingSessionID
      /\ x.outgoingSessionID = c.outgoingSessionID
      /\ x.limits = [channels |-> Least(p.limits.channels, c.limits.channels),
                     mtu      |-> Least(p.limits.mtu, c.limits.mtu),
                     window   |-> Least(p.limits.window, c.limits.window)]
      /\ x.outgoing \subseteq p.outgoing
  BY <1>1 DEF HandleVerifyConnect, IsVerified, Fields, c
<1>5. /\ x.limits.channels = TakenLimits(g).channels
      /\ x.limits.mtu = TakenLimits(g).mtu
      /\ x.limits.window <= WindowOf(Incoming[g])
  BY <1>2, <1>3, <1>4, LimitsMeet
<1>6. y = [Acknowledged(x, d.command) EXCEPT !.partner = d.used]
  BY DEF Joined, c
<1>. HIDE DEF x, y
<1>7. /\ DOMAIN y = Fields /\ y.state = "CONNECTED" /\ y.connectID = p.connectID
      /\ y.outgoingPeerID = x.outgoingPeerID /\ y.used = p.used /\ y.partner = d.used
      /\ y.incomingSessionID = x.incomingSessionID
      /\ y.outgoingSessionID = x.outgoingSessionID
      /\ y.limits = x.limits /\ y.outgoing = x.outgoing
      /\ Acknowledged(x, d.command).state = "CONNECTED"
  <2>. DEFINE acks == x.acknowledgements
                      \cup {[kind |-> d.command.kind, number |-> d.command.number]}
              z == [x EXCEPT !.acknowledgements = acks]
  <2>1. Acknowledged(x, d.command) = z
    BY <1>4 DEF Acknowledged
  <2>. HIDE DEF acks
  <2>2. /\ DOMAIN z = Fields /\ z.state = "CONNECTED" /\ z.connectID = p.connectID
        /\ z.outgoingPeerID = x.outgoingPeerID /\ z.used = p.used
        /\ z.incomingSessionID = x.incomingSessionID
        /\ z.outgoingSessionID = x.outgoingSessionID
        /\ z.limits = x.limits /\ z.outgoing = x.outgoing
    BY <1>4 DEF Fields
  <2>3. y = [z EXCEPT !.partner = d.used]
    BY <1>6, <2>1
  <2>. HIDE DEF z
  <2>. QED
    BY <2>1, <2>2, <2>3 DEF Fields
<1>8. NoPeerID \notin Slots(g)
  BY SlotIDs, TwoHosts
<1>9. Maker(made, answers, met2, h, s, y)
  BY <1>1, <1>2, <1>4, <1>5, <1>7, <1>8 DEF Maker
<1>. QED
  BY <1>1, <1>4, <1>7, <1>9 DEF PeerRight, States, x, y, c

(* enet_protocol_handle_connect: the slot it takes is the only one of its   *)
(* host in the connection, and its answer is the one of this use.           *)
LEMMA ReceiveConnectAgrees ==
    ASSUME NEW made, NEW answers, NEW met, NEW sure, Told(made, answers, met, sure),
           NEW d \in network, d.command.kind = "CONNECT",
           ReceiveConnect(d.to, d), accepted' = accepted
    PROVE  Agreement(sure)'
<1>. DEFINE h == d.to
            c == d.command.data
            g == Other(h)
<1>1. DatagramRight(made, answers, met, d)
  BY DEF Told
<1>2. /\ h \in Hosts /\ d.from \in Slots(g)
      /\ Began(made, d.connectID, g, d.from, d.used)
      /\ IsOffer(g, d.from, d.connectID, c)
  BY <1>1 DEF DatagramRight
<1>3. PICK s \in Slots(h) :
         /\ peers[h][s].state = "DISCONNECTED"
         /\ peers' = [peers EXCEPT ![h][s] =
               [HandleConnect(h, @, s, c) EXCEPT !.partner = d.used]]
  BY DEF ReceiveConnect
<1>. DEFINE p == peers[h][s]
            incoming == NextSession(c.incomingSessionID, p.outgoingSessionID)
            outgoing == NextSession(c.outgoingSessionID, p.incomingSessionID)
            x == [HandleConnect(h, p, s, c) EXCEPT !.partner = d.used]
            use == <<h, s, p.used + 1>>
            answers2 == [k \in DOMAIN answers \cup {use} |->
                           IF k = use THEN [incoming |-> outgoing, outgoing |-> incoming]
                                      ELSE answers[k]]
<1>4. /\ uses' = uses + 1 /\ \A e \in network' : e \in network
      /\ \A t \in Duplicates(peers[h]) : peers[h][t].connectID # c.connectID
  BY DEF ReceiveConnect, UseSlot
<1>5. PeerRight(made, answers, met, sure, h, s, p)
  BY <1>2 DEF Told
<1>6. DOMAIN p = Fields /\ p.used \in Nat /\ Idle(p)
  BY <1>3, <1>5 DEF PeerRight
<1>7. /\ uses \in Nat /\ uses' \in Nat /\ DOMAIN made \subseteq 1 .. uses'
      /\ DOMAIN met = accepted' /\ DOMAIN met \subseteq DOMAIN made
  BY <1>4 DEF Told
<1>8. g \in Hosts /\ g # h /\ Other(g) = h
  BY <1>2, TwoHosts
<1>9. use \notin DOMAIN answers
  BY <1>2, <1>6 DEF Told
<1>10. c.outgoingPeerID = d.from /\ c.connectID = d.connectID
       /\ c.limits = AskedLimits(g) /\ c.incomingBandwidth = Incoming[g]
  BY <1>2 DEF IsOffer
<1>11. /\ Accepted(h, c.limits, c.incomingBandwidth) = TakenLimits(h)
       /\ [TakenLimits(h) EXCEPT !.window = Least(WindowOf(Incoming[h]), c.limits.window)]
            = AnsweredLimits(h)
  BY <1>10 DEF TakenLimits, AnsweredLimits
<1>12. /\ DOMAIN x = Fields /\ x.state = "ACKNOWLEDGING_CONNECT"
       /\ x.connectID = c.connectID /\ x.used = p.used + 1
       /\ x.outgoingPeerID = c.outgoingPeerID /\ x.partner = d.used
       /\ x.incomingSessionID = outgoing /\ x.outgoingSessionID = incoming
       /\ x.limits = TakenLimits(h)
       /\ \A e \in x.outgoing : e \in p.outgoing
             \/ (/\ e.kind = "VERIFY_CONNECT"
                 /\ e.data = [outgoingPeerID    |-> s,
                              incomingSessionID |-> incoming,
                              outgoingSessionID |-> outgoing,
                              limits            |-> AnsweredLimits(h),
                              connectID         |-> c.connectID])
  <2>. DEFINE data == [outgoingPeerID    |-> s,
                       incomingSessionID |-> incoming,
                       outgoingSessionID |-> outgoing,
                       limits            |-> AnsweredLimits(h),
                       connectID         |-> c.connectID]
              limits == TakenLimits(h)
              w == [p EXCEPT !.state = "ACKNOWLEDGING_CONNECT",
                             !.connectID = c.connectID,
                             !.used = p.used + 1,
                             !.outgoingPeerID = c.outgoingPeerID,
                             !.outgoingSessionID = incoming,
                             !.incomingSessionID = outgoing,
                             !.limits = limits]
              z == Queued(w, "VERIFY_CONNECT", data)
  <2>1. HandleConnect(h, p, s, c) = z
    <3>. HIDE DEF p, c
    <3>. QED
      BY <1>11 DEF HandleConnect
  <2>. HIDE DEF p, c, incoming, outgoing, data, limits
  <2>2. /\ DOMAIN w = Fields /\ w.state = "ACKNOWLEDGING_CONNECT"
        /\ w.connectID = c.connectID /\ w.used = p.used + 1
        /\ w.outgoingPeerID = c.outgoingPeerID
        /\ w.incomingSessionID = outgoing /\ w.outgoingSessionID = incoming
        /\ w.limits = limits /\ w.outgoing = p.outgoing
    BY <1>6 DEF Fields
  <2>. HIDE DEF w
  <2>3. /\ DOMAIN z = Fields /\ z.state = "ACKNOWLEDGING_CONNECT"
        /\ z.connectID = c.connectID /\ z.used = p.used + 1
        /\ z.outgoingPeerID = c.outgoingPeerID
        /\ z.incomingSessionID = outgoing /\ z.outgoingSessionID = incoming
        /\ z.limits = limits
        /\ \A e \in z.outgoing : e \in p.outgoing
              \/ (e.kind = "VERIFY_CONNECT" /\ e.data = data)
    BY <2>2 DEF Fields, Queued
  <2>. HIDE DEF z
  <2>4. x = [z EXCEPT !.partner = d.used]
    BY <2>1
  <2>. QED
    BY <2>3, <2>4 DEF Fields, data, limits
<1>. HIDE DEF incoming, outgoing, x, c, p
<1>13. /\ Extends(made, made) /\ Extends(met, met)
       /\ Extends(answers, answers2)
  BY <1>9 DEF Extends
<1>14. Chose(answers2, h, s, x.used, x.incomingSessionID, x.outgoingSessionID)
  BY <1>12 DEF Chose
<1>15. \A f, t, u : <<f, t, u>> \in DOMAIN answers2 =>
          <<f, t, u>> \in DOMAIN answers \/ (f = h /\ t = s /\ u <= x.used)
  BY <1>6, <1>12
<1>. HIDE DEF answers2, use
<1>16. PeerRight(made, answers2, met, sure, h, s, x)
  <2>1. \A e \in x.outgoing :
          /\ e.kind # "CONNECT"
          /\ e.kind = "VERIFY_CONNECT" =>
                IsAnswer(answers2, h, s, x.used, x.connectID, e.data)
    BY <1>6, <1>12, <1>14 DEF Idle, IsAnswer
  <2>2. Taker(made, answers2, met, sure, h, s, x)
    BY <1>2, <1>10, <1>12, <1>14, <2>1 DEF Taker, Standing, c
  <2>. QED
    BY <1>6, <1>12, <2>2 DEF PeerRight, States
<1>17. Changes(h, s, x)
  BY <1>2, <1>3, OneSlot DEF Told, x, p, c
<1>18. \A f \in Hosts : \A t \in Slots(f) :
          (f # h \/ t # s) /\ peers[f][t].state = "CONNECTING"
          => peers[f][t].connectID \notin DOMAIN met
  BY DEF Told, PeerRight, Idle, Maker, Taker
<1>19. \A t \in Slots(h) \ {s} :
          x.connectID = peers[h][t].connectID => x.connectID = NoConnection
  <2>1. SUFFICES ASSUME NEW t \in Slots(h) \ {s}, x.connectID = peers[h][t].connectID
                 PROVE  FALSE
    OBVIOUS
  <2>2. PeerRight(made, answers, met, sure, h, t, peers[h][t])
    BY <1>2 DEF Told
  <2>3. d.connectID \in DOMAIN made /\ made[d.connectID].host = g /\ d.connectID # NoConnection
    BY <1>2, <1>7 DEF Began, NoConnection
  <2>4. t \notin Duplicates(peers[h])
    BY <1>4, <1>12, <2>1 DEF c
  <2>5. peers[h][t].state \in {"DISCONNECTED", "CONNECTING"}
    BY <1>2, <2>4 DEF Duplicates, Told, Shaped
  <2>6. CASE peers[h][t].state = "DISCONNECTED"
    BY <1>10, <1>12, <2>1, <2>2, <2>3, <2>6 DEF PeerRight, Idle, States
  <2>7. CASE peers[h][t].state = "CONNECTING"
    <3>1. Maker(made, answers, met, h, t, peers[h][t])
      BY <2>2, <2>7 DEF PeerRight, Idle, Taker
    <3>2. made[peers[h][t].connectID].host = h
      BY <3>1 DEF Maker, Began
    <3>. QED
      BY <1>8, <1>10, <1>12, <2>1, <2>3, <3>2
  <2>. QED
    BY <2>5, <2>6, <2>7
<1>20. peers[h][s].used <= x.used
  BY <1>6, <1>12 DEF p
<1>21. h \in Hosts /\ Told(made, answers, met, sure)
  BY <1>2
<1>22. \A e \in network' : e \in network \/ DatagramRight(made, answers2, met, e)
  BY <1>4
<1>. HIDE DEF h
<1>. QED
  BY ONLY <1>7, <1>13, <1>15, <1>16, <1>17, <1>18, <1>19, <1>20, <1>21, <1>22,
     s \in Slots(h), StepTold

(* A command that does not connect the slot it is for leaves it right.      *)
LEMMA HandledRight ==
    ASSUME NEW made, NEW answers, NEW met, NEW sure, NEW h, NEW s, NEW p, NEW c,
           PeerRight(made, answers, met, sure, h, s, p),
           p.state \notin {"DISCONNECTED", "ZOMBIE"},
           sure /\ p.state = "ACKNOWLEDGING_CONNECT" /\ c.kind = "ACKNOWLEDGE"
              => Met(met, p.connectID, s, p.used),
           ~ (c.kind = "VERIFY_CONNECT" /\ p.state = "CONNECTING" /\ IsVerified(p, c.data))
    PROVE  /\ PeerRight(made, answers, met, sure, h, s, Handled(p, c))
           /\ Handled(p, c).used = p.used
           /\ Handled(p, c).connectID \in {NoConnection, p.connectID}
           /\ p.state = "CONNECTING" => Handled(p, c).state # "CONNECTED"
<1>1. CASE c.kind = "VERIFY_CONNECT"
  <2>. DEFINE x == HandleVerifyConnect(p, c.data)
  <2>1. Handled(p, c) = Acknowledged(x, c)
    BY <1>1 DEF Handled
  <2>2. /\ PeerRight(made, answers, met, sure, h, s, x)
        /\ x.used = p.used
        /\ x.connectID = p.connectID
        /\ p.state = "CONNECTING" => x.state = "ZOMBIE"
    BY <1>1, VerifyRefused
  <2>. HIDE DEF x
  <2>. QED
    BY <2>1, <2>2, AcknowledgedRight
<1>2. CASE c.kind = "DISCONNECT"
  <2>. DEFINE x == HandleDisconnect(p, c)
  <2>1. Handled(p, c) = Acknowledged(x, c)
    BY <1>2 DEF Handled
  <2>2. /\ PeerRight(made, answers, met, sure, h, s, x)
        /\ x.used = p.used
        /\ x.connectID \in {NoConnection, p.connectID}
        /\ p.state = "CONNECTING" => x.state = "ZOMBIE"
    BY DisconnectRight
  <2>. HIDE DEF x
  <2>. QED
    BY <2>1, <2>2, AcknowledgedRight
<1>3. CASE c.kind = "DISCONNECT_NOW"
  <2>1. Handled(p, c) = HandleDisconnect(p, c)
    BY <1>3 DEF Handled
  <2>. QED
    BY <2>1, DisconnectRight
<1>4. CASE c.kind = "ACKNOWLEDGE"
  <2>1. Handled(p, c) = HandleAcknowledge(p, c)
    BY <1>4 DEF Handled
  <2>. QED
    BY <1>4, <2>1, AcknowledgeRight
<1>5. CASE c.kind \notin {"VERIFY_CONNECT", "DISCONNECT", "DISCONNECT_NOW", "ACKNOWLEDGE"}
  <2>1. Handled(p, c) = p
    BY <1>5 DEF Handled
  <2>. QED
    BY <2>1
<1>. QED
  BY <1>1, <1>2, <1>3, <1>4, <1>5

(* A datagram for a slot: the one who began a connection accepts the answer *)
(* of one use of a slot, and of no other; the one who answered is connected *)
(* by whom it answered, as far as acknowledgements are its own.             *)
LEMMA ReceiveAgrees ==
    ASSUME NEW made, NEW answers, NEW met, NEW sure, Told(made, answers, met, sure),
           sure => OwnAcknowledgements,
           NEW d \in network, Receive(d), d.peerID # NoPeerID
    PROVE  Agreement(sure)'
<1>1. DatagramRight(made, answers, met, d)
  BY DEF Told
<1>2. PICK h, s : h = d.to /\ s = d.peerID /\ h \in Hosts /\ s \in Slots(h)
  BY <1>1 DEF DatagramRight
<1>. DEFINE p == peers[h][s]
            handled == Handled(p, d.command)
            meets == /\ d.command.kind = "VERIFY_CONNECT" /\ p.state = "CONNECTING"
                     /\ IsVerified(p, d.command.data)
            isMet == p.state = "CONNECTING" /\ handled.state = "CONNECTED"
<1>3. PeerRight(made, answers, met, sure, h, s, p) /\ Shaped
  BY <1>2 DEF Told
<1>4. /\ Accepts(p, d) /\ network' = network /\ uses' = uses
      /\ peers' = [peers EXCEPT ![h][s] =
                      IF isMet THEN [handled EXCEPT !.partner = d.used] ELSE handled]
      /\ accepted' = IF isMet THEN accepted \cup {p.connectID} ELSE accepted
  BY <1>2 DEF Receive
<1>5. p.state \notin {"DISCONNECTED", "ZOMBIE"}
  BY <1>4 DEF Accepts
<1>6. sure /\ p.state = "ACKNOWLEDGING_CONNECT" /\ d.command.kind = "ACKNOWLEDGE"
         => Met(met, p.connectID, s, p.used)
  <2>1. SUFFICES ASSUME sure, p.state = "ACKNOWLEDGING_CONNECT",
                        d.command.kind = "ACKNOWLEDGE"
                 PROVE  Met(met, p.connectID, s, p.used)
    OBVIOUS
  <2>2. d.connectID = p.connectID /\ d.partner = p.used
    BY <1>2, <1>4, <2>1 DEF OwnAcknowledgements
  <2>3. Taker(made, answers, met, sure, h, s, p)
    BY <1>3, <2>1 DEF PeerRight, Idle, Maker
  <2>4. made[d.connectID].host = Other(h)
    BY <2>2, <2>3 DEF Taker, Began
  <2>. QED
    BY <1>1, <1>2, <2>1, <2>2, <2>4 DEF DatagramRight
<1>7. CASE ~ meets
  <2>1. /\ PeerRight(made, answers, met, sure, h, s, handled)
        /\ handled.used = p.used
        /\ handled.connectID \in {NoConnection, p.connectID}
        /\ p.state = "CONNECTING" => handled.state # "CONNECTED"
    <3>1. ~ (/\ d.command.kind = "VERIFY_CONNECT" /\ p.state = "CONNECTING"
             /\ IsVerified(p, d.command.data))
      BY <1>7
    <3>2. PeerRight(made, answers, met, sure, h, s, p)
      BY <1>3
    <3>. HIDE DEF p, meets, isMet
    <3>. QED
      BY <1>5, <1>6, <3>1, <3>2, HandledRight
  <2>. HIDE DEF handled
  <2>2. peers' = [peers EXCEPT ![h][s] = handled] /\ accepted' = accepted
    BY <1>4, <2>1
  <2>. QED
    BY <1>2, <1>4, <2>1, <2>2, StepSame
<1>8. CASE meets
  <2>. DEFINE x == [handled EXCEPT !.partner = d.used]
              met2 == [k \in DOMAIN met \cup {p.connectID} |->
                         IF k = p.connectID THEN <<d.from, d.used>> ELSE met[k]]
  <2>1. Maker(made, answers, met, h, s, p)
    BY <1>3, <1>8 DEF PeerRight, Idle, Taker
  <2>2. p.connectID \notin DOMAIN met /\ p.connectID \in DOMAIN made
    BY <1>8, <2>1 DEF Maker, Began
  <2>3. Met(met2, p.connectID, d.from, d.used)
    BY DEF Met
  <2>4. Extends(made, made) /\ Extends(answers, answers) /\ Extends(met, met2)
    BY <2>2 DEF Extends
  <2>5. handled = Acknowledged(HandleVerifyConnect(p, d.command.data), d.command)
    BY <1>8 DEF Handled
  <2>6. DOMAIN met2 = DOMAIN met \cup {p.connectID}
    OBVIOUS
  <2>. HIDE DEF met2, handled
  <2>7. /\ PeerRight(made, answers, met2, sure, h, s, x)
        /\ x.used = p.used /\ x.connectID = p.connectID
        /\ handled.state = "CONNECTED"
    <3>1. /\ d.command.kind = "VERIFY_CONNECT" /\ p.state = "CONNECTING"
          /\ IsVerified(p, d.command.data)
      BY <1>8
    <3>2. x = Joined(p, d)
      BY <2>5 DEF Joined
    <3>3. PeerRight(made, answers, met, sure, h, s, p)
      BY <1>3
    <3>. HIDE DEF p, x, meets, isMet
    <3>. QED
      BY <1>1, <1>2, <2>3, <2>5, <3>1, <3>2, <3>3, VerifyMet
  <2>8. /\ peers' = [peers EXCEPT ![h][s] = x]
        /\ accepted' = accepted \cup {p.connectID}
    BY <1>4, <1>8, <2>7
  <2>. HIDE DEF x
  <2>9. Changes(h, s, x)
    BY <1>2, <1>3, <2>8, OneSlot
  <2>10. /\ uses' \in Nat /\ DOMAIN made \subseteq 1 .. uses'
         /\ DOMAIN met2 = accepted' /\ DOMAIN met2 \subseteq DOMAIN made
    BY <1>4, <2>2, <2>6, <2>8 DEF Told
  <2>11. peers[h][s].used <= x.used
    BY <1>3, <2>7 DEF PeerRight
  <2>12. \A t \in Slots(h) \ {s} :
            x.connectID = peers[h][t].connectID => x.connectID = NoConnection
    BY <1>2, <2>7 DEF Told, OneSlotEach
  <2>13. \A g \in Hosts : \A t \in Slots(g) :
            (g # h \/ t # s) /\ peers[g][t].state = "CONNECTING"
            => peers[g][t].connectID \notin DOMAIN met2
    <3>1. SUFFICES ASSUME NEW g \in Hosts, NEW t \in Slots(g), g # h \/ t # s,
                          peers[g][t].state = "CONNECTING"
                   PROVE  peers[g][t].connectID \notin DOMAIN met2
      OBVIOUS
    <3>2. Maker(made, answers, met, g, t, peers[g][t])
      BY <3>1 DEF Told, PeerRight, Idle, Taker
    <3>3. made[p.connectID].host = h /\ made[p.connectID].slot = s
      BY <2>1 DEF Maker, Began
    <3>4. /\ made[peers[g][t].connectID].host = g
          /\ made[peers[g][t].connectID].slot = t
      BY <3>2 DEF Maker, Began
    <3>5. peers[g][t].connectID \notin DOMAIN met
      BY <3>1, <3>2 DEF Maker
    <3>. HIDE DEF p
    <3>. QED
      BY <2>6, <3>1, <3>3, <3>4, <3>5
  <2>14. \A g, t, u : <<g, t, u>> \in DOMAIN answers =>
            <<g, t, u>> \in DOMAIN answers \/ (g = h /\ t = s /\ u <= x.used)
    OBVIOUS
  <2>15. \A e \in network' : e \in network \/ DatagramRight(made, answers, met2, e)
    BY <1>4
  <2>16. PeerRight(made, answers, met2, sure, h, s, x)
    BY <2>7
  <2>. HIDE DEF p, meets, isMet
  <2>. QED
    <3>1. h \in Hosts /\ s \in Slots(h)
      BY <1>2
    <3>2. Told(made, answers, met, sure)
      OBVIOUS
    <3>. QED
      BY <3>1, <3>2, <2>4, <2>9, <2>10, <2>11, <2>12, <2>13, <2>14, <2>15, <2>16, StepTold
<1>. QED
  BY <1>7, <1>8

-----------------------------------------------------------------------------
(* The theorems.                                                            *)

(* At first nothing is begun.                                               *)
LEMMA InitAgrees ==
    ASSUME NEW sure, Init
    PROVE  Agreement(sure)
<1>. DEFINE none == [x \in {} |-> x]
<1>1. /\ DOMAIN peers = Hosts
      /\ \A h \in Hosts : DOMAIN peers[h] = Slots(h)
      /\ \A h \in Hosts : \A s \in Slots(h) : peers[h][s] = Reset(Unused)
      /\ network = {} /\ uses = 0 /\ accepted = {}
  BY DEF Init
<1>2. Unused.used \in Nat
  BY DEF Unused
<1>3. \A h, s : PeerRight(none, none, none, sure, h, s, Reset(Unused))
  BY <1>2, ResetRight
<1>4. Reset(Unused).connectID = NoConnection
  BY <1>2, ResetRight
<1>5. DOMAIN none = {}
  OBVIOUS
<1>. HIDE DEF none
<1>6. Told(none, none, none, sure)
  BY <1>1, <1>3, <1>4, <1>5 DEF Told, Shaped, OneSlotEach
<1>. QED
  BY <1>6 DEF Agreement

(* Each step keeps the agreement.                                           *)
LEMMA NextAgrees ==
    ASSUME NEW sure, Agreement(sure), [Next]_vars, sure => OwnAcknowledgements
    PROVE  Agreement(sure)'
<1>1. PICK made, answers, met : Told(made, answers, met, sure)
  BY DEF Agreement
<1>2. CASE UNCHANGED vars
  <2>1. Told(made, answers, met, sure)'
    BY <1>1, <1>2 DEF vars, Told, Shaped, OneSlotEach
  <2>. QED
    BY <2>1 DEF Agreement
<1>3. ASSUME NEW h \in Hosts, NEW s \in Slots(h), Connect(h, s)
      PROVE  Agreement(sure)'
  BY <1>1, <1>3, ConnectAgrees
<1>4. ASSUME NEW h \in Hosts, NEW s \in Slots(h), Transmit(h, s)
      PROVE  Agreement(sure)'
  BY <1>1, <1>4, TransmitAgrees
<1>5. ASSUME NEW h \in Hosts, NEW s \in Slots(h), Disconnect(h, s)
      PROVE  Agreement(sure)'
  BY <1>1, <1>5, DisconnectAgrees
<1>6. ASSUME NEW h \in Hosts, NEW s \in Slots(h), DisconnectNow(h, s)
      PROVE  Agreement(sure)'
  BY <1>1, <1>6, DisconnectNowAgrees
<1>7. ASSUME NEW h \in Hosts, NEW s \in Slots(h),
             TimeOut(h, s) \/ PeerReset(h, s) \/ Dispatch(h, s)
      PROVE  Agreement(sure)'
  <2>1. /\ peers' = [peers EXCEPT ![h][s] = Reset(@)]
        /\ network' = network /\ uses' = uses /\ accepted' = accepted
    BY <1>7 DEF TimeOut, PeerReset, Dispatch
  <2>. QED
    BY <1>1, <2>1, ResetAgrees
<1>8. ASSUME NEW d \in network, Receive(d)
      PROVE  Agreement(sure)'
  <2>1. CASE d.peerID = NoPeerID
    <3>1. d.command.kind = "CONNECT" /\ ReceiveConnect(d.to, d) /\ accepted' = accepted
      BY <1>8, <2>1 DEF Receive
    <3>. QED
      BY <1>1, <3>1, ReceiveConnectAgrees
  <2>2. CASE d.peerID # NoPeerID
    BY <1>1, <1>8, <2>2, ReceiveAgrees
  <2>. QED
    BY <2>1, <2>2
<1>. QED
  BY <1>2, <1>3, <1>4, <1>5, <1>6, <1>7, <1>8 DEF Next

(* The ends of a connection are the one that began it and one that answered *)
(* it.                                                                      *)
LEMMA TwoEnds ==
    ASSUME NEW made, NEW answers, NEW met, NEW sure, Told(made, answers, met, sure),
           NEW g \in Hosts, NEW h \in Hosts, g # h,
           NEW s \in Slots(g), NEW t \in Slots(h),
           NEW p, p = peers[g][s], NEW q, q = peers[h][t],
           p.connectID # NoConnection, p.connectID = q.connectID,
           p.state \in Standing, q.state \in Standing
    PROVE  \/ /\ Maker(made, answers, met, g, s, p)
              /\ Taker(made, answers, met, sure, h, t, q)
           \/ /\ Taker(made, answers, met, sure, g, s, p)
              /\ Maker(made, answers, met, h, t, q)
<1>1. Other(g) = h /\ Other(h) = g
  BY TwoHosts
<1>2. /\ Maker(made, answers, met, g, s, p) \/ Taker(made, answers, met, sure, g, s, p)
      /\ Maker(made, answers, met, h, t, q) \/ Taker(made, answers, met, sure, h, t, q)
  BY DEF Told, PeerRight, Idle
<1>. DEFINE beginner == made[p.connectID].host
<1>3. /\ Maker(made, answers, met, g, s, p) => beginner = g
      /\ Taker(made, answers, met, sure, g, s, p) => beginner = h
  BY <1>1 DEF Maker, Taker, Began
<1>4. /\ Maker(made, answers, met, h, t, q) => beginner = h
      /\ Taker(made, answers, met, sure, h, t, q) => beginner = g
  BY <1>1 DEF Maker, Taker, Began
<1>. HIDE DEF beginner
<1>. QED
  BY ONLY <1>2, <1>3, <1>4, g # h

(* The two ends of a connection have as many channels and the same mtu, and *)
(* no end has more data in transit than the other can take.                 *)
LimitsAgree ==
    \A g, h \in Hosts : \A s \in Slots(g), t \in Slots(h) :
        LET p == peers[g][s]  q == peers[h][t] IN
        /\ g # h /\ p.connectID # NoConnection /\ p.connectID = q.connectID
        /\ p.state \in Standing /\ q.state \in Standing
        => /\ p.limits.channels = q.limits.channels
           /\ p.limits.mtu = q.limits.mtu
           /\ p.limits.window <= WindowOf(Incoming[h])
           /\ q.limits.window <= WindowOf(Incoming[g])

(* Two ends in the uses of their slots in which each has met the other send *)
(* with the session ids that the other expects.                             *)
SessionsAgree ==
    \A g, h \in Hosts : \A s \in Slots(g), t \in Slots(h) :
        LET p == peers[g][s]  q == peers[h][t] IN
        /\ g # h /\ p.connectID # NoConnection /\ p.connectID = q.connectID
        /\ p.state \in Standing /\ q.state \in Standing
        /\ p.outgoingPeerID = t /\ p.partner = q.used
        /\ q.outgoingPeerID = s /\ q.partner = p.used
        => /\ p.outgoingSessionID = q.incomingSessionID
           /\ q.outgoingSessionID = p.incomingSessionID

(* What was told makes the limits agree, and the sessions of those who met, *)
(* and no host have two slots for one connection, whosever the              *)
(* acknowledgements were.                                                   *)
LEMMA AgreementLimits ==
    ASSUME NEW sure, Agreement(sure)
    PROVE  LimitsAgree /\ SessionsAgree /\ OneSlotEach
<1>1. PICK made, answers, met : Told(made, answers, met, sure)
  BY DEF Agreement
<1>2. ASSUME NEW g \in Hosts, NEW h \in Hosts, g # h,
             NEW s \in Slots(g), NEW t \in Slots(h),
             NEW p, p = peers[g][s], NEW q, q = peers[h][t],
             p.connectID # NoConnection, p.connectID = q.connectID,
             p.state \in Standing, q.state \in Standing
      PROVE  /\ p.limits.channels = q.limits.channels
             /\ p.limits.mtu = q.limits.mtu
             /\ p.limits.window <= WindowOf(Incoming[h])
             /\ q.limits.window <= WindowOf(Incoming[g])
  <2>1. Other(g) = h /\ Other(h) = g
    BY <1>2, TwoHosts
  <2>2. /\ TakenLimits(h).window <= WindowOf(Incoming[g])
        /\ TakenLimits(g).window <= WindowOf(Incoming[h])
    BY <2>1, LimitsMeet
  <2>3. CASE /\ Maker(made, answers, met, g, s, p)
             /\ Taker(made, answers, met, sure, h, t, q)
    BY <1>2, <2>1, <2>2, <2>3 DEF Maker, Taker
  <2>4. CASE /\ Taker(made, answers, met, sure, g, s, p)
             /\ Maker(made, answers, met, h, t, q)
    BY <1>2, <2>1, <2>2, <2>4 DEF Maker, Taker
  <2>. QED
    BY <1>1, <1>2, <2>3, <2>4, TwoEnds
<1>3. ASSUME NEW g \in Hosts, NEW h \in Hosts, g # h,
             NEW s \in Slots(g), NEW t \in Slots(h),
             NEW p, p = peers[g][s], NEW q, q = peers[h][t],
             p.connectID # NoConnection, p.connectID = q.connectID,
             p.state \in Standing, q.state \in Standing,
             p.outgoingPeerID = t, p.partner = q.used,
             q.outgoingPeerID = s, q.partner = p.used
      PROVE  /\ p.outgoingSessionID = q.incomingSessionID
             /\ q.outgoingSessionID = p.incomingSessionID
  <2>1. Other(g) = h /\ Other(h) = g
    BY <1>3, TwoHosts
  <2>2. CASE /\ Maker(made, answers, met, g, s, p)
             /\ Taker(made, answers, met, sure, h, t, q)
    BY <1>3, <2>1, <2>2, SlotIDs DEF Maker, Taker, Chose
  <2>3. CASE /\ Taker(made, answers, met, sure, g, s, p)
             /\ Maker(made, answers, met, h, t, q)
    BY <1>3, <2>1, <2>3, SlotIDs DEF Maker, Taker, Chose
  <2>. QED
    BY <1>1, <1>3, <2>2, <2>3, TwoEnds
<1>. QED
  BY <1>1, <1>2, <1>3 DEF LimitsAgree, SessionsAgree, Told

(* When every acknowledgement was by the other end, the ends agree on all,  *)
(* and who is connected was accepted.                                       *)
LEMMA AgreementEnds ==
    ASSUME Agreement(TRUE)
    PROVE  EndsAgree /\ ConnectedOnce
<1>1. PICK made, answers, met : Told(made, answers, met, TRUE)
  BY DEF Agreement
<1>2. LimitsAgree /\ OneSlotEach
  BY AgreementLimits
<1>3. ASSUME NEW g \in Hosts, NEW h \in Hosts, g # h,
             NEW s \in Slots(g), NEW t \in Slots(h),
             NEW p, p = peers[g][s], NEW q, q = peers[h][t],
             p.connectID # NoConnection, p.connectID = q.connectID,
             p.state \in Standing, q.state \in Standing
      PROVE  /\ p.outgoingPeerID = t /\ q.outgoingPeerID = s
             /\ p.outgoingSessionID = q.incomingSessionID
             /\ q.outgoingSessionID = p.incomingSessionID
  <2>1. Other(g) = h /\ Other(h) = g
    BY <1>3, TwoHosts
  <2>2. CASE /\ Maker(made, answers, met, g, s, p)
             /\ Taker(made, answers, met, TRUE, h, t, q)
    BY <1>3, <2>1, <2>2 DEF Maker, Taker, Began, Met, Chose
  <2>3. CASE /\ Taker(made, answers, met, TRUE, g, s, p)
             /\ Maker(made, answers, met, h, t, q)
    BY <1>3, <2>1, <2>3 DEF Maker, Taker, Began, Met, Chose
  <2>. QED
    BY <1>1, <1>3, <2>2, <2>3, TwoEnds
<1>4. EndsAgree
  BY <1>2, <1>3 DEF EndsAgree, LimitsAgree
<1>5. ASSUME NEW h \in Hosts, NEW s \in Slots(h), peers[h][s].state = "CONNECTED"
      PROVE  peers[h][s].connectID \in accepted
  <2>1. PeerRight(made, answers, met, TRUE, h, s, peers[h][s]) /\ DOMAIN met = accepted
    BY <1>1 DEF Told
  <2>. QED
    BY <1>5, <2>1 DEF PeerRight, Idle, Maker, Taker, Met, Standing
<1>6. ConnectedOnce
  BY <1>2, <1>5 DEF ConnectedOnce, OneSlotEach
<1>. QED
  BY <1>4, <1>6

(* Whatever is lost, late or repeated, the limits of the two ends of a      *)
(* connection agree.                                                        *)
THEOREM LimitsAlways == Spec => []LimitsAgree
<1>1. Init => Agreement(FALSE)
  BY InitAgrees
<1>2. Agreement(FALSE) /\ [Next]_vars => Agreement(FALSE)'
  BY NextAgrees
<1>3. Agreement(FALSE) => LimitsAgree
  BY AgreementLimits
<1>. QED
  BY <1>1, <1>2, <1>3, PTL DEF Spec

(* So do the sessions of two ends that have met, though either slot may     *)
(* have answered, and been used, any number of times before.                *)
THEOREM SessionsAlways == Spec => []SessionsAgree
<1>1. Init => Agreement(FALSE)
  BY InitAgrees
<1>2. Agreement(FALSE) /\ [Next]_vars => Agreement(FALSE)'
  BY NextAgrees
<1>3. Agreement(FALSE) => SessionsAgree
  BY AgreementLimits
<1>. QED
  BY <1>1, <1>2, <1>3, PTL DEF Spec

(* However often a CONNECT is repeated, a host never has two slots for the  *)
(* connection it asks for.                                                  *)
THEOREM OneSlotAlways == Spec => []OneSlotEach
<1>1. Init => Agreement(FALSE)
  BY InitAgrees
<1>2. Agreement(FALSE) /\ [Next]_vars => Agreement(FALSE)'
  BY NextAgrees
<1>3. Agreement(FALSE) => OneSlotEach
  BY AgreementLimits
<1>. QED
  BY <1>1, <1>2, <1>3, PTL DEF Spec

(* As long as no slot takes an acknowledgement left from another use of it, *)
(* all is told as it should be.                                             *)
LEMMA AgreementAlways == Spec /\ []OwnAcknowledgements => []Agreement(TRUE)
<1>1. Init => Agreement(TRUE)
  BY InitAgrees
<1>2. Agreement(TRUE) /\ OwnAcknowledgements /\ [Next]_vars => Agreement(TRUE)'
  BY NextAgrees
<1>. QED
  BY <1>1, <1>2, PTL DEF Spec

(* Then the two ends of a connection agree on slots, sessions and limits.   *)
THEOREM EndsAlways == Spec /\ []OwnAcknowledgements => []EndsAgree
<1>1. Agreement(TRUE) => EndsAgree
  BY AgreementEnds
<1>. QED
  BY <1>1, AgreementAlways, PTL

(* And a host is connected only by a connection that the other one asked    *)
(* for and whose answer it accepted, and has one slot for it.               *)
THEOREM ConnectedAlways == Spec /\ []OwnAcknowledgements => []ConnectedOnce
<1>1. Agreement(TRUE) => ConnectedOnce
  BY AgreementEnds
<1>. QED
  BY <1>1, AgreementAlways, PTL
=============================================================================
