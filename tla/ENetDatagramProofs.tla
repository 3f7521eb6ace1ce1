-------------------------- MODULE ENetDatagramProofs --------------------------
(***************************************************************************)
(* Theorems of ENetDatagram, for any number of peers, of connections, of   *)
(* passes in a call and of datagrams in the network.                       *)
(*                                                                         *)
(* What a datagram says of itself, in its header and by the checksum, is   *)
(* true of it from the moment it is sent, and the network can only damage  *)
(* it as a whole.  What the receiver makes of it follows from that and     *)
(* from the connections of the moment.                                     *)
(***************************************************************************)
EXTENDS ENetDatagram, SequenceTheorems, TLAPS

LayerSeqs == Seq({"encrypted", "compressed"})

Datagrams ==
    [to : Peers, on : Nat, toPeer : BOOLEAN, session : Nat,
     compressedFlag : BOOLEAN, encryptedFlag : BOOLEAN,
     layers : LayerSeqs, seed : Nat, damaged : BOOLEAN]

Calls ==
    [turn : Nat, pass : Nat, again : SUBSET Peers, flagged : SUBSET Peers,
     encrypted : BOOLEAN]

(* Every variable keeps its type.                                           *)
TypeOK ==
    /\ has \in [{"compressor", "encryptor", "checksum"} -> BOOLEAN]
    /\ unencryptable \in Failing
    /\ connection \in [Peers -> Nat]
    /\ senderKnows \in [Peers -> BOOLEAN]
    /\ receiverKnows \in [Peers -> BOOLEAN]
    /\ call \in Calls
    /\ network \in SUBSET Datagrams

(* The session in the header and the seed of the checksum are those of the  *)
(* connection the datagram was sent on.                                     *)
Sealed(d) ==
    /\ d.toPeer => d.session = d.on % Sessions /\ d.seed = d.on
    /\ ~d.toPeer => d.seed = 0

(* The encryptor fails for every peer or for none.                          *)
FailsAlike == Failing \subseteq {{}, Peers}

(* The flag in the extended header is right for the rest of the call.       *)
FlagRight == call.encrypted => has["encryptor"] /\ unencryptable = {}

(* The layers are those the flags announce.                                 *)
Wrapped(d) == d.layers = Unwrapping(d)

Inv ==
    /\ TypeOK
    /\ \A d \in network : Sealed(d)
    /\ FailsAlike => FlagRight /\ \A d \in network : Wrapped(d)

-----------------------------------------------------------------------------
(* The layers around the commands form a sequence of layers, and so do      *)
(* those the receiver takes off.                                            *)
LEMMA LayersType ==
    ASSUME NEW compressed \in BOOLEAN, NEW encrypted \in BOOLEAN
    PROVE  Layers(compressed, encrypted) \in LayerSeqs
<1>. DEFINE outer == IF encrypted THEN <<"encrypted">> ELSE << >>
            inner == IF compressed THEN <<"compressed">> ELSE << >>
<1>0. << >> \in LayerSeqs /\ <<"encrypted">> \in LayerSeqs /\ <<"compressed">> \in LayerSeqs
  BY DEF LayerSeqs
<1>1. outer \in LayerSeqs
  BY <1>0
<1>2. inner \in LayerSeqs
  BY <1>0
<1>3. Layers(compressed, encrypted) = outer \o inner
  BY DEF Layers
<1>. HIDE DEF outer, inner
<1>. QED
  BY <1>1, <1>2, <1>3, ConcatProperties DEF LayerSeqs

(* A sequence begins with itself.                                           *)
LEMMA PrefixOfItself ==
    ASSUME NEW s \in LayerSeqs
    PROVE  IsPrefix(s, s)
BY DEF IsPrefix, LayerSeqs

(* Damage changes nothing but the datagram's being damaged.                 *)
LEMMA DamagedFields ==
    ASSUME NEW d \in Datagrams
    PROVE  LET e == [d EXCEPT !.damaged = TRUE] IN
           /\ e \in Datagrams
           /\ Sealed(d) => Sealed(e)
           /\ Wrapped(d) => Wrapped(e)
BY DEF Datagrams, Sealed, Wrapped, Unwrapping

(* A new host at the beginning of a call, with nothing in the network.      *)
LEMMA InitInv == Init => Inv
<1>. SUFFICES ASSUME Init PROVE Inv
  OBVIOUS
<1>1. NoPasses \in Calls /\ NoPasses.encrypted = FALSE
  BY DEF NoPasses, Calls
<1>. QED
  BY <1>1 DEF Init, Inv, TypeOK, FlagRight

(* The turn of a peer leaves the flag it found, or set.                     *)
LEMMA TurnOverFacts ==
    ASSUME call \in Calls, NEW p \in Peers, NEW continues \in BOOLEAN,
           NEW encrypted \in BOOLEAN, TurnOver(p, continues, encrypted)
    PROVE  call' \in Calls /\ call'.encrypted = encrypted
<1>. DEFINE n == call.turn + 1
            a == IF continues THEN call.again \union {p} ELSE call.again
<1>1. n \in Nat /\ a \in SUBSET Peers
  BY DEF Calls
<1>2. call' = [call EXCEPT !.turn = n, !.again = a, !.encrypted = encrypted]
  BY DEF TurnOver, Calls
<1>. HIDE DEF n, a
<1>. QED
  BY <1>1, <1>2 DEF Calls

(* enet_protocol_send_outgoing_commands for one peer: the datagram it puts  *)
(* into the network tells the truth about itself.                           *)
LEMMA SendInv ==
    ASSUME Inv, NEW p \in Peers, NEW smaller \in BOOLEAN, NEW continues \in BOOLEAN,
           Send(p, smaller, continues)
    PROVE  Inv'
<1>. DEFINE compressed == has["compressor"] /\ smaller
            encrypted == has["encryptor"] /\ p \notin unencryptable
            flagged == call.encrypted \/ encrypted
            d == [to |-> p, on |-> connection[p], toPeer |-> senderKnows[p],
                  session |-> IF senderKnows[p] THEN Session(p) ELSE 0,
                  compressedFlag |-> compressed,
                  encryptedFlag |-> flagged,
                  layers |-> Layers(compressed, encrypted),
                  seed |-> Seed(p, senderKnows[p]), damaged |-> FALSE]
<1>1. /\ network' = network \union {d}
      /\ TurnOver(p, continues, flagged)
      /\ UNCHANGED <<setup, connection, senderKnows, receiverKnows>>
  BY DEF Send
<1>2. TypeOK
  BY DEF Inv
<1>3. compressed \in BOOLEAN /\ encrypted \in BOOLEAN /\ flagged \in BOOLEAN
  BY <1>2 DEF TypeOK, Calls
<1>4. Layers(compressed, encrypted) \in LayerSeqs
  BY <1>3, LayersType
<1>5. Session(p) \in Nat /\ Session(p) = connection[p] % Sessions
  BY <1>2, DatagramAssumption DEF Session, TypeOK
<1>6. d \in Datagrams
  BY <1>2, <1>3, <1>4, <1>5 DEF Datagrams, TypeOK, Seed
<1>7. Sealed(d)
  BY <1>2, <1>5 DEF Sealed, Seed, TypeOK
<1>8. FailsAlike => (flagged <=> encrypted) /\ (flagged => has["encryptor"] /\ unencryptable = {})
  <2>1. FailsAlike => unencryptable = {} \/ p \in unencryptable
    BY <1>2 DEF TypeOK, FailsAlike
  <2>. QED
    BY <2>1 DEF Inv, FlagRight
<1>9. FailsAlike => Wrapped(d)
  BY <1>8 DEF Wrapped, Unwrapping, Layers
<1>. HIDE DEF d, compressed, encrypted, flagged
<1>10. call' \in Calls /\ call'.encrypted = flagged
  BY <1>1, <1>2, <1>3, TurnOverFacts DEF TypeOK
<1>11. TypeOK'
  BY <1>1, <1>2, <1>6, <1>10 DEF TypeOK, setup
<1>12. \A e \in network' : Sealed(e)
  BY <1>1, <1>7 DEF Inv
<1>13. FailsAlike => FlagRight' /\ \A e \in network' : Wrapped(e)
  BY <1>1, <1>8, <1>9, <1>10 DEF Inv, FlagRight, setup
<1>14. (\A e \in network : Sealed(e))' /\ (FailsAlike => (\A e \in network : Wrapped(e))')
  BY <1>12, <1>13 DEF Sealed, Wrapped, Unwrapping
<1>. QED
  BY <1>11, <1>13, <1>14 DEF Inv, FailsAlike

(* A peer with nothing to send, and the end of a pass over the peers.       *)
LEMMA PassInv ==
    ASSUME Inv, NEW p \in Peers, Pass(p)
    PROVE  Inv'
<1>1. call \in Calls /\ call.encrypted \in BOOLEAN
  BY DEF Inv, TypeOK, Calls
<1>2. call' \in Calls /\ call'.encrypted = call.encrypted
  BY <1>1, TurnOverFacts DEF Pass
<1>. QED
  BY <1>2 DEF Pass, setup, Inv, TypeOK, FlagRight, FailsAlike, Sealed, Wrapped, Unwrapping

(* At the end of a pass the call goes on with the peers that have more to   *)
(* send, or it is over.                                                     *)
LEMMA EndOfPassInv ==
    ASSUME Inv, EndOfPass
    PROVE  Inv'
<1>1. call \in Calls
  BY DEF Inv, TypeOK
<1>2. CASE call.again # {}
  <2>. DEFINE n == call.pass + 1
              a == call.again
  <2>1. n \in Nat /\ a \in SUBSET Peers
    BY <1>1 DEF Calls
  <2>2. call' = [call EXCEPT !.turn = 1, !.pass = n, !.again = {}, !.flagged = a]
    BY <1>1, <1>2 DEF EndOfPass, Calls
  <2>. HIDE DEF n, a
  <2>3. call' \in Calls /\ call'.encrypted = call.encrypted
    BY <1>1, <2>1, <2>2 DEF Calls
  <2>. QED
    BY <2>3
       DEF EndOfPass, setup, Inv, TypeOK, FlagRight, FailsAlike, Sealed, Wrapped, Unwrapping
<1>3. CASE call.again = {}
  <2>1. call' = NoPasses
    BY <1>3 DEF EndOfPass
  <2>2. call' \in Calls /\ call'.encrypted = FALSE
    BY <2>1 DEF NoPasses, Calls
  <2>. QED
    BY <2>2
       DEF EndOfPass, setup, Inv, TypeOK, FlagRight, FailsAlike, Sealed, Wrapped, Unwrapping
<1>. QED
  BY <1>2, <1>3

(* The network damages a datagram.                                          *)
LEMMA DamageInv ==
    ASSUME Inv, NEW d \in network, Damage(d)
    PROVE  Inv'
<1>. DEFINE e == [d EXCEPT !.damaged = TRUE]
<1>1. d \in Datagrams
  BY DEF Inv, TypeOK
<1>2. e \in Datagrams /\ (Sealed(d) => Sealed(e)) /\ (Wrapped(d) => Wrapped(e))
  BY <1>1, DamagedFields
<1>3. network' = (network \ {d}) \union {e}
  BY DEF Damage
<1>. HIDE DEF e
<1>4. TypeOK' /\ (FlagRight => FlagRight')
  BY <1>2, <1>3 DEF Inv, TypeOK, Damage, setup, FlagRight
<1>5. \A f \in network' : Sealed(f)
  BY <1>2, <1>3 DEF Inv
<1>6. FailsAlike => \A f \in network' : Wrapped(f)
  BY <1>2, <1>3 DEF Inv
<1>7. (\A f \in network : Sealed(f))' /\ (FailsAlike => (\A f \in network : Wrapped(f))')
  BY <1>5, <1>6 DEF Sealed, Wrapped, Unwrapping
<1>. QED
  BY <1>4, <1>7 DEF Inv, FailsAlike

(* A new connection in a peer's slot, and the peer ids learned with it,     *)
(* leave what is in the network as it was.                                  *)
LEMMA ReconnectInv ==
    ASSUME Inv, NEW p \in Peers, NEW begunHere \in BOOLEAN,
           Reconnect(p, begunHere) \/ Verified(p)
    PROVE  Inv'
<1>1. /\ connection' \in [Peers -> Nat]
      /\ senderKnows' \in [Peers -> BOOLEAN]
      /\ receiverKnows' \in [Peers -> BOOLEAN]
  <2>1. TypeOK /\ connection[p] + 1 \in Nat /\ (~begunHere) \in BOOLEAN
    BY DEF Inv, TypeOK
  <2>2. CASE Reconnect(p, begunHere)
    BY <2>1, <2>2 DEF TypeOK, Reconnect
  <2>3. CASE Verified(p)
    BY <2>1, <2>3 DEF TypeOK, Verified
  <2>. QED
    BY <2>2, <2>3
<1>2. UNCHANGED <<setup, call, network>>
  BY DEF Reconnect, Verified
<1>. QED
  BY <1>1, <1>2
     DEF setup, Inv, TypeOK, FlagRight, FailsAlike, Sealed, Wrapped, Unwrapping

(* Every step keeps the invariant.                                          *)
LEMMA NextInv == Inv /\ [Next]_vars => Inv'
<1>. SUFFICES ASSUME Inv, [Next]_vars PROVE Inv'
  OBVIOUS
<1>1. CASE \E d \in network : Lose(d) \/ Receive(d)
  <2>1. /\ network' \subseteq network
        /\ UNCHANGED <<setup, connection, senderKnows, receiverKnows, call>>
    BY <1>1 DEF Lose, Receive
  <2>. QED
    BY <2>1 DEF setup, Inv, TypeOK, FlagRight, FailsAlike, Sealed, Wrapped, Unwrapping
<1>2. CASE UNCHANGED vars
  BY <1>2 DEF vars, setup, Inv, TypeOK, FlagRight, FailsAlike, Sealed, Wrapped, Unwrapping
<1>. QED
  BY <1>1, <1>2, ReconnectInv, SendInv, PassInv, EndOfPassInv, DamageInv DEF Next

(* Inv holds at all times.                                                  *)
THEOREM Invariant == Spec => []Inv
BY InitInv, NextInv, PTL DEF Spec

-----------------------------------------------------------------------------
(* What the receiver makes of a datagram.                                   *)

Refused(d) ==
    \/ d.toPeer /\ ~IsForPeer(d.to, d)
    \/ ~IsPrefix(Unwrapping(d), d.layers)
    \/ has["checksum"] /\ ~ChecksumHolds(d.to, d)

ResultOf(d) ==
    IF Refused(d) THEN "dropped"
    ELSE IF ~d.damaged /\ d.layers = Unwrapping(d) THEN "understood" ELSE "garbled"

(* The result is recorded with the datagram and the connection its peer     *)
(* has.                                                                     *)
LEMMA ReceiveFacts ==
    ASSUME NEW d, Receive(d)
    PROVE  /\ handled' # Nothing
           /\ handled'.result = ResultOf(d)
           /\ handled'.datagram = d
           /\ handled'.connection = connection[d.to]
           /\ has' = has
<1>1. handled' = [result |-> ResultOf(d), datagram |-> d, connection |-> connection[d.to]]
  BY DEF Receive, ResultOf, Refused
<1>2. has' = has
  BY DEF Receive, setup
<1>. HIDE DEF ResultOf
<1>3. DOMAIN handled' # DOMAIN Nothing
  BY <1>1 DEF Nothing
<1>. QED
  BY <1>1, <1>2, <1>3

(* What is in the network is of its type, tells the truth about itself and, *)
(* if the encryptor fails for all peers alike, can be unwrapped.            *)
LEMMA InNetwork ==
    ASSUME Inv, NEW d \in network
    PROVE  /\ d \in Datagrams /\ d.to \in Peers /\ connection[d.to] \in Nat
           /\ Sealed(d)
           /\ FailsAlike => Wrapped(d)
BY DEF Inv, TypeOK, Datagrams

(* A datagram that passes the checksum is what was sent, on the connection  *)
(* its peer has now.                                                        *)
LEMMA ReceiveAuthentic ==
    ASSUME Inv, NEW d \in network, Receive(d)
    PROVE  Authentic'
<1>1. ASSUME has["checksum"], ResultOf(d) # "dropped"
      PROVE  ChecksumHolds(d.to, d)
  BY <1>1 DEF ResultOf, Refused
<1>2. ASSUME ChecksumHolds(d.to, d), ResultOf(d) # "dropped"
      PROVE  ResultOf(d) = "understood"
  BY <1>2 DEF ResultOf, ChecksumHolds
<1>3. ChecksumHolds(d.to, d) /\ d.toPeer => d.on = connection[d.to]
  BY InNetwork DEF ChecksumHolds, Sealed, Seed
<1>. QED
  BY <1>1, <1>2, <1>3, ReceiveFacts DEF Authentic

(* A whole datagram of the present connection passes every test.            *)
LEMMA ReceiveUnderstood ==
    ASSUME Inv, FailsAlike, NEW d \in network, Receive(d)
    PROVE  Understood'
<1>. SUFFICES ASSUME ~d.damaged, d.on = connection[d.to]
              PROVE  ResultOf(d) = "understood"
  BY ReceiveFacts DEF Understood
<1>1. d \in Datagrams /\ Sealed(d) /\ d.layers = Unwrapping(d)
  BY InNetwork DEF Wrapped
<1>2. d.toPeer => IsForPeer(d.to, d)
  BY <1>1 DEF IsForPeer, Sealed, Session
<1>3. IsPrefix(Unwrapping(d), d.layers)
  BY <1>1, PrefixOfItself DEF Datagrams
<1>4. ChecksumHolds(d.to, d)
  <2>1. d.toPeer \in BOOLEAN
    BY <1>1 DEF Datagrams
  <2>. QED
    BY <1>1, <2>1 DEF ChecksumHolds, Sealed, Seed
<1>. QED
  BY <1>1, <1>2, <1>3, <1>4 DEF ResultOf, Refused

(* Nothing is handled in the steps that are not a Receive.                  *)
LEMMA OtherSteps ==
    ASSUME Next
    PROVE  handled' = Nothing \/ \E d \in network : Receive(d)
BY DEF Next, Reconnect, Verified, Send, Pass, EndOfPass, Lose, Damage

(* With a checksum a peer handles only what was sent to it, as it was sent, *)
(* and on its present connection, whatever the number of session ids: also  *)
(* if the encryptor fails for some peers only.                              *)
THEOREM OnlyAuthentic == Spec => []Authentic
<1>1. Init => Authentic
  BY DEF Init, Authentic
<1>2. Inv /\ Authentic /\ [Next]_vars => Authentic'
  <2>. SUFFICES ASSUME Inv, Authentic, [Next]_vars PROVE Authentic'
    OBVIOUS
  <2>1. CASE UNCHANGED vars
    BY <2>1 DEF vars, Authentic
  <2>2. CASE handled' = Nothing
    BY <2>2 DEF Authentic
  <2>. QED
    BY <2>1, <2>2, OtherSteps, ReceiveAuthentic
<1>. QED
  BY <1>1, <1>2, Invariant, PTL DEF Spec

(* If the encryptor fails for all peers or for none, a datagram that        *)
(* arrives whole while its connection lasts is understood, whether or not   *)
(* it was compressed, encrypted or given a checksum, in whichever pass of   *)
(* a call it was sent and whatever session the peer is in.                  *)
THEOREM AlwaysUnderstood ==
    ASSUME Failing \subseteq {{}, Peers}
    PROVE  Spec => []Understood
<1>0. FailsAlike
  BY DEF FailsAlike
<1>1. Init => Understood
  BY DEF Init, Understood
<1>2. Inv /\ Understood /\ [Next]_vars => Understood'
  <2>. SUFFICES ASSUME Inv, Understood, [Next]_vars PROVE Understood'
    OBVIOUS
  <2>1. CASE UNCHANGED vars
    BY <2>1 DEF vars, Understood
  <2>2. CASE handled' = Nothing
    BY <2>2 DEF Understood
  <2>. QED
    BY <1>0, <2>1, <2>2, OtherSteps, ReceiveUnderstood
<1>. QED
  BY <1>1, <1>2, Invariant, PTL DEF Spec
=============================================================================
