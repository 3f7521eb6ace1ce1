---------------------------- MODULE ENetDatagram ----------------------------
(***************************************************************************)
(* What a host wraps around the commands of a datagram, and how the host   *)
(* at the other end unwraps it: header, compression, encryption and        *)
(* checksum, over a network that delays, repeats, loses and damages.       *)
(*                                                                         *)
(* A host sends to its peers 1 .. PeerCount in turns, as one call of       *)
(* enet_protocol_send_outgoing_commands does, and each peer may be used    *)
(* for one connection after another.  Both ends are set up alike.  The     *)
(* commands themselves are not looked at.                                  *)
(***************************************************************************)
EXTENDS Integers, FiniteSets, SequencesExt

CONSTANTS
    PeerCount,
    Sessions,           \* 4 in the code: session ids have two bits
    Failing,            \* the sets of peers for which encryption may fail
    MaxConnections,     \* bound: connections of a peer
    MaxPasses,          \* bound: passes over the peers in a call
    MaxDatagrams        \* bound: datagrams in the network

ASSUME DatagramAssumption ==
    /\ {PeerCount, Sessions} \subseteq Nat \ {0}
    /\ {MaxConnections, MaxPasses, MaxDatagrams} \subseteq Nat
    /\ Failing \subseteq SUBSET (1 .. PeerCount)

VARIABLES
    has,            \* which of compressor, encryptor and checksum are set
    unencryptable,  \* the peers for which the encryptor returns 0
    connection,     \* the number of each peer's connection, its connectID
    senderKnows,    \* whether outgoingPeerID is known to the host here
    receiverKnows,  \* and to the one at the other end
    call,           \* the call of enet_protocol_send_outgoing_commands
    network,
    handled         \* what the last step did with which datagram, if any

vars == <<has, unencryptable, connection, senderKnows, receiverKnows, call,
          network, handled>>

setup == <<has, unencryptable>>
Peers == 1 .. PeerCount
Session(p) == connection[p] % Sessions

NoPasses == [turn |-> 1, pass |-> 1, again |-> {}, flagged |-> Peers,
             encrypted |-> FALSE]
Nothing == [result |-> "none"]

-----------------------------------------------------------------------------
Init ==
    /\ has \in [{"compressor", "encryptor", "checksum"} -> BOOLEAN]
    /\ unencryptable \in Failing
    /\ connection = [p \in Peers |-> 1]
    /\ senderKnows = [p \in Peers |-> TRUE]
    /\ receiverKnows = [p \in Peers |-> TRUE]
    /\ call = NoPasses
    /\ network = {}
    /\ handled = Nothing

(***************************************************************************)
(* The peer is used for a new connection, which either end may have begun. *)
(* The one that did learns the other's peer id with VERIFY_CONNECT.        *)
(***************************************************************************)
Reconnect(p, begunHere) ==
    /\ connection[p] < MaxConnections
    /\ connection' = [connection EXCEPT ![p] = @ + 1]
    /\ senderKnows' = [senderKnows EXCEPT ![p] = ~begunHere]
    /\ receiverKnows' = [receiverKnows EXCEPT ![p] = begunHere]
    /\ handled' = Nothing
    /\ UNCHANGED <<setup, call, network>>

Verified(p) ==
    /\ ~(senderKnows[p] /\ receiverKnows[p])
    /\ senderKnows' = [senderKnows EXCEPT ![p] = TRUE]
    /\ receiverKnows' = [receiverKnows EXCEPT ![p] = TRUE]
    /\ handled' = Nothing
    /\ UNCHANGED <<setup, connection, call, network>>

(***************************************************************************)
(* Mutant: the checksum does not cover the id of the connection.           *)
(***************************************************************************)
BugSeed(p, known) == 0

\* The connectID that a checksum covers, which no datagram carries.
Seed(p, known) == IF known THEN connection[p] ELSE 0

(***************************************************************************)
(* The layers around the commands, the outermost first.                    *)
(***************************************************************************)
Layers(compressed, encrypted) ==
    (IF encrypted THEN <<"encrypted">> ELSE << >>)
        \o (IF compressed THEN <<"compressed">> ELSE << >>)

\* With the turn of peer p over, which asks for another pass or not.
TurnOver(p, continues, encrypted) ==
    call' = [call EXCEPT
                !.turn = @ + 1,
                !.again = IF continues THEN @ \union {p} ELSE @,
                !.encrypted = encrypted]

(***************************************************************************)
(* Peer p has something to send.  The compressor makes it smaller or does  *)
(* not; the flag in the extended header stays as it was set for an earlier *)
(* peer of the call if the encryptor fails.                                *)
(***************************************************************************)
Send(p, smaller, continues) ==
    LET compressed == has["compressor"] /\ smaller
        encrypted == has["encryptor"] /\ p \notin unencryptable
        flagged == call.encrypted \/ encrypted
    IN  /\ call.turn = p
        /\ p \in call.flagged
        /\ call.pass = MaxPasses => ~continues
        /\ smaller => has["compressor"]
        /\ Cardinality(network) < MaxDatagrams
        /\ network' = network \union
               {[to |-> p, on |-> connection[p], toPeer |-> senderKnows[p],
                 session |-> IF senderKnows[p] THEN Session(p) ELSE 0,
                 compressedFlag |-> compressed,
                 encryptedFlag |-> flagged,
                 layers |-> Layers(compressed, encrypted),
                 seed |-> Seed(p, senderKnows[p]), damaged |-> FALSE]}
        /\ TurnOver(p, continues, flagged)
        /\ handled' = Nothing
        /\ UNCHANGED <<setup, connection, senderKnows, receiverKnows>>

\* Peer p has nothing to send, or is not asked in this pass.
Pass(p) ==
    /\ call.turn = p
    /\ TurnOver(p, FALSE, call.encrypted)
    /\ handled' = Nothing
    /\ UNCHANGED <<setup, connection, senderKnows, receiverKnows, network>>

\* All had their turn: another pass for those who asked, or a later call.
EndOfPass ==
    /\ call.turn > PeerCount
    /\ call' = IF call.again # {}
               THEN [call EXCEPT !.turn = 1, !.pass = @ + 1, !.again = {},
                                 !.flagged = call.again]
               ELSE NoPasses
    /\ handled' = Nothing
    /\ UNCHANGED <<setup, connection, senderKnows, receiverKnows, network>>

-----------------------------------------------------------------------------
Lose(d) ==
    /\ network' = network \ {d}
    /\ handled' = Nothing
    /\ UNCHANGED <<setup, connection, senderKnows, receiverKnows, call>>

Damage(d) ==
    /\ ~d.damaged
    /\ network' = (network \ {d}) \union {[d EXCEPT !.damaged = TRUE]}
    /\ handled' = Nothing
    /\ UNCHANGED <<setup, connection, senderKnows, receiverKnows, call>>

(***************************************************************************)
(* Mutant: decompressed before it is decrypted.                            *)
(***************************************************************************)
BugUnwrapping(d) ==
    (IF d.compressedFlag THEN <<"compressed">> ELSE << >>)
        \o (IF d.encryptedFlag THEN <<"encrypted">> ELSE << >>)

\* The layers taken off, in this order; each fails on what is not one.
Unwrapping(d) ==
    (IF d.encryptedFlag THEN <<"encrypted">> ELSE << >>)
        \o (IF d.compressedFlag THEN <<"compressed">> ELSE << >>)

(***************************************************************************)
(* Whether peer p at the other end takes a datagram for its own.           *)
(***************************************************************************)
IsForPeer(p, d) == receiverKnows[p] => d.session = Session(p)

ChecksumHolds(p, d) ==
    /\ ~d.damaged
    /\ d.layers = Unwrapping(d)
    /\ d.seed = Seed(p, d.toPeer)

(***************************************************************************)
(* The commands of datagram d are handled, as they were sent or as the     *)
(* network left them, or it is dropped.                                    *)
(***************************************************************************)
Receive(d) ==
    LET p == d.to
        refused == \/ d.toPeer /\ ~IsForPeer(p, d)
                   \/ ~IsPrefix(Unwrapping(d), d.layers)
                   \/ has["checksum"] /\ ~ChecksumHolds(p, d)
        whole == ~d.damaged /\ d.layers = Unwrapping(d)
        result == IF refused THEN "dropped"
                  ELSE IF whole THEN "understood" ELSE "garbled"
    IN  /\ handled' = [result |-> result, datagram |-> d,
                       connection |-> connection[p]]
        /\ UNCHANGED <<setup, connection, senderKnows, receiverKnows, call,
                       network>>

Next ==
    \/ \E p \in Peers, begunHere \in BOOLEAN : Reconnect(p, begunHere)
    \/ \E p \in Peers : Verified(p)
    \/ \E p \in Peers, smaller, continues \in BOOLEAN :
           Send(p, smaller, continues)
    \/ \E p \in Peers : Pass(p)
    \/ EndOfPass
    \/ \E d \in network : Lose(d) \/ Damage(d) \/ Receive(d)

Spec == Init /\ [][Next]_vars

-----------------------------------------------------------------------------
(***************************************************************************)
(* A datagram that arrives whole, while the connection it was sent on is   *)
(* still that of its peer, is understood, whatever was set up, and whether *)
(* the compressor and the encryptor did their work or failed ("Should      *)
(* return 0 on failure").                                                  *)
(***************************************************************************)
Understood ==
    /\ handled # Nothing
    /\ ~handled.datagram.damaged
    /\ handled.datagram.on = handled.connection
    => handled.result = "understood"

(***************************************************************************)
(* With a checksum a peer handles only what was sent to it, as it was      *)
(* sent, and on its present connection: also where the two bits of a       *)
(* session id are the same again, or are not compared because the peer is  *)
(* still connecting.                                                       *)
(***************************************************************************)
Authentic ==
    /\ has["checksum"]
    /\ handled # Nothing
    /\ handled.result # "dropped"
    => /\ handled.result = "understood"
       /\ handled.datagram.toPeer =>
              handled.datagram.on = handled.connection
=============================================================================
