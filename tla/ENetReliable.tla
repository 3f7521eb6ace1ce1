---------------------------- MODULE ENetReliable ----------------------------
(***************************************************************************)
(* One reliable channel end to end: the sender of one host, the receiver   *)
(* of the other, and a network that loses, duplicates, reorders and delays *)
(* datagrams in both directions.                                           *)
(*                                                                         *)
(* Each command travels in a datagram of its own.  The network keeps a     *)
(* datagram for its lifetime and may deliver it any number of times, or    *)
(* never.  Numbers of 16 bits cannot be told apart for ever, so a datagram *)
(* is gone for good when Lifetime further commands have been sent.  With   *)
(* the real constants that may be 36864 commands later, less the other     *)
(* fragments of the packet: every fragment carries the number of the first *)
(* one, which must not come round to the receive window again meanwhile.   *)
(* (Packets of FreeWindows windows and more need no such bound: the window *)
(* tests of the two sides never let the last of their fragments out.)      *)
(***************************************************************************)
EXTENDS ENetReliableSender, ENetReliableReceiver

CONSTANTS
    Lifetime,   \* bound on how late a datagram arrives, in commands
    Losses      \* whether datagrams may also leave the network before that

ASSUME NetworkAssumption ==
    /\ Lifetime \in 0 .. (FreeWindows + 1) * WindowSize
    /\ \A n \in FragmentCounts :
          Span(n) < FreeWindows * WindowSize =>
             Lifetime + Span(n) - 1 <= (FreeWindows + 1) * WindowSize
    /\ Losses \in BOOLEAN

VARIABLES
    data,   \* ids of the commands in the network
    acks    \* ids of the commands acknowledged by what is in the network

networkVars == <<data, acks>>

vars == <<senderVars, receiverVars, networkVars>>

Init == SenderInit /\ ReceiverInit /\ data = {} /\ acks = {}

(* What survives in the network once command n has been sent.               *)
Alive(datagrams, n) == {i \in datagrams : i + Lifetime >= n}

Datagram(i) ==
    LET packet == packets[commands[i]] IN
    [number         |-> Wire(i),
     start          |-> Wire(packet.first),
     fragmentNumber |-> i - packet.first,
     fragmentCount  |-> packet.fragmentCount,
     packet         |-> commands[i],
     id             |-> i]

-----------------------------------------------------------------------------

Send(fragmentCount) ==
    SendPacket(fragmentCount) /\ UNCHANGED <<receiverVars, networkVars>>

TransmitNew ==
    /\ SendNew
    /\ data' = Alive(data \cup {attempted'}, attempted')
    /\ acks' = Alive(acks, attempted')
    /\ UNCHANGED receiverVars

Retransmit(i) ==
    /\ Resend(i)
    /\ data' = Alive(data \cup {i}, attempted)
    /\ UNCHANGED <<acks, receiverVars>>

CheckTimeouts(i) == Expire(i) /\ UNCHANGED <<receiverVars, networkVars>>

DeliverCommand(i) ==
    /\ i \in data
    /\ ReceiveCommand(Datagram(i))
    /\ UNCHANGED <<senderVars, networkVars>>

SendAcknowledgements ==
    /\ acknowledgements # {}
    /\ acks' = Alive(acks \cup acknowledgements, attempted)
    /\ acknowledgements' = {}
    /\ UNCHANGED <<senderVars, data, incomingReliableSequenceNumber,
                   incomingReliableCommands, dispatchedCommands,
                   totalWaitingData, received>>

DeliverAcknowledgement(i) ==
    /\ i \in acks
    /\ Acknowledge(Wire(i))
    /\ UNCHANGED <<receiverVars, networkVars>>

Receive == PeerReceive /\ UNCHANGED <<senderVars, networkVars>>

Lose(i) ==
    /\ Losses
    /\ \/ i \in data /\ data' = data \ {i} /\ UNCHANGED acks
       \/ i \in acks /\ acks' = acks \ {i} /\ UNCHANGED data
    /\ UNCHANGED <<senderVars, receiverVars>>

Next ==
    \/ \E n \in FragmentCounts : Send(n)
    \/ TransmitNew
    \/ SendAcknowledgements
    \/ Receive
    \/ \E i \in Ids : \/ Retransmit(i)
                      \/ CheckTimeouts(i)
                      \/ DeliverCommand(i)
                      \/ DeliverAcknowledgement(i)
                      \/ Lose(i)

Spec == Init /\ [][Next]_vars

(* Both hosts are serviced again and again: what may be sent is sent, what  *)
(* stays unacknowledged expires, and the application takes what has been    *)
(* dispatched.  A pass over the outgoing list that has put the expired      *)
(* commands out goes on to the new ones, hence strong fairness for those.   *)
(* The network does not lose for ever what is sent for ever.  Nothing makes *)
(* the application send.                                                    *)
Fairness ==
    /\ SF_vars(TransmitNew)
    /\ WF_vars(SendAcknowledgements)
    /\ WF_vars(Receive)
    /\ \A i \in 1 .. MaxCommands :
          /\ WF_vars(Retransmit(i))
          /\ WF_vars(CheckTimeouts(i))
          /\ SF_vars(DeliverCommand(i))
          /\ SF_vars(DeliverAcknowledgement(i))

FairSpec == Spec /\ Fairness

-----------------------------------------------------------------------------

QueuedIds ==
    UNION {incomingReliableCommands[k].ids : k \in DOMAIN incomingReliableCommands}

DispatchedPackets ==
    received \o [k \in DOMAIN dispatchedCommands |-> dispatchedCommands[k].packet]

(* Packets are dispatched in the order in which they were sent, none        *)
(* skipped and none twice.                                                  *)
InOrderExactlyOnce ==
    DispatchedPackets = [k \in DOMAIN DispatchedPackets |-> k]

(* A packet put together by the receiver only ever holds fragments of the   *)
(* one packet it was made for, also when the numbers have gone around the   *)
(* circle.                                                                  *)
FragmentsBelong ==
    LET entries == incomingReliableCommands \o dispatchedCommands IN
    \A k \in DOMAIN entries :
        \A i \in entries[k].ids : commands[i] = entries[k].packet

(* The list is in the order of the numbers around the circle, no number     *)
(* twice, and within the receive window.                                    *)
ListInOrder ==
    LET Distance(k) == (incomingReliableCommands[k].number
                           - incomingReliableSequenceNumber) % Circle
    IN  \A k \in DOMAIN incomingReliableCommands :
           /\ Distance(k) > 0
           /\ k > 1 => Distance(k - 1) < Distance(k)
           /\ InReceiveWindow(incomingReliableCommands[k].number,
                              incomingReliableSequenceNumber)

(* The scan for a command's place finds it, on either side of a wrap.       *)
ListSound == FragmentsBelong /\ ListInOrder

(* A command the sender has let go, or that the receiver is acknowledging,  *)
(* is safe with the receiver: on its list or dispatched.                    *)
AcknowledgedIsStored ==
    \A i \in ((1 .. attempted) \ Unacknowledged) \cup acks \cup acknowledgements :
        i \in QueuedIds \/ commands[i] <= Len(DispatchedPackets)

(* The packets on the two lists of the receiver.                            *)
WaitingPackets ==
    LET entries == incomingReliableCommands \o dispatchedCommands
    IN  {entries[k].packet : k \in DOMAIN entries}

(* totalWaitingData is the space of the packets on the two lists, each with *)
(* all its fragments from when the first one came until it is fetched.      *)
WaitingAccounting ==
    totalWaitingData = Cardinality({i \in Ids : commands[i] \in WaitingPackets})

(* The packets that are with the receiving host as a whole.                 *)
Arrived ==
    {p \in DOMAIN packets :
        \/ p <= Len(DispatchedPackets)
        \/ \E k \in DOMAIN incomingReliableCommands :
              /\ incomingReliableCommands[k].packet = p
              /\ IsComplete(incomingReliableCommands[k])}

(* A packet all of whose commands have been acknowledged has been destroyed *)
(* by its sender.                                                           *)
Confirmed == {p \in DOMAIN packets : packets[p].referenceCount = 0}

Delivery == INSTANCE ReliableDelivery WITH
                offered   <- Len(packets),
                arrived   <- Arrived,
                delivered <- received,
                confirmed <- Confirmed

(* The channel is a reliable channel: in order, exactly once, and a packet  *)
(* is let go by its sender only after it has arrived as a whole.            *)
ImplementsDelivery == Delivery!Spec

(* However often datagrams are lost on the way, every packet given to       *)
(* enet_peer_send reaches the application, and the sender learns of it, so  *)
(* that nothing is resent for ever.  (MaxCommands stops the sends, so that  *)
(* there is a time after the last one.)                                     *)
AllDelivered ==
    []<>(Len(received) = Len(packets) /\ Outgoing = {})
=============================================================================
