------------------------ MODULE ENetReliableReceiver ------------------------
(***************************************************************************)
(* The receiving half of one reliable channel of a connected peer.         *)
(*                                                                         *)
(* enet_protocol_handle_send_reliable and enet_protocol_handle_send_       *)
(* fragment put what arrives into incomingReliableCommands, a list kept in *)
(* the order of the numbers around the circle; enet_peer_dispatch_         *)
(* incoming_reliable_commands moves its complete, consecutive head to      *)
(* dispatchedCommands, where enet_peer_receive takes it.                   *)
(*                                                                         *)
(* A datagram is a record: number and start are the 16-bit numbers of the  *)
(* command and of the first command of its packet, fragmentNumber and      *)
(* fragmentCount its place among the fragments (fragmentCount 0: a SEND_   *)
(* RELIABLE), packet and id what the code cannot see: the packet and the   *)
(* command it was made from.                                               *)
(***************************************************************************)
EXTENDS ENetSequence, FiniteSets, Sequences, SequencesExt

CONSTANT MaximumWaitingData   \* host->maximumWaitingData, in fragments

ASSUME WaitingAssumption == MaximumWaitingData \in Nat \ {0}

VARIABLES
    incomingReliableSequenceNumber,   \* of the last command dispatched
    incomingReliableCommands,         \* sequence of partly or wholly arrived packets
    dispatchedCommands,               \* packets waiting for enet_peer_receive
    totalWaitingData,                 \* the space all of those take
    received,                         \* history: packets given to the application
    acknowledgements                  \* commands to be acknowledged

receiverVars == <<incomingReliableSequenceNumber, incomingReliableCommands,
                  dispatchedCommands, totalWaitingData, received, acknowledgements>>

ReceiverInit ==
    /\ incomingReliableSequenceNumber = 0
    /\ incomingReliableCommands = <<>>
    /\ dispatchedCommands = <<>>
    /\ totalWaitingData = 0
    /\ received = <<>>
    /\ acknowledgements = {}

-----------------------------------------------------------------------------

(* The numbers a packet takes, which is also the space it takes here.       *)
SpanOf(entry) == IF entry.fragmentCount = 0 THEN 1 ELSE entry.fragmentCount

IsComplete(entry) ==
    entry.fragmentCount = 0 \/ Cardinality(entry.fragments) = entry.fragmentCount

(* Mutant: the numbers are compared as if they never wrapped.               *)
BugScanUnwrapped(seq) ==
    SelectLastInSeq(incomingReliableCommands, LAMBDA entry : entry.number <= seq)

(* Scanning the list from its end for the place of seq, the code stops at   *)
(* this position; 0 when it runs off the front.                             *)
ScanStop(seq) ==
    LET inc == incomingReliableSequenceNumber
        Stops(entry) == IF seq >= inc THEN entry.number >= inc /\ entry.number <= seq
                                      ELSE entry.number >= inc \/ entry.number <= seq
    IN  SelectLastInSeq(incomingReliableCommands, Stops)

(* Mutant: the entry the scan stops at is taken for the one looked for.     *)
BugAnyEntry(seq) == ScanStop(seq) # 0

IsQueued(seq) ==
    /\ ScanStop(seq) # 0
    /\ incomingReliableCommands[ScanStop(seq)].number = seq

(* The number the k-th entry must have to follow the ones before it.        *)
NumberExpected(list, k) ==
    (IF k = 1 THEN incomingReliableSequenceNumber + 1
              ELSE list[k - 1].number + SpanOf(list[k - 1])) % Circle

(* Mutant: whatever is complete is dispatched, consecutive or not.          *)
BugDispatchComplete(list) ==
    LET Ready(k) == \A j \in 1 .. k : IsComplete(list[j])
        n == CHOOSE k \in 0 .. Len(list) :
                Ready(k) /\ (k = Len(list) \/ ~ Ready(k + 1))
    IN  /\ incomingReliableCommands' = SubSeq(list, n + 1, Len(list))
        /\ dispatchedCommands' = dispatchedCommands \o SubSeq(list, 1, n)
        /\ incomingReliableSequenceNumber' =
               IF n = 0 THEN incomingReliableSequenceNumber
               ELSE (list[n].number + SpanOf(list[n]) - 1) % Circle

(* enet_peer_dispatch_incoming_reliable_commands with the list just changed *)
(* to list: its longest complete and consecutive head is dispatched.        *)
Dispatch(list) ==
    LET Ready(k) == \A j \in 1 .. k :
                        IsComplete(list[j]) /\ list[j].number = NumberExpected(list, j)
        n == CHOOSE k \in 0 .. Len(list) :
                Ready(k) /\ (k = Len(list) \/ ~ Ready(k + 1))
    IN  /\ incomingReliableCommands' = SubSeq(list, n + 1, Len(list))
        /\ dispatchedCommands' = dispatchedCommands \o SubSeq(list, 1, n)
        /\ incomingReliableSequenceNumber' =
               IF n = 0 THEN incomingReliableSequenceNumber
               ELSE (list[n].number + SpanOf(list[n]) - 1) % Circle

-----------------------------------------------------------------------------

(* enet_peer_queue_acknowledgement, after the command has been handled.     *)
QueueAcknowledgement(d) ==
    acknowledgements' =
        IF IsAckRefused(d.number, incomingReliableSequenceNumber')
        THEN acknowledgements ELSE acknowledgements \cup {d.id}

Entry(d) ==
    [number |-> d.start, fragmentCount |-> d.fragmentCount,
     fragments |-> {}, packet |-> d.packet, ids |-> {}]

(* Writing one fragment into its entry.                                     *)
WithFragment(entry, d) ==
    IF d.fragmentNumber \in entry.fragments THEN entry
    ELSE [entry EXCEPT !.fragments = @ \cup {d.fragmentNumber},
                       !.ids = @ \cup {d.id}]

(* enet_peer_queue_incoming_command discards what it cannot place ...       *)
IsDiscarded(d) ==
    \/ ~ InReceiveWindow(d.start, incomingReliableSequenceNumber)
    \/ d.start = incomingReliableSequenceNumber
    \/ IsQueued(d.start)

(* ... and fails while too much data is waiting.                            *)
IsFull == totalWaitingData >= MaximumWaitingData

(* Mutant: a full receiver acknowledges what it does not store.             *)
BugFullAcknowledges(d) ==
    /\ d.fragmentCount = 0
    /\ IF IsDiscarded(d) \/ IsFull
         THEN UNCHANGED <<incomingReliableSequenceNumber, incomingReliableCommands,
                          dispatchedCommands, totalWaitingData>>
         ELSE /\ totalWaitingData' = totalWaitingData + 1
              /\ Dispatch(InsertAt(incomingReliableCommands, ScanStop(d.start) + 1,
                                   [Entry(d) EXCEPT !.ids = {d.id}]))
    /\ QueueAcknowledgement(d)
    /\ UNCHANGED received

(* enet_protocol_handle_send_reliable, then the acknowledgement.            *)
ReceiveReliable(d) ==
    /\ d.fragmentCount = 0
    /\ \/ /\ IsDiscarded(d)
          /\ UNCHANGED <<incomingReliableSequenceNumber, incomingReliableCommands,
                         dispatchedCommands, totalWaitingData>>
          /\ QueueAcknowledgement(d)
       \/ /\ ~ IsDiscarded(d)
          /\ ~ IsFull
          /\ totalWaitingData' = totalWaitingData + 1
          /\ Dispatch(InsertAt(incomingReliableCommands, ScanStop(d.start) + 1,
                               [Entry(d) EXCEPT !.ids = {d.id}]))
          /\ QueueAcknowledgement(d)
    /\ UNCHANGED received

(* enet_protocol_handle_send_fragment returning 0 without having stored     *)
(* anything: the packet is outside the receive window.                      *)
IgnoreFragment(d) ==
    /\ d.fragmentCount > 0
    /\ ~ InReceiveWindow(d.start, incomingReliableSequenceNumber)
    /\ UNCHANGED <<incomingReliableSequenceNumber, incomingReliableCommands,
                   dispatchedCommands, totalWaitingData, received>>
    /\ QueueAcknowledgement(d)

(* enet_protocol_handle_send_fragment for a packet already on the list.  A  *)
(* datagram that does not fit the entry found is refused, unacknowledged.   *)
AddFragment(d) ==
    LET k == ScanStop(d.start)
        list == incomingReliableCommands
        entry == WithFragment(list[k], d)
    IN  /\ d.fragmentCount > 0
        /\ InReceiveWindow(d.start, incomingReliableSequenceNumber)
        /\ IsQueued(d.start)
        /\ list[k].fragmentCount = d.fragmentCount
        /\ IF entry # list[k] /\ IsComplete(entry)
             THEN Dispatch(ReplaceAt(list, k, entry))
             ELSE /\ incomingReliableCommands' = ReplaceAt(list, k, entry)
                  /\ UNCHANGED <<incomingReliableSequenceNumber, dispatchedCommands>>
        /\ QueueAcknowledgement(d)
        /\ UNCHANGED <<totalWaitingData, received>>

(* enet_protocol_handle_send_fragment for a packet not yet on the list.     *)
StartFragments(d) ==
    /\ d.fragmentCount > 0
    /\ ~ IsDiscarded(d)
    /\ ~ IsFull
    /\ totalWaitingData' = totalWaitingData + d.fragmentCount
    /\ LET list == InsertAt(incomingReliableCommands, ScanStop(d.start) + 1,
                            WithFragment(Entry(d), d))
       IN  IF d.fragmentCount = 1
             THEN Dispatch(list)
             ELSE /\ incomingReliableCommands' = list
                  /\ UNCHANGED <<incomingReliableSequenceNumber, dispatchedCommands>>
    /\ QueueAcknowledgement(d)
    /\ UNCHANGED received

ReceiveCommand(d) ==
    ReceiveReliable(d) \/ IgnoreFragment(d) \/ AddFragment(d) \/ StartFragments(d)

(* Mutant: a packet received gives back the space of one fragment.          *)
BugOneFragmentReturned ==
    /\ dispatchedCommands # <<>>
    /\ received' = Append(received, Head(dispatchedCommands).packet)
    /\ dispatchedCommands' = Tail(dispatchedCommands)
    /\ totalWaitingData' = totalWaitingData - Min({totalWaitingData, 1})
    /\ UNCHANGED <<incomingReliableSequenceNumber, incomingReliableCommands,
                   acknowledgements>>

(* enet_peer_receive.                                                       *)
PeerReceive ==
    /\ dispatchedCommands # <<>>
    /\ received' = Append(received, Head(dispatchedCommands).packet)
    /\ dispatchedCommands' = Tail(dispatchedCommands)
    /\ totalWaitingData' = totalWaitingData
                             - Min({totalWaitingData, SpanOf(Head(dispatchedCommands))})
    /\ UNCHANGED <<incomingReliableSequenceNumber, incomingReliableCommands,
                   acknowledgements>>
=============================================================================
