------------------------- MODULE ENetReliableSender -------------------------
(***************************************************************************)
(* The sending half of one reliable channel of a connected peer:           *)
(* enet_peer_send puts commands on outgoingSendReliableCommands,           *)
(* enet_protocol_check_outgoing_commands moves them to                     *)
(* sentReliableCommands as the windows and the in-transit limit allow,     *)
(* enet_protocol_check_timeouts moves the expired ones back, and           *)
(* enet_protocol_remove_sent_reliable_command destroys the acknowledged    *)
(* ones.                                                                   *)
(*                                                                         *)
(* outgoingSendReliableCommands always is a run of expired commands, put   *)
(* back at its front, followed by the commands never sent, in the order of *)
(* their numbers.  The model keeps the first part as the set expired (its  *)
(* order is left open) and the second as the numbers above attempted.      *)
(* Times are left out: any sent command may expire at any moment.          *)
(***************************************************************************)
EXTENDS ENetSequence, FiniteSets, Sequences

CONSTANTS
    FragmentCounts,   \* the fragmentCounts of packets; 0: sent unfragmented
    MaxCommands,      \* bound: commands ever queued
    InTransitLimit    \* MAX (throttled windowSize, mtu), in commands

ASSUME SenderAssumption ==
    /\ FragmentCounts \subseteq Nat
    /\ MaxCommands \in Nat
    /\ InTransitLimit \in Nat \ {0}

VARIABLES
    packets,                \* every ENetPacket sent, with its counters
    commands,               \* commands[i]: the packet command i carries
    attempted,              \* commands 1..attempted have sendAttempts > 0
    expired,                \* commands of outgoingSendReliableCommands among them
    sentReliableCommands,   \* the set of commands sent and not acknowledged
    reliableWindows,        \* unacknowledged commands of each window
    usedReliableWindows,    \* the windows whose bit is set
    reliableDataInTransit   \* in commands

senderVars == <<packets, commands, attempted, expired, sentReliableCommands,
                reliableWindows, usedReliableWindows, reliableDataInTransit>>

Ids == 1 .. Len(commands)

(* The commands sent at least once and not yet acknowledged.               *)
Unacknowledged == sentReliableCommands \cup expired

(* Every command on one of the two lists.                                  *)
Outgoing == Unacknowledged \cup (attempted + 1 .. Len(commands))

SlotOf(i) == WindowOf(Wire(i))

SenderInit ==
    /\ packets = <<>>
    /\ commands = <<>>
    /\ attempted = 0
    /\ expired = {}
    /\ sentReliableCommands = {}
    /\ reliableWindows = [w \in WindowNum |-> 0]
    /\ usedReliableWindows = {}
    /\ reliableDataInTransit = 0

-----------------------------------------------------------------------------

Span(fragmentCount) == IF fragmentCount = 0 THEN 1 ELSE fragmentCount

(* Mutants: a fragmented packet is referenced once, not once per command;   *)
(* its counter of fragments to acknowledge is left at 1.                    *)
BugReferencedOnce(fragmentCount) ==
    [first              |-> Len(commands) + 1,
     fragmentCount      |-> fragmentCount,
     referenceCount     |-> 1,
     remainingFragments |-> Span(fragmentCount)]

BugOneFragmentRemaining(fragmentCount) ==
    [first              |-> Len(commands) + 1,
     fragmentCount      |-> fragmentCount,
     referenceCount     |-> Span(fragmentCount),
     remainingFragments |-> 1]

NewPacket(fragmentCount) ==
    [first              |-> Len(commands) + 1,
     fragmentCount      |-> fragmentCount,
     referenceCount     |-> Span(fragmentCount),
     remainingFragments |-> Span(fragmentCount)]

(* enet_peer_send of a reliable packet.                                     *)
SendPacket(fragmentCount) ==
    /\ Len(commands) + Span(fragmentCount) <= MaxCommands
    /\ packets' = Append(packets, NewPacket(fragmentCount))
    /\ commands' = commands \o [k \in 1 .. Span(fragmentCount) |-> Len(packets) + 1]
    /\ UNCHANGED <<attempted, expired, sentReliableCommands, reliableWindows,
                   usedReliableWindows, reliableDataInTransit>>

(* Mutant: neither the window behind nor those ahead are looked at.         *)
BugNoWindows(i) == FALSE

(* The first command of a window waits until the window before it can count *)
(* no more and the windows it is about to enter have been acknowledged.     *)
IsWindowBlocked(i) ==
    /\ Wire(i) % WindowSize = 0
    /\ \/ reliableWindows[(SlotOf(i) + Windows - 1) % Windows] >= WindowSize
       \/ usedReliableWindows \cap GuardWindows(SlotOf(i)) # {}

IsTransitBlocked == reliableDataInTransit + 1 > InTransitLimit

(* enet_protocol_check_outgoing_commands reaching a command never sent.  It *)
(* does so only when the expired ones before it are out again: whatever     *)
(* blocks one of them ends the pass over the list.                          *)
SendNew ==
    LET i == attempted + 1 IN
    /\ i \in Ids
    /\ expired = {}
    /\ ~ IsWindowBlocked(i)
    /\ ~ IsTransitBlocked
    /\ usedReliableWindows' = usedReliableWindows \cup {SlotOf(i)}
    /\ reliableWindows' = [reliableWindows EXCEPT ![SlotOf(i)] = @ + 1]
    /\ attempted' = i
    /\ sentReliableCommands' = sentReliableCommands \cup {i}
    /\ reliableDataInTransit' = reliableDataInTransit + 1
    /\ UNCHANGED <<packets, commands, expired>>

(* The same for an expired command: it is counted in its window already.    *)
Resend(i) ==
    /\ i \in expired
    /\ ~ IsTransitBlocked
    /\ expired' = expired \ {i}
    /\ sentReliableCommands' = sentReliableCommands \cup {i}
    /\ reliableDataInTransit' = reliableDataInTransit + 1
    /\ UNCHANGED <<packets, commands, attempted, reliableWindows, usedReliableWindows>>

(* Mutant: an expired command stays in transit.                             *)
BugExpiredInTransit(i) ==
    /\ i \in sentReliableCommands
    /\ sentReliableCommands' = sentReliableCommands \ {i}
    /\ expired' = expired \cup {i}
    /\ UNCHANGED <<packets, commands, attempted, reliableWindows,
                   usedReliableWindows, reliableDataInTransit>>

(* enet_protocol_check_timeouts finding command i expired, short of the     *)
(* limits that give the peer up.                                            *)
Expire(i) ==
    /\ i \in sentReliableCommands
    /\ sentReliableCommands' = sentReliableCommands \ {i}
    /\ expired' = expired \cup {i}
    /\ reliableDataInTransit' = reliableDataInTransit - 1
    /\ UNCHANGED <<packets, commands, attempted, reliableWindows, usedReliableWindows>>

-----------------------------------------------------------------------------

(* Mutant: the first acknowledgement frees the whole packet.                *)
BugFreedAtOnce(packet, wasSent) ==
    [packet EXCEPT !.referenceCount = 0, !.remainingFragments = 0]

(* The packet of a command that leaves the lists.  remainingFragments goes  *)
(* down only when the command was found on sentReliableCommands; at 0 the   *)
(* acknowledge callback is called.  With its last reference the packet is   *)
(* destroyed, and what remainingFragments was is forgotten.                 *)
Released(packet, wasSent) ==
    [packet EXCEPT
        !.referenceCount = @ - 1,
        !.remainingFragments = IF packet.referenceCount = 1 THEN 0
                               ELSE IF wasSent THEN @ - 1 ELSE @]

(* Mutants: the bit of an emptied window stays set; a command found on the  *)
(* outgoing list is taken out of transit, too.                              *)
BugWindowStaysUsed(i, wasSent) ==
    /\ reliableWindows' = [reliableWindows EXCEPT ![SlotOf(i)] = @ - 1]
    /\ sentReliableCommands' = sentReliableCommands \ {i}
    /\ expired' = expired \ {i}
    /\ reliableDataInTransit' = reliableDataInTransit - (IF wasSent THEN 1 ELSE 0)
    /\ packets' = [packets EXCEPT ![commands[i]] = Released(@, wasSent)]
    /\ UNCHANGED <<commands, attempted, usedReliableWindows>>

BugAlwaysInTransit(i, wasSent) ==
    /\ reliableWindows' = [reliableWindows EXCEPT ![SlotOf(i)] = @ - 1]
    /\ usedReliableWindows' = IF reliableWindows[SlotOf(i)] = 1
                                THEN usedReliableWindows \ {SlotOf(i)}
                                ELSE usedReliableWindows
    /\ sentReliableCommands' = sentReliableCommands \ {i}
    /\ expired' = expired \ {i}
    /\ reliableDataInTransit' = reliableDataInTransit - 1
    /\ packets' = [packets EXCEPT ![commands[i]] = Released(@, wasSent)]
    /\ UNCHANGED <<commands, attempted>>

(* enet_protocol_remove_sent_reliable_command, from the command found on.   *)
RemoveCommand(i, wasSent) ==
    /\ IF reliableWindows[SlotOf(i)] > 0
         THEN /\ reliableWindows' = [reliableWindows EXCEPT ![SlotOf(i)] = @ - 1]
              /\ usedReliableWindows' = IF reliableWindows[SlotOf(i)] = 1
                                          THEN usedReliableWindows \ {SlotOf(i)}
                                          ELSE usedReliableWindows
         ELSE UNCHANGED <<reliableWindows, usedReliableWindows>>
    /\ sentReliableCommands' = sentReliableCommands \ {i}
    /\ expired' = expired \ {i}
    /\ reliableDataInTransit' = reliableDataInTransit - (IF wasSent THEN 1 ELSE 0)
    /\ packets' = [packets EXCEPT ![commands[i]] = Released(@, wasSent)]
    /\ UNCHANGED <<commands, attempted>>

Carrying(list, seq) == {i \in list : Wire(i) = seq}

(* enet_protocol_handle_acknowledge: sentReliableCommands is searched       *)
(* first, then the commands put back on the outgoing list.  An ack that     *)
(* matches nothing changes nothing here.                                    *)
Acknowledge(seq) ==
    \/ \E i \in Carrying(sentReliableCommands, seq) : RemoveCommand(i, TRUE)
    \/ /\ Carrying(sentReliableCommands, seq) = {}
       /\ \E i \in Carrying(expired, seq) : RemoveCommand(i, FALSE)

(* The sender alone, among acknowledgements of every number at every time.  *)
SenderNext ==
    \/ \E n \in FragmentCounts : SendPacket(n)
    \/ SendNew
    \/ \E i \in Ids : Resend(i) \/ Expire(i)
    \/ \E seq \in SeqNum : Acknowledge(seq)

SenderSpec == SenderInit /\ [][SenderNext]_senderVars

-----------------------------------------------------------------------------

PacketRecords ==
    [first : Nat \ {0}, fragmentCount : FragmentCounts, referenceCount : Nat,
     remainingFragments : Nat]

(* Every variable keeps its type, and only commands that were sent are on   *)
(* sentReliableCommands or expired, never on both.                          *)
SenderTypeOK ==
    /\ packets \in Seq(PacketRecords)
    /\ commands \in Seq(1 .. Len(packets))
    /\ attempted \in 0 .. Len(commands)
    /\ expired \subseteq 1 .. attempted
    /\ sentReliableCommands \subseteq 1 .. attempted
    /\ expired \cap sentReliableCommands = {}
    /\ reliableWindows \in [WindowNum -> Nat]
    /\ usedReliableWindows \subseteq WindowNum
    /\ reliableDataInTransit \in Nat

(* The per-window counters are exactly the unacknowledged commands of each  *)
(* window, through any order of sends, timeouts, resends and late           *)
(* acknowledgements, and the bit of a window is set iff its count is not 0: *)
(* the sender cannot wedge itself on a window nothing occupies.             *)
WindowAccounting ==
    /\ \A w \in WindowNum :
          reliableWindows[w] = Cardinality({i \in Unacknowledged : SlotOf(i) = w})
    /\ usedReliableWindows = {w \in WindowNum : reliableWindows[w] > 0}

(* reliableDataInTransit is what sentReliableCommands carries, so the       *)
(* in-flight limit neither leaks away nor is exceeded.                      *)
TransitAccounting ==
    /\ reliableDataInTransit = Cardinality(sentReliableCommands)
    /\ reliableDataInTransit <= InTransitLimit

(* All unacknowledged commands lie in the last FreeWindows - 1 windows the  *)
(* sender has entered; the 16-bit number of an acknowledgement therefore    *)
(* names one of them at most, however often the numbers have wrapped.       *)
InFlightSpan ==
    \A i \in Unacknowledged :
        i \div WindowSize + FreeWindows - 2 >= attempted \div WindowSize

NumbersUnambiguous ==
    \A i, j \in Unacknowledged : Wire(i) = Wire(j) => i = j

(* A packet is freed (referenceCount 0) exactly when no command on a list   *)
(* still points to it.                                                      *)
ReferencesCounted ==
    \A p \in DOMAIN packets :
        packets[p].referenceCount = Cardinality({i \in Outgoing : commands[i] = p})

(* The acknowledge callback, called when remainingFragments reaches 0, is   *)
(* never called while a command of the packet is still to be acknowledged.  *)
CallbackNotEarly ==
    \A p \in DOMAIN packets :
        packets[p].remainingFragments >= packets[p].referenceCount

(* The two counters that can stop a channel for good, should they ever be   *)
(* off by one: those of the windows and that of the data in transit.        *)
CountersExact == WindowAccounting /\ TransitAccounting

(* What a packet counts of its commands is true to the lists: it is neither *)
(* freed under a command nor reported as acknowledged before it is.         *)
PacketsExact == ReferencesCounted /\ CallbackNotEarly
=============================================================================
