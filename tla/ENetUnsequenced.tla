--------------------------- MODULE ENetUnsequenced ---------------------------
(***************************************************************************)
(* Unsequenced packets: delivered in any order, but not twice.             *)
(*                                                                         *)
(* The sender numbers them with 16 bits.  The receiver remembers one bit   *)
(* for each number of the present window of 1024, and refuses as old what  *)
(* is not in one of the 32 windows from there on.  As in ENetSequence the  *)
(* sizes are constants, and a packet is named by its absolute number, of   *)
(* which the datagram has only Group(i).                                   *)
(***************************************************************************)
EXTENDS Integers

CONSTANTS
    UnsequencedWindowSize,    \* ENET_PEER_UNSEQUENCED_WINDOW_SIZE    (1024)
    FreeUnsequencedWindows,   \* ENET_PEER_FREE_UNSEQUENCED_WINDOWS   (32)
    GroupLifetime,   \* how many further packets are sent before one is gone for good
    MaxGroup         \* bound on the packets sent

GroupCircle == 2 * FreeUnsequencedWindows * UnsequencedWindowSize   \* 0x10000

ASSUME UnsequencedAssumption ==
    /\ UnsequencedWindowSize \in Nat \ {0}
    /\ FreeUnsequencedWindows \in Nat \ {0}
    /\ GroupLifetime \in 0 .. FreeUnsequencedWindows * UnsequencedWindowSize
    /\ MaxGroup \in Nat

VARIABLES
    outgoingUnsequencedGroup,   \* absolute number of the last packet sent
    incomingUnsequencedGroup,   \* the first number of the present window
    unsequencedWindow,          \* the bits that are set, by their index
    accepted                    \* history: the packets given to the application

unsequencedVars == <<outgoingUnsequencedGroup, incomingUnsequencedGroup,
                     unsequencedWindow, accepted>>

Group(i) == i % GroupCircle

Index(group) == group % UnsequencedWindowSize

(* A new connection starts with first = 0.  Later in its life, when all has *)
(* arrived, the last packet is first and its bit is set.                    *)
UnsequencedInit(first) ==
    /\ outgoingUnsequencedGroup = first
    /\ incomingUnsequencedGroup = Group(first) - Index(first)
    /\ unsequencedWindow = IF first = 0 THEN {} ELSE {Index(first)}
    /\ accepted = {}

-----------------------------------------------------------------------------

(* Not within the free windows from the present one on, a number below the  *)
(* present window being taken to be one circle further on.                  *)
IsOldGroup(group) ==
    (IF group < incomingUnsequencedGroup THEN group + GroupCircle ELSE group)
        >= incomingUnsequencedGroup + FreeUnsequencedWindows * UnsequencedWindowSize

InPresentWindow(group) == group - Index(group) = incomingUnsequencedGroup

IsRepeated(group) == InPresentWindow(group) /\ Index(group) \in unsequencedWindow

(* Mutant: the bits are forgotten after the packet's own one is set.        *)
BugMarkGroup(group, stored) ==
    /\ incomingUnsequencedGroup' = group - Index(group)
    /\ unsequencedWindow' =
           IF ~ InPresentWindow(group) THEN {}
           ELSE unsequencedWindow \cup (IF stored THEN {Index(group)} ELSE {})

(* The window moves to the one of this packet, forgetting its bits, before  *)
(* the packet is stored; its own bit is set only when it could be stored.   *)
MarkGroup(group, stored) ==
    /\ incomingUnsequencedGroup' = group - Index(group)
    /\ unsequencedWindow' =
           (IF InPresentWindow(group) THEN unsequencedWindow ELSE {})
               \cup (IF stored THEN {Index(group)} ELSE {})

-----------------------------------------------------------------------------

IsAlive(i) == i + GroupLifetime >= outgoingUnsequencedGroup

SendUnsequenced ==
    /\ outgoingUnsequencedGroup < MaxGroup
    /\ outgoingUnsequencedGroup' = outgoingUnsequencedGroup + 1
    /\ UNCHANGED <<incomingUnsequencedGroup, unsequencedWindow, accepted>>

(* enet_protocol_handle_send_unsequenced; stored: enet_peer_queue_incoming_ *)
(* command had room for the packet.                                         *)
ReceiveUnsequenced(i, stored) ==
    /\ ~ IsOldGroup(Group(i))
    /\ ~ IsRepeated(Group(i))
    /\ MarkGroup(Group(i), stored)
    /\ accepted' = IF stored THEN accepted \cup {i} ELSE accepted
    /\ UNCHANGED outgoingUnsequencedGroup

DeliverUnsequenced(i, stored) == IsAlive(i) /\ ReceiveUnsequenced(i, stored)

UnsequencedNext ==
    \/ SendUnsequenced
    \/ \E i \in 1 .. outgoingUnsequencedGroup, stored \in BOOLEAN :
          DeliverUnsequenced(i, stored)

UnsequencedSpec == UnsequencedInit(0) /\ [][UnsequencedNext]_unsequencedVars

-----------------------------------------------------------------------------

UnsequencedTypeOK ==
    /\ outgoingUnsequencedGroup \in Nat
    /\ incomingUnsequencedGroup \in 0 .. GroupCircle - 1
    /\ unsequencedWindow \subseteq 0 .. UnsequencedWindowSize - 1
    /\ accepted \subseteq 1 .. outgoingUnsequencedGroup

(* No copy of an unsequenced packet is accepted again: whichever windows    *)
(* have gone by and however the copies were mixed with the packets in       *)
(* between, one that may still arrive is old or has its bit set.            *)
AcceptedOnce ==
    \A i \in accepted :
        IsAlive(i) => IsOldGroup(Group(i)) \/ IsRepeated(Group(i))
=============================================================================
