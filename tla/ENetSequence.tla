---------------------------- MODULE ENetSequence ----------------------------
(***************************************************************************)
(* Reliable sequence numbers and their windows.                            *)
(*                                                                         *)
(* ENet numbers the reliable commands of a channel with 16 bits and cuts   *)
(* the circle of 65536 numbers into 16 windows of 4096.  Here the numbers  *)
(* of windows and their size are constants, so that TLC can wrap around    *)
(* the circle in a few steps and the theorems hold for the real values.    *)
(*                                                                         *)
(* A command is identified in the model by its absolute number 1, 2, 3...; *)
(* only Wire of it, the number modulo the circle, is in a datagram.        *)
(***************************************************************************)
EXTENDS Integers

CONSTANTS
    WindowSize,    \* ENET_PEER_RELIABLE_WINDOW_SIZE   (0x1000)
    Windows,       \* ENET_PEER_RELIABLE_WINDOWS       (16)
    FreeWindows    \* ENET_PEER_FREE_RELIABLE_WINDOWS  (8)

ASSUME SequenceAssumption ==
    /\ WindowSize \in Nat \ {0}
    /\ FreeWindows \in Nat \ {0, 1}
    /\ Windows \in Nat
    /\ Windows = 2 * FreeWindows

Circle == Windows * WindowSize

SeqNum == 0 .. Circle - 1

WindowNum == 0 .. Windows - 1

(* The 16-bit number of command i on the wire. *)
Wire(i) == i % Circle

WindowOf(seq) == seq \div WindowSize

(* How many windows seq lies ahead of the last dispatched number: a number  *)
(* below it is taken to be one circle further on.                           *)
WindowsAhead(seq, incoming) ==
    WindowOf(seq) - WindowOf(incoming) + (IF seq < incoming THEN Windows ELSE 0)

(* The receiver stores a command at most FreeWindows - 2 windows ahead ...  *)
InReceiveWindow(seq, incoming) ==
    WindowsAhead(seq, incoming) \in 0 .. FreeWindows - 2

(* Mutant: nothing outside the receive window is acknowledged.              *)
BugRefuseOldCommands(seq, incoming) ==
    WindowsAhead(seq, incoming) \notin 0 .. FreeWindows - 2

(* ... and does not even acknowledge one in the next two windows.  Anything *)
(* further is an old command that came again: acknowledged, not stored.     *)
IsAckRefused(seq, incoming) ==
    WindowsAhead(seq, incoming) \in FreeWindows - 1 .. FreeWindows

(* The windows that have to be empty before the first command of window w   *)
(* is sent: the FreeWindows + 2 bits of the mask, from bit w on, around the *)
(* circle.                                                                  *)
GuardWindows(w) == {(w + k) % Windows : k \in 0 .. FreeWindows + 1}
=============================================================================
