------------------------------ MODULE ENetTime ------------------------------
(***************************************************************************)
(* Times of time.h: milliseconds in unsigned words that wrap around, of    *)
(* which the one with the smaller distance ahead is the later; and the     *)
(* sent time of a datagram, of which only the lower half travels.          *)
(***************************************************************************)
EXTENDS Integers

CONSTANTS
    Word,       \* 2^32: the values of a time
    Overflow,   \* ENET_TIME_OVERFLOW
    Stamp       \* 2^16: the values of a sent time in a header

ASSUME TimeAssumption ==
    /\ {Word, Overflow, Stamp} \subseteq Nat \ {0}
    /\ Stamp % 2 = 0
    /\ Word % Stamp = 0
    /\ Stamp <= Overflow
    /\ 2 * Overflow <= Word

Times == 0 .. Word - 1

Less(a, b) == (a - b) % Word >= Overflow
GreaterEqual(a, b) == ~Less(a, b)

Difference(a, b) ==
    IF (a - b) % Word >= Overflow THEN (b - a) % Word ELSE (a - b) % Word

\* Of a sent time or a service time, whether 0x8000 is set.
UpperHalf(time) == time % Stamp >= Stamp \div 2

(***************************************************************************)
(* Mutant: the upper bits are always those of the present time.            *)
(***************************************************************************)
BugSentTime(stamp, now) == now - (now % Stamp) + stamp

\* A sent time made whole with the upper bits of the present time.
SentTime(stamp, now) ==
    LET whole == now - (now % Stamp) + stamp
    IN  IF UpperHalf(stamp) /\ ~UpperHalf(now)
        THEN (whole - Stamp) % Word
        ELSE whole
=============================================================================
