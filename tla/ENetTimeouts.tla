---------------------------- MODULE ENetTimeouts ----------------------------
(***************************************************************************)
(* The timers of one peer: when a reliable command is sent again, what an  *)
(* acknowledgement says about the round trip, and when the peer is given   *)
(* up.  Which commands may be sent is the subject of ENetOutgoing; here    *)
(* all that wait are.                                                      *)
(*                                                                         *)
(* now is the true time since the start, which the words of ENetTime show  *)
(* to the host modulo Word.  The host services the peer at times of its    *)
(* own choice, at most MaxPause apart.                                     *)
(***************************************************************************)
EXTENDS ENetTime, SequencesExt, FiniteSetsExt

CONSTANTS
    Starts,             \* the service times to start at
    FirstRoundTrips,    \* the round trip times to begin with
    TimeoutLimits,      \* the values that timeoutLimit may be set to
    TimeoutMinimum,
    TimeoutMaximum,
    MaxCommands,        \* bound: commands
    MaxPause,           \* bound: time between two services
    MaxTime,            \* bound: now
    Lifetime            \* bound: time from a sending to its acknowledgement

ASSUME TimeoutsAssumption ==
    /\ Starts \subseteq Times
    /\ FirstRoundTrips \union TimeoutLimits \subseteq Nat \ {0}
    /\ {TimeoutMinimum, TimeoutMaximum, MaxPause} \subseteq Nat \ {0}
    /\ {MaxCommands, MaxTime, Lifetime} \subseteq Nat

VARIABLES
    now,
    start,
    outgoing,   \* commands to send, those to be sent again in front
    sent,       \* sentReliableCommands
    created,    \* how many commands there have been
    acks,       \* acknowledgements that may arrive: [id, at]
    peer,
    lastAck     \* when the last acknowledgement was handled

vars == <<now, start, outgoing, sent, created, acks, peer, lastAck>>

serviceTime == (start + now) % Word

Larger(a, b) == IF a > b THEN a ELSE b
Distance(a, b) == IF a > b THEN a - b ELSE b - a

TimeoutAt(command) == (command.sentTime + command.timeout) % Word

-----------------------------------------------------------------------------
Init ==
    /\ now = 0
    /\ start \in Starts
    /\ outgoing = << >>
    /\ sent = << >>
    /\ created = 0
    /\ acks = {}
    /\ \E first \in FirstRoundTrips, limit \in TimeoutLimits :
           peer = [alive |-> TRUE, nextTimeout |-> 0, earliestTimeout |-> 0,
                   roundTripTime |-> first, variance |-> 0,
                   heard |-> FALSE, timeoutLimit |-> limit]
    /\ lastAck = 0

Queue ==
    /\ peer.alive
    /\ created < MaxCommands
    /\ created' = created + 1
    /\ outgoing' = Append(outgoing, [id |-> created + 1, attempts |-> 0,
                                     timeout |-> 0, sentTime |-> 0,
                                     firstAt |-> -1])
    /\ UNCHANGED <<now, start, sent, acks, peer, lastAck>>

(***************************************************************************)
(* enet_protocol_check_timeouts at time t, one command after the other:    *)
(* those whose time is up are taken out of `sent', until one of them ends  *)
(* the connection.                                                         *)
(***************************************************************************)
IsUp(t, command) == Difference(t, command.sentTime) >= command.timeout

Earliest(command, earliest) ==
    IF earliest = 0 \/ Less(command.sentTime, earliest)
    THEN command.sentTime ELSE earliest

(***************************************************************************)
(* Mutant: the minimum is not waited for.                                  *)
(***************************************************************************)
BugGivesUp(t, command, earliest) ==
    /\ earliest # 0
    /\ \/ Difference(t, earliest) >= TimeoutMaximum
       \/ 2 ^ (command.attempts - 1) >= peer.timeoutLimit

(***************************************************************************)
(* Mutant: a connection ends only at the limit.                            *)
(***************************************************************************)
BugMaximum(t, command, earliest) ==
    /\ earliest # 0
    /\ 2 ^ (command.attempts - 1) >= peer.timeoutLimit
    /\ Difference(t, earliest) >= TimeoutMinimum

GivesUp(t, command, earliest) ==
    /\ earliest # 0
    /\ \/ Difference(t, earliest) >= TimeoutMaximum
       \/ /\ 2 ^ (command.attempts - 1) >= peer.timeoutLimit
          /\ Difference(t, earliest) >= TimeoutMinimum

CheckOne(t, check, i) ==
    LET command == sent[i]
        earliest == Earliest(command, check.peer.earliestTimeout)
        isFirst == check.kept = << >> /\ i < Len(sent)
    IN  IF ~check.peer.alive \/ ~IsUp(t, command)
        THEN [check EXCEPT !.kept = Append(@, command)]
        ELSE IF GivesUp(t, command, earliest)
        THEN [check EXCEPT !.peer.alive = FALSE,
                           !.peer.earliestTimeout = earliest,
                           !.kept = Append(@, command)]
        ELSE [check EXCEPT
                 !.peer.earliestTimeout = earliest,
                 !.peer.nextTimeout = IF isFirst THEN TimeoutAt(sent[i + 1])
                                      ELSE @,
                 !.again = Append(@, [command EXCEPT !.timeout = 2 * @])]

CheckTimeouts(t) ==
    LET unchecked == [peer |-> peer, kept |-> << >>, again |-> << >>]
    IN  IF sent # << >> /\ GreaterEqual(t, peer.nextTimeout)
        THEN FoldLeftDomain(LAMBDA check, i : CheckOne(t, check, i), unchecked,
                            sent)
        ELSE [unchecked EXCEPT !.kept = sent]

\* A command as it is sent at true time at, which is t for the host.
Sending(command, at, t) ==
    [command EXCEPT
        !.attempts = @ + 1,
        !.timeout = IF @ = 0 THEN peer.roundTripTime + 4 * peer.variance
                    ELSE @,
        !.sentTime = t,
        !.firstAt = IF @ < 0 THEN at ELSE @]

(***************************************************************************)
(* Mutant: nextTimeout is set by whatever is sent, though others wait.     *)
(***************************************************************************)
BugSetsTimeout(kept, sending) == sending # << >>

\* nextTimeout is set by what is sent while nothing else waits.
SetsTimeout(kept, sending) == kept = << >> /\ sending # << >>

(***************************************************************************)
(* Time passes and the host services the peer: looks for timeouts, and     *)
(* unless the peer is given up sends what is to be sent, all of which may  *)
(* be acknowledged at any time from now on.                                *)
(***************************************************************************)
Service(pause) ==
    LET at == now + pause
        t == (start + at) % Word
        check == CheckTimeouts(t)
        queue == check.again \o outgoing
        sending == [i \in DOMAIN queue |-> Sending(queue[i], at, t)]
    IN  /\ peer.alive
        /\ at <= MaxTime
        /\ now' = at
        /\ IF check.peer.alive
           THEN /\ sent' = check.kept \o sending
                /\ outgoing' = << >>
                /\ peer' = IF SetsTimeout(check.kept, sending)
                           THEN [check.peer EXCEPT
                                    !.nextTimeout = TimeoutAt(sending[1])]
                           ELSE check.peer
                /\ acks' = { a \in acks : at - a.at <= Lifetime } \union
                           { [id |-> c.id, at |-> at] : c \in ToSet(sending) }
           ELSE /\ sent' = check.kept
                /\ outgoing' = queue
                /\ peer' = check.peer
                /\ acks' = {}
        /\ UNCHANGED <<start, created, lastAck>>

-----------------------------------------------------------------------------
\* The estimates of the round trip after one that took rtt.
Estimated(rtt) ==
    LET diff == Distance(rtt, peer.roundTripTime)
    IN  IF peer.heard
        THEN [peer EXCEPT
                 !.variance = @ - (@ \div 4) + (diff \div 4),
                 !.roundTripTime = IF rtt >= @ THEN @ + diff \div 8
                                   ELSE @ - diff \div 8]
        ELSE [peer EXCEPT !.roundTripTime = rtt,
                          !.variance = (rtt + 1) \div 2]

Heard(rtt) == [Estimated(rtt) EXCEPT !.heard = TRUE, !.earliestTimeout = 0]

\* When, as it seems, the command was sent that is acknowledged.
ReceivedSentTime(a) == SentTime((start + a.at) % Stamp, serviceTime)
IsIgnored(a) == Less(serviceTime, ReceivedSentTime(a))
RoundTrip(a) == Larger(Difference(serviceTime, ReceivedSentTime(a)), 1)

(***************************************************************************)
(* enet_protocol_handle_acknowledge: the command is taken out of `sent',   *)
(* or is not sent again; one that seems to come from the future is         *)
(* ignored.                                                                *)
(***************************************************************************)
Acknowledge(a) ==
    LET IsOther(c) == c.id # a.id
        IsOtherOrUnsent(c) == c.id # a.id \/ c.attempts = 0
        left == SelectSeq(sent, IsOther)
        waiting == SelectSeq(outgoing, IsOtherOrUnsent)
        isFound == left # sent \/ waiting # outgoing
    IN  /\ peer.alive
        /\ a \in acks
        /\ ~IsIgnored(a)
        /\ lastAck' = now
        /\ sent' = left
        /\ outgoing' = waiting
        /\ peer' = IF isFound /\ left # << >>
                   THEN [Heard(RoundTrip(a)) EXCEPT !.nextTimeout = TimeoutAt(left[1])]
                   ELSE Heard(RoundTrip(a))
        /\ UNCHANGED <<now, start, created, acks>>

Next ==
    \/ Queue
    \/ \E pause \in 0 .. MaxPause : Service(pause)
    \/ \E a \in acks : Acknowledge(a)

Spec == Init /\ [][Next]_vars

-----------------------------------------------------------------------------
(***************************************************************************)
(* An acknowledgement that comes before half of what a header can tell of  *)
(* time has passed is never ignored, and the round trip taken from it is   *)
(* the true one, wherever the upper half of the sent time, which is not in *)
(* the header, and the whole time have wrapped around since.  A later one  *)
(* may be ignored, but gives no false round trip before that time is full. *)
(***************************************************************************)
RoundTripTrue ==
    \A a \in acks :
        LET delay == now - a.at
        IN  /\ delay < Stamp \div 2 => ~IsIgnored(a)
            /\ delay < Stamp => \/ IsIgnored(a)
                               \/ RoundTrip(a) = Larger(delay, 1)

(***************************************************************************)
(* nextTimeout, the only time that is looked at while the peer is          *)
(* serviced, is the one at which the first of the commands sent is to be   *)
(* sent again, whatever has been acknowledged or sent again meanwhile.     *)
(***************************************************************************)
NextIsFirst ==
    peer.alive /\ sent # << >> => peer.nextTimeout = TimeoutAt(sent[1])

(***************************************************************************)
(* A peer is given up only when something has been sent at least           *)
(* timeoutMinimum ago (or timeoutMaximum, if that is less) and has not     *)
(* been acknowledged, though the times compared may have wrapped around.   *)
(***************************************************************************)
NotTooSoon ==
    ~peer.alive =>
        \E c \in ToSet(sent) \union ToSet(outgoing) :
            /\ c.attempts > 0
            /\ now - c.firstAt >= IF TimeoutMinimum < TimeoutMaximum
                                  THEN TimeoutMinimum ELSE TimeoutMaximum

(***************************************************************************)
(* A peer that is silent is given up: not quite at timeoutMaximum, as the  *)
(* timeouts double, but when the first timeout after it ends.              *)
(***************************************************************************)
NotTooLate ==
    peer.alive /\ sent # << >> =>
        now - Larger(lastAck, sent[1].firstAt)
            < TimeoutMaximum + sent[1].timeout + MaxPause

(***************************************************************************)
(* The timers of a peer are looked at when the first of its commands is    *)
(* due, and it is given up neither too soon nor too late.                  *)
(***************************************************************************)
GivenUpInTime == NextIsFirst /\ NotTooSoon /\ NotTooLate
=============================================================================
