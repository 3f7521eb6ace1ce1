------------------------- MODULE ENetReliableProofs -------------------------
(***************************************************************************)
(* Theorems of the composed channel, for any number and size of windows,   *)
(* any limits, and packets of any sizes.                                   *)
(*                                                                         *)
(* The sender keeps what it promises inside the channel: the network and   *)
(* the receiver only ever take the steps the sender expects of its         *)
(* environment, so every theorem about SenderSpec is one about Spec.       *)
(*                                                                         *)
(* Both sides together keep ChannelInvariant.  It puts the packets, the    *)
(* receiver's list and what is in the network on the line of all commands, *)
(* where nothing wraps; the lemmas show that the tests of the receiver, on *)
(* the circle of 16-bit numbers, come out as they would on the line.  From *)
(* it follow delivery in order, that nothing acknowledged is lost, and     *)
(* that the channel implements ReliableDelivery.                           *)
(***************************************************************************)
EXTENDS ENetReliable, ENetReliableSenderProofs

(* What comes over the network is an acknowledgement the sender, on its own, *)
(* has to expect at any time.                                               *)
LEMMA SenderSteps == [Next]_vars => [SenderNext]_senderVars
<1>. SUFFICES ASSUME [Next]_vars PROVE [SenderNext]_senderVars
  OBVIOUS
<1>1. ASSUME NEW n \in FragmentCounts, Send(n) PROVE SenderNext
  BY <1>1 DEF Send, SenderNext
<1>2. CASE TransmitNew
  BY <1>2 DEF TransmitNew, SenderNext
<1>3. CASE SendAcknowledgements \/ Receive
  BY <1>3 DEF SendAcknowledgements, Receive
<1>4. ASSUME NEW i \in Ids, Retransmit(i) PROVE SenderNext
  BY <1>4 DEF Retransmit, SenderNext
<1>5. ASSUME NEW i \in Ids, CheckTimeouts(i) PROVE SenderNext
  BY <1>5 DEF CheckTimeouts, SenderNext
<1>6. ASSUME NEW i \in Ids, DeliverCommand(i) \/ Lose(i) PROVE UNCHANGED senderVars
  BY <1>6 DEF DeliverCommand, Lose
<1>7. ASSUME NEW i \in Ids, DeliverAcknowledgement(i) PROVE SenderNext
  <2>1. Wire(i) \in SeqNum
    BY WindowOfWire DEF Ids
  <2>. QED
    BY <1>7, <2>1 DEF DeliverAcknowledgement, SenderNext
<1>8. CASE UNCHANGED vars
  BY <1>8 DEF vars
<1>. QED
  BY <1>1, <1>2, <1>3, <1>4, <1>5, <1>6, <1>7, <1>8 DEF Next

(* The channel implements its sender, whatever the network and the receiver *)
(* do.                                                                      *)
THEOREM ImplementsSender == Spec => SenderSpec
<1>1. Init => SenderInit
  BY DEF Init
<1>. QED
  BY <1>1, SenderSteps, PTL DEF Spec, SenderSpec

(* In the whole channel, too, an acknowledgement names one unacknowledged   *)
(* command, and the windows and packets of the sender are accounted for.    *)
THEOREM SenderSafe ==
    Spec => [](/\ SenderTypeOK /\ WindowAccounting /\ TransitAccounting
               /\ NumbersUnambiguous /\ ReferencesCounted)
BY ImplementsSender, Typing, WindowsExact, TransitExact, AcknowledgementsUnambiguous,
   ReferencesExact, PTL

-----------------------------------------------------------------------------
(* The whole channel: what the invariant is made of.  Command i lies in     *)
(* window i \div WindowSize of the line of all commands.                    *)

Window(i) == i \div WindowSize

(* The commands of packet p are FirstOf(p) .. LastOf(p).                    *)
FirstOf(p) == packets[p].first
LastOf(p) == packets[p].first + Span(packets[p].fragmentCount) - 1

(* How many packets the receiver has put in order, and their last command.  *)
Ordered == Len(received) + Len(dispatchedCommands)
OrderedTo == IF Ordered = 0 THEN 0 ELSE LastOf(Ordered)

(* The packets lie one after the other on the line of commands.             *)
LaidOut ==
    /\ packets \in Seq(PacketRecords)
    /\ commands \in Seq(1 .. Len(packets))
    /\ \A p \in 1 .. Len(packets) :
          /\ FirstOf(p) = (IF p = 1 THEN 1 ELSE LastOf(p - 1) + 1)
          /\ LastOf(p) <= Len(commands)
          /\ \A i \in Ids : commands[i] = p <=> i \in FirstOf(p) .. LastOf(p)
          /\ \A q \in 1 .. Len(packets) : p < q => LastOf(p) < FirstOf(q)
    /\ Len(commands) = (IF Len(packets) = 0 THEN 0 ELSE LastOf(Len(packets)))

EntryRecords ==
    [number : Nat, fragmentCount : Nat, fragments : SUBSET Nat, packet : Nat,
     ids : SUBSET Nat]

(* A packet being put together is one that was sent, filed under the number *)
(* of its first command, and its ids are those of its fragments.            *)
IsRight(entry) ==
    /\ entry \in EntryRecords
    /\ entry.packet \in 1 .. Len(packets)
    /\ entry.number = Wire(FirstOf(entry.packet))
    /\ entry.fragmentCount = packets[entry.packet].fragmentCount
    /\ entry.fragments \subseteq 0 .. entry.fragmentCount - 1
    /\ entry.ids = (IF entry.fragmentCount = 0 THEN {FirstOf(entry.packet)}
                    ELSE {i \in FirstOf(entry.packet) .. LastOf(entry.packet) :
                             i - FirstOf(entry.packet) \in entry.fragments})
    /\ entry.ids \subseteq 1 .. attempted

(* A list in order: behind the packets put in order, within the receive     *)
(* window, no packet twice.                                                 *)
InOrder(list) ==
    \A k \in 1 .. Len(list) :
        /\ IsRight(list[k])
        /\ list[k].packet > Ordered
        /\ Window(FirstOf(list[k].packet)) <= Window(OrderedTo) + FreeWindows - 2
        /\ \A j \in 1 .. Len(list) : j < k => list[j].packet < list[k].packet

(* What was dispatched: packets 1, 2, 3 ... up to the number the receiver   *)
(* keeps, none of them larger than the windows let through.                 *)
DispatchedRight ==
    /\ received \in Seq(Nat)
    /\ dispatchedCommands \in Seq(EntryRecords)
    /\ Ordered <= Len(packets)
    /\ OrderedTo <= attempted
    /\ incomingReliableSequenceNumber = Wire(OrderedTo)
    /\ \A k \in 1 .. Len(received) : received[k] = k
    /\ \A k \in 1 .. Len(dispatchedCommands) :
          /\ dispatchedCommands[k].packet = Len(received) + k
          /\ IsRight(dispatchedCommands[k])
    /\ \A p \in 1 .. Ordered :
          Span(packets[p].fragmentCount) < FreeWindows * WindowSize

(* The next packet is not on the list, or not complete.                     *)
HeadWaits(list, n) ==
    n < Len(list) =>
        ~ (list[n + 1].packet = Ordered + n + 1 /\ IsComplete(list[n + 1]))

ListRight ==
    /\ incomingReliableCommands \in Seq(EntryRecords)
    /\ InOrder(incomingReliableCommands)
    /\ HeadWaits(incomingReliableCommands, 0)

NetworkRight ==
    /\ data \subseteq 1 .. attempted
    /\ acks \subseteq 1 .. attempted
    /\ acknowledgements \subseteq 1 .. attempted
    /\ \A i \in data \cup acks : i + Lifetime >= attempted

(* The commands that are, or are being, acknowledged, and those that are    *)
(* with the receiver.                                                       *)
Confirming == ((1 .. attempted) \ Unacknowledged) \cup acks \cup acknowledgements

IdsOf(list) == UNION {list[k].ids : k \in 1 .. Len(list)}

Stored == IdsOf(incomingReliableCommands) \cup {i \in Ids : commands[i] <= Ordered}

(* The two sides' windows agree: nothing is acknowledged beyond the receive *)
(* window, and so the sender never gets as far ahead of the receiver that   *)
(* a new command could be taken for an old one.                             *)
WindowsAgree ==
    /\ \A i \in Confirming : Window(i) <= Window(OrderedTo) + FreeWindows - 2
    /\ Window(attempted) <= Window(OrderedTo) + FreeWindows - 1

ChannelInvariant ==
    /\ LaidOut
    /\ attempted \in 0 .. Len(commands)
    /\ DispatchedRight
    /\ ListRight
    /\ NetworkRight
    /\ Confirming \subseteq Stored
    /\ WindowsAgree

-----------------------------------------------------------------------------
(* How the packets lie on the line of commands.                             *)

(* The types of the places of packets and commands.                         *)
LEMMA LayoutFacts ==
    ASSUME LaidOut
    PROVE  /\ Len(packets) \in Nat /\ Len(commands) \in Nat
           /\ \A p \in 1 .. Len(packets) :
                 /\ packets[p] \in PacketRecords
                 /\ packets[p].fragmentCount \in FragmentCounts
                 /\ packets[p].fragmentCount \in Nat
                 /\ Span(packets[p].fragmentCount) \in Nat \ {0}
                 /\ FirstOf(p) \in Nat \ {0} /\ LastOf(p) \in Nat
                 /\ FirstOf(p) <= LastOf(p)
                 /\ LastOf(p) = FirstOf(p) + Span(packets[p].fragmentCount) - 1
           /\ \A i \in Ids :
                 /\ i \in Nat \ {0}
                 /\ commands[i] \in 1 .. Len(packets)
                 /\ FirstOf(commands[i]) <= i /\ i <= LastOf(commands[i])
<1>1. Len(packets) \in Nat /\ Len(commands) \in Nat
  BY LenProperties DEF LaidOut
<1>2. ASSUME NEW p \in 1 .. Len(packets)
      PROVE  /\ packets[p] \in PacketRecords
             /\ packets[p].fragmentCount \in FragmentCounts
             /\ packets[p].fragmentCount \in Nat
             /\ Span(packets[p].fragmentCount) \in Nat \ {0}
             /\ FirstOf(p) \in Nat \ {0} /\ LastOf(p) \in Nat
             /\ FirstOf(p) <= LastOf(p)
             /\ LastOf(p) = FirstOf(p) + Span(packets[p].fragmentCount) - 1
  <2>1. packets[p] \in PacketRecords
    BY ElementOfSeq DEF LaidOut
  <2>2. /\ packets[p].fragmentCount \in FragmentCounts
        /\ packets[p].first \in Nat \ {0}
    BY <2>1 DEF PacketRecords
  <2>3. packets[p].fragmentCount \in Nat
    BY <2>2, SenderAssumption
  <2>4. Span(packets[p].fragmentCount) \in Nat \ {0}
    BY <2>3 DEF Span
  <2>. QED
    BY <2>1, <2>2, <2>3, <2>4 DEF FirstOf, LastOf
<1>3. ASSUME NEW i \in Ids
      PROVE  /\ i \in Nat \ {0}
             /\ commands[i] \in 1 .. Len(packets)
             /\ FirstOf(commands[i]) <= i /\ i <= LastOf(commands[i])
  <2>1. i \in Nat \ {0} /\ commands[i] \in 1 .. Len(packets)
    BY <1>1, ElementOfSeq DEF LaidOut, Ids
  <2>2. i \in FirstOf(commands[i]) .. LastOf(commands[i])
    BY <2>1 DEF LaidOut
  <2>3. FirstOf(commands[i]) \in Nat /\ LastOf(commands[i]) \in Nat
    BY <1>2, <2>1
  <2>. QED
    BY <2>1, <2>2, <2>3
<1>. QED
  BY <1>1, <1>2, <1>3

(* The order of the packets is the order of their commands.                 *)
LEMMA LayoutOrder ==
    ASSUME LaidOut, NEW p \in 1 .. Len(packets), NEW q \in 1 .. Len(packets)
    PROVE  /\ p < q => LastOf(p) < FirstOf(q)
           /\ FirstOf(p) <= FirstOf(q) <=> p <= q
           /\ FirstOf(p) = FirstOf(q) <=> p = q
<1>1. /\ FirstOf(p) \in Nat /\ LastOf(p) \in Nat /\ FirstOf(p) <= LastOf(p)
      /\ FirstOf(q) \in Nat /\ LastOf(q) \in Nat /\ FirstOf(q) <= LastOf(q)
  BY LayoutFacts
<1>2. p < q => LastOf(p) < FirstOf(q)
  BY DEF LaidOut
<1>3. q < p => LastOf(q) < FirstOf(p)
  BY DEF LaidOut
<1>4. p < q \/ q < p \/ p = q
  BY LayoutFacts
<1>. QED
  BY <1>1, <1>2, <1>3, <1>4

(* The packets put in order are the commands up to the number kept.         *)
LEMMA OrderedFacts ==
    ASSUME LaidOut, DispatchedRight
    PROVE  /\ Ordered \in Nat /\ Ordered <= Len(packets)
           /\ OrderedTo \in Nat /\ OrderedTo <= Len(commands)
           /\ \A p \in 1 .. Len(packets) :
                 /\ p > Ordered => OrderedTo < FirstOf(p)
                 /\ p <= Ordered => LastOf(p) <= OrderedTo
                 /\ p = Ordered + 1 => FirstOf(p) = OrderedTo + 1
           /\ \A i \in Ids : commands[i] <= Ordered <=> i <= OrderedTo
<1>. USE LayoutFacts
<1>1. Ordered \in Nat /\ Ordered <= Len(packets)
  BY LenProperties DEF DispatchedRight, Ordered
<1>. DEFINE D == Ordered
<1>. HIDE DEF D
<1>2. D \in Nat /\ D <= Len(packets) /\ Len(packets) \in Nat /\ D = Ordered
  BY <1>1 DEF D
<1>3. OrderedTo = IF D = 0 THEN 0 ELSE LastOf(D)
  BY DEF OrderedTo, D
<1>4. D # 0 => D \in 1 .. Len(packets)
  BY <1>2
<1>5. OrderedTo \in Nat /\ OrderedTo <= Len(commands)
  <2>1. CASE D = 0
    BY <1>3, <2>1
  <2>2. CASE D # 0
    BY <1>3, <1>4, <2>2 DEF LaidOut
  <2>. QED
    BY <2>1, <2>2
<1>6. ASSUME NEW p \in 1 .. Len(packets)
      PROVE  /\ p > D => OrderedTo < FirstOf(p)
             /\ p <= D => LastOf(p) <= OrderedTo
             /\ p = D + 1 => FirstOf(p) = OrderedTo + 1
  <2>1. p \in Nat /\ p >= 1 /\ FirstOf(p) \in Nat \ {0} /\ LastOf(p) \in Nat
    BY <1>2
  <2>2. CASE D = 0
    <3>1. OrderedTo = 0
      BY <1>3, <2>2
    <3>2. p = 1 => FirstOf(p) = 1
      BY DEF LaidOut
    <3>. QED
      BY <2>1, <2>2, <3>1, <3>2
  <2>3. CASE D # 0
    <3>1. OrderedTo = LastOf(D) /\ D \in 1 .. Len(packets)
      BY <1>3, <1>4, <2>3
    <3>2. D < p => LastOf(D) < FirstOf(p)
      BY <3>1, LayoutOrder
    <3>3. p < D => LastOf(p) < FirstOf(D)
      BY <3>1, LayoutOrder
    <3>4. FirstOf(D) <= LastOf(D) /\ FirstOf(D) \in Nat /\ LastOf(D) \in Nat
      BY <3>1
    <3>5. p = D + 1 => FirstOf(p) = LastOf(D) + 1
      <4>1. p = D + 1 => p # 1 /\ p - 1 = D
        BY <1>2, <2>3
      <4>. QED
        BY <4>1 DEF LaidOut
    <3>. QED
      BY <1>2, <2>1, <3>1, <3>2, <3>3, <3>4, <3>5
  <2>. QED
    BY <2>2, <2>3
<1>7. ASSUME NEW i \in Ids PROVE commands[i] <= D <=> i <= OrderedTo
  <2>. DEFINE p == commands[i]
  <2>1. /\ i \in Nat /\ p \in 1 .. Len(packets) /\ FirstOf(p) <= i /\ i <= LastOf(p)
    OBVIOUS
  <2>. HIDE DEF p
  <2>2. /\ p > D => OrderedTo < FirstOf(p)
        /\ p <= D => LastOf(p) <= OrderedTo
        /\ FirstOf(p) \in Nat /\ LastOf(p) \in Nat
    BY <1>6, <2>1
  <2>3. p <= D <=> i <= OrderedTo
    BY <1>2, <1>5, <2>1, <2>2
  <2>. QED
    BY <2>3 DEF p
<1>. QED
  BY <1>1, <1>2, <1>5, <1>6, <1>7

-----------------------------------------------------------------------------
(* Packets being put together, and the list they are on.                    *)

(* An entry only holds commands of its packet, and is complete when it      *)
(* holds all of them.                                                       *)
LEMMA EntryFacts ==
    ASSUME LaidOut, NEW e, IsRight(e)
    PROVE  /\ e.packet \in 1 .. Len(packets)
           /\ e.ids \subseteq FirstOf(e.packet) .. LastOf(e.packet)
           /\ \A i \in e.ids : i \in Ids /\ commands[i] = e.packet
           /\ IsComplete(e) <=> e.ids = FirstOf(e.packet) .. LastOf(e.packet)
<1>. DEFINE p == e.packet
            f == FirstOf(p)
            l == LastOf(p)
            n == e.fragmentCount
            fragments == e.fragments
            ids == e.ids
<1>1. p \in 1 .. Len(packets)
  BY DEF IsRight
<1>2. /\ f \in Nat \ {0} /\ l \in Nat /\ n \in Nat
      /\ l = f + (IF n = 0 THEN 1 ELSE n) - 1
      /\ Len(commands) \in Nat /\ l <= Len(commands)
  <2>1. /\ f \in Nat \ {0} /\ l \in Nat /\ packets[p].fragmentCount \in Nat
        /\ l = f + Span(packets[p].fragmentCount) - 1 /\ Len(commands) \in Nat
    BY <1>1, LayoutFacts
  <2>2. n = packets[p].fragmentCount
    BY DEF IsRight
  <2>3. l <= Len(commands)
    BY <1>1 DEF LaidOut
  <2>4. Span(packets[p].fragmentCount) = IF n = 0 THEN 1 ELSE n
    BY <2>2 DEF Span
  <2>. HIDE DEF f, l, n
  <2>. QED
    BY <2>1, <2>2, <2>3, <2>4
<1>3. /\ fragments \subseteq 0 .. n - 1
      /\ ids = (IF n = 0 THEN {f} ELSE {i \in f .. l : i - f \in fragments})
      /\ IsComplete(e) <=> (n = 0 \/ Cardinality(fragments) = n)
  BY DEF IsRight, IsComplete
<1>4. \A i \in f .. l : i \in Ids /\ commands[i] = p
  <2>1. \A i \in Ids : commands[i] = p <=> i \in f .. l
    BY <1>1 DEF LaidOut
  <2>2. \A i \in f .. l : i \in Ids
    <3>. HIDE DEF f, l
    <3>. QED
      BY <1>2 DEF Ids
  <2>. QED
    BY <2>1, <2>2
<1>. HIDE DEF f, l, n, fragments, ids
<1>5. ids \subseteq f .. l
  BY <1>2, <1>3
<1>6. IsComplete(e) <=> ids = f .. l
  <2>1. CASE n = 0
    BY <1>2, <1>3, <2>1
  <2>2. CASE n # 0
    <3>1. /\ IsFiniteSet(0 .. n - 1)
          /\ Cardinality(0 .. n - 1) = n
      <4>1. 0 \in Int /\ n - 1 \in Int /\ ~ (0 > n - 1) /\ (n - 1) - 0 + 1 = n
        BY <1>2, <2>2
      <4>2. /\ IsFiniteSet(0 .. n - 1)
            /\ Cardinality(0 .. n - 1) = IF 0 > n - 1 THEN 0 ELSE (n - 1) - 0 + 1
        BY <4>1, FS_Interval
      <4>. QED
        BY <4>1, <4>2
    <3>2. Cardinality(fragments) = n <=> fragments = 0 .. n - 1
      BY <1>3, <3>1, FS_Subset
    <3>3. ids = {i \in f .. l : i - f \in fragments} /\ l = f + n - 1
      BY <1>2, <1>3, <2>2
    <3>4. ASSUME fragments = 0 .. n - 1 PROVE ids = f .. l
      <4>1. \A i \in f .. l : i - f \in 0 .. n - 1
        BY <1>2, <3>3
      <4>. QED
        BY <3>3, <3>4, <4>1
    <3>5. ASSUME ids = f .. l PROVE fragments = 0 .. n - 1
      <4>1. ASSUME NEW k \in 0 .. n - 1 PROVE k \in fragments
        <5>1. f + k \in f .. l /\ (f + k) - f = k
          BY <1>2, <3>3
        <5>2. (f + k) - f \in fragments
          BY <3>3, <3>5, <5>1
        <5>. QED
          BY <5>1, <5>2
      <4>. QED
        BY <1>3, <4>1
    <3>. QED
      BY <1>3, <2>2, <3>2, <3>4, <3>5
  <2>. QED
    BY <2>1, <2>2
<1>. QED
  BY <1>1, <1>4, <1>5, <1>6 DEF f, l, p, ids

(* Where the scan stops, if it stops.                                       *)
LEMMA ScanRange ==
    ASSUME incomingReliableCommands \in Seq(EntryRecords), NEW seq
    PROVE  LET inc == incomingReliableSequenceNumber
               list == incomingReliableCommands
               t == ScanStop(seq)
               Stops(k) == IF seq >= inc
                             THEN list[k].number >= inc /\ list[k].number <= seq
                             ELSE list[k].number >= inc \/ list[k].number <= seq
           IN  /\ t \in 0 .. Len(list)
               /\ t # 0 => Stops(t)
               /\ \A k \in 1 .. Len(list) : Stops(k) => k <= t
<1>. DEFINE inc == incomingReliableSequenceNumber
            list == incomingReliableCommands
            t == ScanStop(seq)
            Stops(k) == IF seq >= inc
                          THEN list[k].number >= inc /\ list[k].number <= seq
                          ELSE list[k].number >= inc \/ list[k].number <= seq
            I == {k \in 1 .. Len(list) : Stops(k)}
<1>1. Len(list) \in Nat
  BY LenProperties
<1>2. t = IF I # {} THEN Max(I) ELSE 0
  BY DEF ScanStop, SelectLastInSeq
<1>3. CASE I = {}
  BY <1>1, <1>2, <1>3
<1>4. CASE I # {}
  <2>1. I \subseteq Nat /\ \A k \in I : k <= Len(list)
    BY <1>1
  <2>2. \E m \in I : \A x \in I : x <= m
    <3>. HIDE DEF I
    <3>. QED
      BY <1>1, <1>4, <2>1, GreatestNumber
  <2>3. t \in I /\ \A x \in I : x <= t
    <3>1. t = CHOOSE x \in I : \A y \in I : x >= y
      BY <1>2, <1>4 DEF Max
    <3>2. \E x \in I : \A y \in I : x >= y
      BY <2>1, <2>2
    <3>. HIDE DEF I, t
    <3>3. t \in I /\ \A y \in I : t >= y
      BY <3>1, <3>2
    <3>. QED
      BY <2>1, <3>3
  <2>4. t \in 1 .. Len(list) /\ Stops(t)
    <3>. HIDE DEF t
    <3>. QED
      BY <2>3
  <2>5. \A k \in 1 .. Len(list) : Stops(k) => k <= t
    BY <2>3
  <2>6. t \in 0 .. Len(list)
    <3>. HIDE DEF t, list, Stops
    <3>. QED
      BY <1>1, <2>4
  <2>. QED
    BY <2>4, <2>5, <2>6
<1>. QED
  BY <1>3, <1>4

(* Commands ahead of the last one put in order by less than a circle.       *)
LEMMA AheadFacts ==
    ASSUME NEW r \in Nat, NEW i \in Nat, r < i,
           Window(i) <= Window(r) + FreeWindows - 1
    PROVE  /\ i < r + Circle
           /\ WindowsAhead(Wire(i), Wire(r)) = Window(i) - Window(r)
           /\ Window(i) - Window(r) \in 0 .. FreeWindows - 1
<1>. DEFINE a == Window(i)
            b == Window(r)
<1>1. a \in Nat /\ b \in Nat
  BY WindowOnLine DEF Window
<1>2. b <= a
  <2>1. WindowSize \in Nat \ {0} /\ r <= i
    BY SequenceAssumption
  <2>. QED
    BY <2>1, QuotientOrder DEF Window
<1>3. FreeWindows \in Nat /\ Windows \in Nat /\ Windows = 2 * FreeWindows /\ FreeWindows >= 2
  BY SequenceAssumption
<1>4. a <= b + FreeWindows - 1
  OBVIOUS
<1>. HIDE DEF a, b
<1>5. a - b < Windows /\ a - b \in 0 .. FreeWindows - 1
  BY <1>1, <1>2, <1>3, <1>4
<1>6. i < r + Circle
  BY <1>5, WithinCircle DEF a, b, Window
<1>7. WindowsAhead(Wire(i), Wire(r)) = a - b
  BY <1>5, AheadOnCircle DEF a, b, Window
<1>. QED
  BY <1>5, <1>6, <1>7 DEF a, b

(* The scan for the first command of packet p, within the receive window,   *)
(* stops at the last packet not behind p, so it finds p if p is there.      *)
LEMMA ScanFinds ==
    ASSUME LaidOut, DispatchedRight, ListRight,
           NEW p \in 1 .. Len(packets), p > Ordered,
           Window(FirstOf(p)) <= Window(OrderedTo) + FreeWindows - 2
    PROVE  LET list == incomingReliableCommands
               t == ScanStop(Wire(FirstOf(p)))
           IN  /\ t \in 0 .. Len(list)
               /\ \A k \in 1 .. Len(list) : list[k].packet <= p <=> k <= t
               /\ IsQueued(Wire(FirstOf(p))) <=> (t # 0 /\ list[t].packet = p)
<1>. DEFINE list == incomingReliableCommands
            inc == incomingReliableSequenceNumber
            r == OrderedTo
            f == FirstOf(p)
            seq == Wire(f)
            t == ScanStop(seq)
            Stops(k) == IF seq >= inc
                          THEN list[k].number >= inc /\ list[k].number <= seq
                          ELSE list[k].number >= inc \/ list[k].number <= seq
<1>1. r \in Nat /\ f \in Nat /\ r < f /\ inc = Wire(r) /\ Len(list) \in Nat
  BY OrderedFacts, LayoutFacts, LenProperties DEF DispatchedRight, ListRight
<1>2. f < r + Circle
  <2>1. Window(f) <= Window(r) + FreeWindows - 1
    <3>1. Window(f) \in Nat /\ Window(r) \in Nat
      BY <1>1, WindowOnLine DEF Window
    <3>2. Window(f) <= Window(r) + FreeWindows - 2
      OBVIOUS
    <3>. HIDE DEF f, r
    <3>. QED
      BY <3>1, <3>2, SequenceAssumption
  <2>. HIDE DEF f, r
  <2>. QED
    BY <1>1, <2>1, AheadFacts
<1>3. ASSUME NEW k \in 1 .. Len(list)
      PROVE  /\ Stops(k) <=> list[k].packet <= p
             /\ list[k].number = seq <=> list[k].packet = p
             /\ list[k].packet \in Nat
  <2>. DEFINE q == list[k].packet
              g == FirstOf(q)
  <2>1. /\ q \in 1 .. Len(packets) /\ q > Ordered /\ list[k].number = Wire(g)
        /\ Window(g) <= Window(r) + FreeWindows - 2
    BY DEF ListRight, InOrder, IsRight
  <2>2. g \in Nat /\ r < g
    BY <2>1, OrderedFacts, LayoutFacts
  <2>3. g < r + Circle
    <3>1. Window(g) <= Window(r) + FreeWindows - 1
      <4>1. Window(g) \in Nat /\ Window(r) \in Nat
        BY <1>1, <2>2, WindowOnLine DEF Window
      <4>. HIDE DEF g, r
      <4>. QED
        BY <2>1, <4>1, SequenceAssumption
    <3>. HIDE DEF g, r
    <3>. QED
      BY <1>1, <2>2, <3>1, AheadFacts
  <2>4. g <= f <=> q <= p
    BY <2>1, LayoutOrder
  <2>5. g = f <=> q = p
    BY <2>1, LayoutOrder
  <2>. HIDE DEF g, f, q, r
  <2>6. /\ (IF Wire(f) >= Wire(r)
               THEN Wire(g) >= Wire(r) /\ Wire(g) <= Wire(f)
               ELSE Wire(g) >= Wire(r) \/ Wire(g) <= Wire(f))
            <=> g <= f
        /\ Wire(f) = Wire(g) <=> f = g
    BY <1>1, <1>2, <2>2, <2>3, OrderOnCircle
  <2>7. Stops(k) <=> g <= f
    BY <1>1, <2>1, <2>6
  <2>8. list[k].number = seq <=> f = g
    BY <2>1, <2>6
  <2>9. q \in Nat
    BY <2>1
  <2>. QED
    BY <2>4, <2>5, <2>7, <2>8, <2>9 DEF q
<1>4. /\ t \in 0 .. Len(list)
      /\ t # 0 => Stops(t)
      /\ \A k \in 1 .. Len(list) : Stops(k) => k <= t
  <2>1. incomingReliableCommands \in Seq(EntryRecords)
    BY DEF ListRight
  <2>. QED
    BY <2>1, ScanRange
<1>5. \A j, k \in 1 .. Len(list) : j < k => list[j].packet < list[k].packet
  BY DEF ListRight, InOrder
<1>6. IsQueued(seq) <=> (t # 0 /\ list[t].number = seq)
  BY DEF IsQueued
<1>. HIDE DEF list, t, seq, Stops
<1>7. t # 0 => t \in 1 .. Len(list)
  BY <1>1, <1>4
<1>8. ASSUME NEW k \in 1 .. Len(list) PROVE list[k].packet <= p <=> k <= t
  <2>1. list[k].packet <= p => k <= t
    BY <1>3, <1>4
  <2>2. ASSUME k <= t PROVE list[k].packet <= p
    <3>1. t # 0 /\ k \in Nat /\ t \in Nat
      BY <1>1, <1>4, <2>2
    <3>2. t \in 1 .. Len(list) /\ list[t].packet <= p
      BY <1>3, <1>4, <1>7, <3>1
    <3>3. k < t => list[k].packet < list[t].packet
      BY <1>5, <3>2
    <3>4. list[k].packet \in Nat /\ list[t].packet \in Nat /\ p \in Nat
      BY <1>3, <3>2
    <3>5. k = t \/ k < t
      BY <2>2, <3>1
    <3>. QED
      BY <3>2, <3>3, <3>4, <3>5
  <2>. QED
    BY <2>1, <2>2
<1>9. IsQueued(seq) <=> (t # 0 /\ list[t].packet = p)
  BY <1>3, <1>6, <1>7
<1>. QED
  BY <1>4, <1>8, <1>9 DEF list, t, seq, f

-----------------------------------------------------------------------------
(* Dispatching the head of a list.                                          *)

(* The first n packets of list go to the application's queue.               *)
Moved(list, n) ==
    /\ \A j \in 1 .. n : list[j].packet = Ordered + j /\ IsComplete(list[j])
    /\ HeadWaits(list, n)
    /\ incomingReliableCommands' = SubSeq(list, n + 1, Len(list))
    /\ dispatchedCommands' = dispatchedCommands \o SubSeq(list, 1, n)
    /\ incomingReliableSequenceNumber' =
          Wire(IF n = 0 THEN OrderedTo ELSE LastOf(Ordered + n))

(* The number the code expects next is that of the next packet.             *)
LEMMA NextExpected ==
    ASSUME LaidOut, DispatchedRight, NEW list \in Seq(EntryRecords), InOrder(list),
           NEW k \in 1 .. Len(list), k # 1 => list[k - 1].packet = Ordered + k - 1
    PROVE  list[k].number = NumberExpected(list, k) <=> list[k].packet = Ordered + k
<1>. DEFINE r == OrderedTo
            q == list[k].packet
            p == Ordered + k
            g == FirstOf(q)
            f == FirstOf(p)
<1>0. k \in Nat \ {0} /\ Len(list) \in Nat /\ Ordered \in Nat /\ Ordered <= Len(packets)
      /\ Len(packets) \in Nat
  BY LenProperties, OrderedFacts, LayoutFacts
<1>1. /\ q \in 1 .. Len(packets) /\ q > Ordered /\ list[k].number = Wire(g)
      /\ Window(g) <= Window(r) + FreeWindows - 2
  BY DEF InOrder, IsRight
<1>2. p \in 1 .. Len(packets) /\ p <= q
  <2>1. CASE k = 1
    BY <1>0, <1>1, <2>1
  <2>2. CASE k # 1
    <3>1. k - 1 \in 1 .. Len(list) /\ k - 1 < k
      BY <1>0, <2>2
    <3>2. list[k - 1].packet < q
      BY <3>1 DEF InOrder
    <3>. QED
      BY <1>0, <1>1, <2>2, <3>2
  <2>. QED
    BY <2>1, <2>2
<1>3. r \in Nat /\ g \in Nat /\ f \in Nat /\ r < f /\ r < g /\ f <= g
  <2>1. r \in Nat /\ g \in Nat /\ f \in Nat /\ r < g
    BY <1>1, <1>2, OrderedFacts, LayoutFacts
  <2>2. f <= g
    BY <1>1, <1>2, LayoutOrder
  <2>3. p > Ordered
    BY <1>0
  <2>4. r < f
    BY <1>2, <2>3, OrderedFacts
  <2>. QED
    BY <2>1, <2>2, <2>4
<1>4. g < r + Circle
  <2>. HIDE DEF r, g
  <2>1. Window(g) \in Nat /\ Window(r) \in Nat
    BY <1>3, WindowOnLine DEF Window
  <2>2. Window(g) <= Window(r) + FreeWindows - 1
    BY <1>1, <2>1, SequenceAssumption
  <2>. QED
    BY <1>3, <2>2, AheadFacts
<1>5. NumberExpected(list, k) = Wire(f)
  <2>1. CASE k = 1
    <3>1. NumberExpected(list, k) = (Wire(r) + 1) % Circle
      BY <2>1 DEF NumberExpected, DispatchedRight
    <3>2. f = r + 1
      BY <1>2, <2>1, OrderedFacts
    <3>. QED
      BY <1>3, <3>1, <3>2, NumberAfter
  <2>2. CASE k # 1
    <3>. DEFINE e == list[k - 1]
                o == FirstOf(e.packet)
                s == SpanOf(e)
    <3>1. k - 1 \in 1 .. Len(list)
      BY <1>0, <2>2
    <3>2. /\ e.packet \in 1 .. Len(packets) /\ e.number = Wire(o)
          /\ e.fragmentCount = packets[e.packet].fragmentCount
      BY <3>1 DEF InOrder, IsRight
    <3>3. s = Span(packets[e.packet].fragmentCount)
      BY <3>2 DEF SpanOf, Span
    <3>4. o \in Nat /\ s \in Nat /\ LastOf(e.packet) = o + s - 1
      BY <3>2, <3>3, LayoutFacts
    <3>5. f = LastOf(e.packet) + 1
      <4>1. p # 1 /\ p - 1 = e.packet
        BY <1>0, <2>2
      <4>. QED
        BY <1>2, <4>1 DEF LaidOut
    <3>6. NumberExpected(list, k) = (Wire(o) + s) % Circle
      BY <2>2, <3>2 DEF NumberExpected
    <3>. HIDE DEF o, s, e, f
    <3>7. f = o + s
      BY <3>4, <3>5
    <3>. QED
      BY <3>4, <3>6, <3>7, NumberAfter
  <2>. QED
    BY <2>1, <2>2
<1>6. Wire(f) = Wire(g) <=> f = g
  <2>. HIDE DEF r, f, g
  <2>1. Circle \in Nat
    BY CircleFacts
  <2>2. f < r + Circle
    BY <1>3, <1>4, <2>1
  <2>. QED
    BY <1>3, <1>4, <2>2, OrderOnCircle
<1>7. f = g <=> p = q
  BY <1>1, <1>2, LayoutOrder
<1>. QED
  BY <1>1, <1>5, <1>6, <1>7

(* What enet_peer_dispatch_incoming_reliable_commands dispatches of a list  *)
(* in order are the packets that are next, and it leaves none of them.      *)
LEMMA DispatchFacts ==
    ASSUME LaidOut, DispatchedRight, NEW list \in Seq(EntryRecords), InOrder(list),
           Dispatch(list)
    PROVE  \E n \in 0 .. Len(list) : Moved(list, n)
<1>. DEFINE Ready(k) == \A j \in 1 .. k :
                            IsComplete(list[j]) /\ list[j].number = NumberExpected(list, j)
            n == CHOOSE k \in 0 .. Len(list) :
                    Ready(k) /\ (k = Len(list) \/ ~ Ready(k + 1))
<1>1. Len(list) \in Nat /\ Ordered \in Nat
  BY LenProperties, OrderedFacts
<1>2. \E k \in 0 .. Len(list) : Ready(k) /\ (k = Len(list) \/ ~ Ready(k + 1))
  <2>. DEFINE T == {k \in 0 .. Len(list) : Ready(k)}
  <2>1. T \subseteq Nat /\ \A k \in T : k <= Len(list)
    BY <1>1
  <2>2. 0 \in T
    BY <1>1
  <2>3. PICK m \in T : \A k \in T : k <= m
    <3>. HIDE DEF T
    <3>. QED
      BY <1>1, <2>1, <2>2, GreatestNumber
  <2>4. m \in 0 .. Len(list) /\ Ready(m)
    OBVIOUS
  <2>5. m # Len(list) => m + 1 \in 0 .. Len(list)
    BY <1>1, <2>4
  <2>6. m + 1 \notin T
    <3>. HIDE DEF T
    <3>. QED
      BY <2>1, <2>3
  <2>. QED
    BY <2>4, <2>5, <2>6
<1>3. n \in 0 .. Len(list) /\ Ready(n) /\ (n = Len(list) \/ ~ Ready(n + 1))
  <2>. HIDE DEF Ready
  <2>. QED
    BY <1>2
<1>4. /\ incomingReliableCommands' = SubSeq(list, n + 1, Len(list))
      /\ dispatchedCommands' = dispatchedCommands \o SubSeq(list, 1, n)
      /\ incomingReliableSequenceNumber' =
             IF n = 0 THEN incomingReliableSequenceNumber
             ELSE (list[n].number + SpanOf(list[n]) - 1) % Circle
  BY DEF Dispatch
<1>. HIDE DEF n
<1>5. \A j \in 1 .. n : list[j].packet = Ordered + j
  <2>. DEFINE T == {j \in 1 .. n : list[j].packet # Ordered + j}
  <2>1. SUFFICES ASSUME T # {} PROVE FALSE
    OBVIOUS
  <2>2. T \subseteq Nat
    BY <1>3
  <2>3. PICK m \in T : \A j \in T : m <= j
    <3>. HIDE DEF T
    <3>. QED
      BY <2>1, <2>2, LeastNumber
  <2>4. m \in 1 .. Len(list) /\ m \in 1 .. n
    BY <1>1, <1>3
  <2>5. m # 1 => list[m - 1].packet = Ordered + m - 1
    <3>1. ASSUME m # 1 PROVE m - 1 \in 1 .. n /\ m - 1 \notin T
      <4>1. m - 1 \in 1 .. n
        BY <1>3, <2>4, <3>1
      <4>2. ~ (m <= m - 1)
        BY <2>4
      <4>. QED
        BY <2>3, <4>1, <4>2
    <3>2. ASSUME m # 1 PROVE list[m - 1].packet = Ordered + (m - 1)
      BY <3>1, <3>2
    <3>3. Ordered + (m - 1) = Ordered + m - 1
      BY <1>1, <2>4
    <3>. QED
      BY <3>2, <3>3
  <2>6. list[m].number = NumberExpected(list, m)
    BY <1>3, <2>4
  <2>7. list[m].packet = Ordered + m
    BY <2>4, <2>5, <2>6, NextExpected
  <2>. QED
    BY <2>7
<1>6. HeadWaits(list, n)
  <2>1. SUFFICES ASSUME n < Len(list), list[n + 1].packet = Ordered + n + 1,
                        IsComplete(list[n + 1])
                 PROVE  FALSE
    BY DEF HeadWaits
  <2>2. n + 1 \in 1 .. Len(list) /\ (n + 1) - 1 = n /\ n \in Nat
    BY <1>1, <1>3, <2>1
  <2>3. n + 1 # 1 => list[(n + 1) - 1].packet = Ordered + (n + 1) - 1
    <3>1. n + 1 # 1 => n \in 1 .. n
      BY <2>2
    <3>2. Ordered + (n + 1) - 1 = Ordered + n
      BY <1>1, <2>2
    <3>. QED
      BY <1>5, <2>2, <3>1, <3>2
  <2>4. list[n + 1].packet = Ordered + (n + 1)
    BY <1>1, <2>1, <2>2
  <2>5. list[n + 1].number = NumberExpected(list, n + 1)
    BY <2>2, <2>3, <2>4, NextExpected
  <2>6. Ready(n + 1)
    <3>1. \A j \in 1 .. n + 1 : j \in 1 .. n \/ j = n + 1
      BY <2>2
    <3>. QED
      BY <1>3, <2>1, <2>5, <3>1
  <2>7. n # Len(list)
    BY <2>1
  <2>. HIDE DEF Ready
  <2>. QED
    BY <1>3, <2>6, <2>7
<1>7. incomingReliableSequenceNumber' = Wire(IF n = 0 THEN OrderedTo ELSE LastOf(Ordered + n))
  <2>1. CASE n = 0
    BY <1>4, <2>1 DEF DispatchedRight
  <2>2. CASE n # 0
    <3>. DEFINE e == list[n]
                o == FirstOf(e.packet)
                s == SpanOf(e)
    <3>1. n \in 1 .. Len(list) /\ n \in 1 .. n
      BY <1>1, <1>3, <2>2
    <3>2. /\ e.packet \in 1 .. Len(packets) /\ e.number = Wire(o)
          /\ e.fragmentCount = packets[e.packet].fragmentCount
          /\ e.packet = Ordered + n
      BY <1>5, <3>1 DEF InOrder, IsRight
    <3>3. s = Span(packets[e.packet].fragmentCount)
      BY <3>2 DEF SpanOf, Span
    <3>4. o \in Nat /\ s \in Nat \ {0} /\ LastOf(e.packet) = o + s - 1
      BY <3>2, <3>3, LayoutFacts
    <3>5. incomingReliableSequenceNumber' = (Wire(o) + s - 1) % Circle
      BY <1>4, <2>2, <3>2
    <3>6. LastOf(Ordered + n) = o + s - 1
      BY <3>2, <3>4
    <3>. HIDE DEF o, s, e
    <3>7. Wire(o) \in Nat /\ s - 1 \in Nat
      <4>1. Wire(o) \in 0 .. Circle - 1
        BY <3>4, WindowOnLine
      <4>. QED
        BY <3>4, <4>1
    <3>8. (Wire(o) + (s - 1)) % Circle = Wire(o + (s - 1))
      BY <3>4, <3>7, NumberAfter
    <3>9. Wire(o) + s - 1 = Wire(o) + (s - 1) /\ o + s - 1 = o + (s - 1)
      BY <3>4, <3>7
    <3>. QED
      BY <2>2, <3>5, <3>6, <3>8, <3>9
  <2>. QED
    BY <2>1, <2>2
<1>. QED
  BY <1>3, <1>4, <1>5, <1>6, <1>7 DEF Moved

(* A list that is only changed is a list of which nothing is dispatched.    *)
LEMMA NothingMoved ==
    ASSUME NEW list \in Seq(EntryRecords), HeadWaits(list, 0), DispatchedRight,
           incomingReliableCommands' = list,
           UNCHANGED <<dispatchedCommands, incomingReliableSequenceNumber>>
    PROVE  0 \in 0 .. Len(list) /\ Moved(list, 0)
<1>1. Len(list) \in Nat
  BY LenProperties
<1>2. SubSeq(list, 0 + 1, Len(list)) = list
  BY SubSeqFull
<1>3. SubSeq(list, 1, 0) = <<>>
  <2>1. 1 \in Int /\ 0 \in Int /\ 0 < 1
    OBVIOUS
  <2>. QED
    BY <2>1, SubSeqEmpty
<1>4. dispatchedCommands \o <<>> = dispatchedCommands
  BY ConcatEmptySeq DEF DispatchedRight
<1>. QED
  BY <1>1, <1>2, <1>3, <1>4 DEF Moved, DispatchedRight

(* The two lists after the first n entries of list have moved.              *)
LEMMA MovedLists ==
    ASSUME dispatchedCommands \in Seq(EntryRecords), NEW list \in Seq(EntryRecords),
           NEW n \in 0 .. Len(list), Moved(list, n)
    PROVE  /\ dispatchedCommands' \in Seq(EntryRecords)
           /\ Len(dispatchedCommands') = Len(dispatchedCommands) + n
           /\ \A k \in 1 .. Len(dispatchedCommands) + n :
                 dispatchedCommands'[k] = IF k <= Len(dispatchedCommands) THEN dispatchedCommands[k]
                                          ELSE list[k - Len(dispatchedCommands)]
           /\ incomingReliableCommands' \in Seq(EntryRecords)
           /\ Len(incomingReliableCommands') = Len(list) - n
           /\ \A k \in 1 .. Len(list) - n :
                 incomingReliableCommands'[k] = list[n + k] /\ n + k \in 1 .. Len(list)
<1>1. /\ Len(list) \in Nat /\ n \in Nat /\ n <= Len(list)
      /\ \A k \in 1 .. Len(list) : list[k] \in EntryRecords
      /\ Len(dispatchedCommands) \in Nat
  BY LenProperties, ElementOfSeq
<1>2. /\ dispatchedCommands' \in Seq(EntryRecords)
      /\ Len(dispatchedCommands') = Len(dispatchedCommands) + n
      /\ \A k \in 1 .. Len(dispatchedCommands) + n :
            dispatchedCommands'[k] = IF k <= Len(dispatchedCommands) THEN dispatchedCommands[k]
                                     ELSE list[k - Len(dispatchedCommands)]
  <2>. DEFINE h == SubSeq(list, 1, n)
              m == Len(dispatchedCommands)
  <2>1. h \in Seq(EntryRecords) /\ Len(h) = n /\ \A k \in 1 .. n : h[k] = list[k]
    <3>1. 1 \in Int /\ n \in Int /\ \A k \in 1 .. n : list[k] \in EntryRecords
      BY <1>1
    <3>2. /\ SubSeq(list, 1, n) \in Seq(EntryRecords)
          /\ Len(SubSeq(list, 1, n)) = IF 1 <= n THEN n - 1 + 1 ELSE 0
          /\ \A k \in 1 .. n - 1 + 1 : SubSeq(list, 1, n)[k] = list[1 + k - 1]
      BY <3>1, SubSeqProperties
    <3>3. \A k \in 1 .. n : 1 + k - 1 = k /\ k \in 1 .. n - 1 + 1
      BY <1>1
    <3>. QED
      BY <1>1, <3>2, <3>3
  <2>2. dispatchedCommands' = dispatchedCommands \o h
    BY DEF Moved
  <2>. HIDE DEF h
  <2>3. /\ dispatchedCommands \o h \in Seq(EntryRecords)
        /\ Len(dispatchedCommands \o h) = m + Len(h)
        /\ \A k \in 1 .. m + Len(h) :
              (dispatchedCommands \o h)[k] = IF k <= m THEN dispatchedCommands[k] ELSE h[k - m]
    BY <1>1, <2>1, ConcatProperties
  <2>4. \A k \in 1 .. m + n : ~ (k <= m) => k - m \in 1 .. n
    BY <1>1
  <2>. QED
    BY <2>1, <2>2, <2>3, <2>4
<1>3. /\ incomingReliableCommands' \in Seq(EntryRecords)
      /\ Len(incomingReliableCommands') = Len(list) - n
      /\ \A k \in 1 .. Len(list) - n :
            incomingReliableCommands'[k] = list[n + k] /\ n + k \in 1 .. Len(list)
  <2>1. n + 1 \in Int /\ Len(list) \in Int /\ \A k \in n + 1 .. Len(list) : list[k] \in EntryRecords
    BY <1>1
  <2>2. incomingReliableCommands' = SubSeq(list, n + 1, Len(list))
    BY DEF Moved
  <2>3. /\ SubSeq(list, n + 1, Len(list)) \in Seq(EntryRecords)
        /\ Len(SubSeq(list, n + 1, Len(list)))
              = IF n + 1 <= Len(list) THEN Len(list) - (n + 1) + 1 ELSE 0
        /\ \A k \in 1 .. Len(list) - (n + 1) + 1 :
              SubSeq(list, n + 1, Len(list))[k] = list[n + 1 + k - 1]
    BY <2>1, SubSeqProperties
  <2>4. \A k \in 1 .. Len(list) - n :
           n + 1 + k - 1 = n + k /\ k \in 1 .. Len(list) - (n + 1) + 1 /\ n + k \in 1 .. Len(list)
    BY <1>1
  <2>5. (IF n + 1 <= Len(list) THEN Len(list) - (n + 1) + 1 ELSE 0) = Len(list) - n
    BY <1>1
  <2>. QED
    BY <2>2, <2>3, <2>4, <2>5
<1>. QED
  BY <1>2, <1>3

-----------------------------------------------------------------------------
(* What a step leaves as it was.                                            *)

(* No packet or command is ever taken back or renumbered.                   *)
SenderGrows ==
    /\ Len(packets') \in Nat /\ Len(packets) <= Len(packets')
    /\ \A p \in 1 .. Len(packets) :
          /\ packets'[p].first = packets[p].first
          /\ packets'[p].fragmentCount = packets[p].fragmentCount
    /\ Len(commands') \in Nat /\ Len(commands) <= Len(commands')
    /\ \A i \in Ids : commands'[i] = commands[i]
    /\ attempted \in Nat /\ attempted' \in Nat /\ attempted <= attempted'

(* What holds of the places of packets and of entries goes on holding.      *)
LEMMA RightLater ==
    ASSUME LaidOut, SenderGrows
    PROVE  /\ \A p \in 1 .. Len(packets) :
                 /\ p \in 1 .. Len(packets')
                 /\ FirstOf(p)' = FirstOf(p) /\ LastOf(p)' = LastOf(p)
           /\ \A i \in Ids : i \in Ids' /\ commands'[i] = commands[i]
           /\ \A e : IsRight(e) => IsRight(e)'
<1>1. Len(packets) \in Nat /\ Len(commands) \in Nat
  BY LayoutFacts
<1>2. ASSUME NEW p \in 1 .. Len(packets)
      PROVE  /\ p \in 1 .. Len(packets')
             /\ FirstOf(p)' = FirstOf(p) /\ LastOf(p)' = LastOf(p)
  <2>1. p \in 1 .. Len(packets')
    BY <1>1 DEF SenderGrows
  <2>2. /\ packets'[p].first = packets[p].first
        /\ packets'[p].fragmentCount = packets[p].fragmentCount
    BY DEF SenderGrows
  <2>. QED
    BY <2>1, <2>2 DEF FirstOf, LastOf
<1>3. ASSUME NEW i \in Ids PROVE i \in Ids' /\ commands'[i] = commands[i]
  BY <1>1 DEF SenderGrows, Ids
<1>4. ASSUME NEW e, IsRight(e) PROVE IsRight(e)'
  <2>. DEFINE p == e.packet
  <2>1. /\ e \in EntryRecords
        /\ p \in 1 .. Len(packets)
        /\ e.number = Wire(FirstOf(p))
        /\ e.fragmentCount = packets[p].fragmentCount
        /\ e.fragments \subseteq 0 .. e.fragmentCount - 1
        /\ e.ids = (IF e.fragmentCount = 0 THEN {FirstOf(p)}
                    ELSE {i \in FirstOf(p) .. LastOf(p) : i - FirstOf(p) \in e.fragments})
        /\ e.ids \subseteq 1 .. attempted
    BY <1>4 DEF IsRight
  <2>. HIDE DEF p
  <2>2. /\ p \in 1 .. Len(packets')
        /\ FirstOf(p)' = FirstOf(p) /\ LastOf(p)' = LastOf(p)
        /\ packets'[p].fragmentCount = packets[p].fragmentCount
    BY <1>2, <2>1 DEF SenderGrows
  <2>3. e.ids \subseteq 1 .. attempted'
    <3>1. 1 .. attempted \subseteq 1 .. attempted'
      BY DEF SenderGrows
    <3>. QED
      BY <2>1, <3>1
  <2>4. e.number = Wire(FirstOf(p)')
    BY <2>1, <2>2
  <2>5. e.ids = (IF e.fragmentCount = 0 THEN {FirstOf(p)'}
                 ELSE {i \in FirstOf(p)' .. LastOf(p)' : i - FirstOf(p)' \in e.fragments})
    BY <2>1, <2>2
  <2>. QED
    BY <2>1, <2>2, <2>3, <2>4, <2>5 DEF IsRight, p
<1>. QED
  BY <1>2, <1>3, <1>4

(* A step that leaves the sender alone lets it grow by nothing.             *)
LEMMA SenderRests ==
    ASSUME LaidOut, attempted \in Nat, UNCHANGED <<packets, commands, attempted>>
    PROVE  SenderGrows /\ LaidOut'
<1>1. SenderGrows
  BY LayoutFacts DEF SenderGrows, Ids
<1>2. LaidOut'
  BY DEF LaidOut, FirstOf, LastOf, Ids
<1>. QED
  BY <1>1, <1>2

(* Windows are in the order of the commands.                                *)
LEMMA WindowFacts ==
    ASSUME NEW i \in Nat
    PROVE  /\ Window(i) \in Nat
           /\ \A j \in Nat : i <= j => Window(i) <= Window(j)
<1>1. WindowSize \in Nat \ {0}
  BY SequenceAssumption
<1>2. ASSUME NEW j \in Nat, i <= j PROVE i \div WindowSize <= j \div WindowSize
  BY <1>1, <1>2, QuotientOrder
<1>3. i \div WindowSize \in Nat
  BY WindowOnLine
<1>. QED
  BY <1>2, <1>3 DEF Window

(* Commands so few windows apart are so few commands apart.                 *)
LEMMA WindowsApart ==
    ASSUME NEW r \in Nat, NEW i \in Nat, Window(i) <= Window(r) + FreeWindows - 1
    PROVE  i < r + FreeWindows * WindowSize
<1>. DEFINE k == FreeWindows - 1
<1>1. WindowSize \in Nat \ {0} /\ k \in Int /\ FreeWindows \in Nat /\ k + 1 = FreeWindows
  BY SequenceAssumption
<1>2. i \div WindowSize <= r \div WindowSize + k
  <2>1. Window(i) \in Nat /\ Window(r) \in Nat
    BY WindowFacts
  <2>2. Window(i) <= Window(r) + k
    BY <1>1, <2>1
  <2>. QED
    BY <2>2 DEF Window
<1>. HIDE DEF k
<1>3. i < r + WindowSize * (k + 1)
  BY <1>1, <1>2, QuotientDistance
<1>4. WindowSize * (k + 1) = FreeWindows * WindowSize
  BY <1>1
<1>. QED
  BY <1>3, <1>4

-----------------------------------------------------------------------------
(* Moving the head of a list in order to the application keeps things       *)
(* right.                                                                   *)
LEMMA MovedKeeps ==
    ASSUME ChannelInvariant, UNCHANGED <<packets, commands, attempted, received>>,
           NEW list \in Seq(EntryRecords), InOrder(list),
           NEW n \in 0 .. Len(list), Moved(list, n)
    PROVE  /\ Ordered' = Ordered + n
           /\ OrderedTo' \in Nat /\ OrderedTo <= OrderedTo'
           /\ DispatchedRight' /\ ListRight'
           /\ Len(incomingReliableCommands') = Len(list) - n
           /\ \A k \in 1 .. Len(list) - n : incomingReliableCommands'[k] = list[n + k]
           /\ \A i \in IdsOf(list) : i \in Stored'
           /\ \A i \in Ids : commands[i] <= Ordered => i \in Stored'
<1>1. /\ LaidOut /\ DispatchedRight /\ ListRight /\ attempted \in Nat
      /\ attempted <= Len(commands)
      /\ Window(attempted) <= Window(OrderedTo) + FreeWindows - 1
  <2>1. LaidOut /\ DispatchedRight /\ ListRight /\ attempted \in 0 .. Len(commands)
    BY DEF ChannelInvariant
  <2>2. Len(commands) \in Nat
    BY <2>1, LayoutFacts
  <2>3. Window(attempted) <= Window(OrderedTo) + FreeWindows - 1
    BY DEF ChannelInvariant, WindowsAgree
  <2>. QED
    BY <2>1, <2>2, <2>3
<1>2. /\ Len(list) \in Nat /\ n \in Nat /\ n <= Len(list)
      /\ \A k \in 1 .. Len(list) : list[k] \in EntryRecords
  BY LenProperties, ElementOfSeq
<1>3. /\ Ordered \in Nat /\ Ordered <= Len(packets) /\ Len(packets) \in Nat
      /\ OrderedTo \in Nat
  BY <1>1, OrderedFacts, LayoutFacts
<1>4. /\ \A p \in 1 .. Len(packets) : FirstOf(p)' = FirstOf(p) /\ LastOf(p)' = LastOf(p)
      /\ \A e : IsRight(e) => IsRight(e)'
      /\ LaidOut'
  BY <1>1, RightLater, SenderRests
<1>5. ASSUME NEW j \in 1 .. Len(list)
      PROVE  /\ IsRight(list[j])
             /\ list[j].packet \in 1 .. Len(packets)
             /\ list[j].packet > Ordered
             /\ Window(FirstOf(list[j].packet)) <= Window(OrderedTo) + FreeWindows - 2
             /\ \A k \in 1 .. Len(list) : j < k => list[j].packet < list[k].packet
  BY DEF InOrder, IsRight
<1>6. \A j \in 1 .. n : j \in 1 .. Len(list) /\ list[j].packet = Ordered + j
                        /\ IsComplete(list[j])
  BY <1>2 DEF Moved
<1>7. /\ dispatchedCommands \in Seq(EntryRecords)
      /\ received \in Seq(Nat)
      /\ Len(dispatchedCommands) \in Nat /\ Len(received) \in Nat
      /\ Ordered = Len(received) + Len(dispatchedCommands)
  BY <1>1, LenProperties DEF DispatchedRight, Ordered
<1>8. /\ dispatchedCommands' \in Seq(EntryRecords)
      /\ Len(dispatchedCommands') = Len(dispatchedCommands) + n
      /\ \A k \in 1 .. Len(dispatchedCommands) + n :
            dispatchedCommands'[k] = IF k <= Len(dispatchedCommands) THEN dispatchedCommands[k]
                                     ELSE list[k - Len(dispatchedCommands)]
  BY <1>1, MovedLists DEF DispatchedRight
<1>9. /\ incomingReliableCommands' \in Seq(EntryRecords)
      /\ Len(incomingReliableCommands') = Len(list) - n
      /\ \A k \in 1 .. Len(list) - n :
            incomingReliableCommands'[k] = list[n + k] /\ n + k \in 1 .. Len(list)
  BY <1>1, MovedLists DEF DispatchedRight
<1>10. Ordered' = Ordered + n /\ Ordered' \in Nat
  <2>1. Ordered' = Len(received) + Len(dispatchedCommands')
    BY DEF Ordered
  <2>. QED
    BY <1>2, <1>3, <1>7, <1>8, <2>1
<1>11. Ordered + n <= Len(packets)
  <2>1. CASE n = 0
    BY <1>3, <2>1
  <2>2. CASE n # 0
    <3>1. n \in 1 .. n /\ list[n].packet = Ordered + n /\ list[n].packet \in 1 .. Len(packets)
      BY <1>2, <1>5, <1>6, <2>2
    <3>. QED
      BY <1>3, <3>1
  <2>. QED
    BY <2>1, <2>2
<1>12. OrderedTo' = IF n = 0 THEN OrderedTo ELSE LastOf(Ordered + n)
  <2>1. OrderedTo' = IF Ordered + n = 0 THEN 0 ELSE LastOf(Ordered + n)
    BY <1>10 DEF OrderedTo, LastOf
  <2>2. CASE n = 0
    <3>1. Ordered + n = Ordered
      BY <1>3, <2>2
    <3>. QED
      BY <2>1, <2>2, <3>1 DEF OrderedTo
  <2>3. CASE n # 0
    <3>1. Ordered + n # 0
      BY <1>2, <1>3, <2>3
    <3>. QED
      BY <2>1, <2>3, <3>1
  <2>. QED
    BY <2>2, <2>3
<1>13. ASSUME NEW j \in 1 .. n
       PROVE  /\ LastOf(Ordered + j) <= attempted
              /\ Span(packets[Ordered + j].fragmentCount) < FreeWindows * WindowSize
  <2>. DEFINE p == Ordered + j
              f == FirstOf(p)
              l == LastOf(p)
  <2>1. /\ j \in 1 .. Len(list) /\ list[j].packet = p /\ IsComplete(list[j])
        /\ p \in 1 .. Len(packets) /\ p > Ordered /\ IsRight(list[j])
    BY <1>5, <1>6
  <2>2. list[j].ids = f .. l /\ list[j].ids \subseteq 1 .. attempted
    BY <1>1, <2>1, EntryFacts DEF IsRight
  <2>3. /\ f \in Nat /\ l \in Nat /\ f <= l /\ l = f + Span(packets[p].fragmentCount) - 1
        /\ Span(packets[p].fragmentCount) \in Nat
    BY <1>1, <2>1, LayoutFacts
  <2>4. OrderedTo < f
    BY <1>1, <2>1, OrderedFacts
  <2>. HIDE DEF f, l, p
  <2>5. l <= attempted
    <3>1. l \in f .. l
      BY <2>3
    <3>. QED
      BY <2>2, <2>3, <3>1
  <2>6. l < OrderedTo + FreeWindows * WindowSize
    <3>1. Window(l) <= Window(attempted) /\ Window(l) \in Nat /\ Window(attempted) \in Nat
      BY <1>1, <2>3, <2>5, WindowFacts
    <3>2. Window(OrderedTo) \in Nat
      BY <1>3, WindowFacts
    <3>3. Window(l) <= Window(OrderedTo) + FreeWindows - 1
      BY <1>1, <3>1, <3>2, SequenceAssumption
    <3>. QED
      BY <1>3, <2>3, <3>3, WindowsApart
  <2>7. Span(packets[p].fragmentCount) < FreeWindows * WindowSize
    <3>1. FreeWindows * WindowSize \in Nat
      BY SequenceAssumption
    <3>. QED
      BY <1>3, <2>3, <2>4, <2>6, <3>1
  <2>. QED
    BY <2>5, <2>7 DEF l, p
<1>14. OrderedTo' \in Nat /\ OrderedTo <= OrderedTo' /\ OrderedTo' <= attempted
  <2>1. CASE n = 0
    BY <1>1, <1>3, <1>12, <2>1 DEF DispatchedRight
  <2>2. CASE n # 0
    <3>. DEFINE p == Ordered + n
    <3>1. p \in 1 .. Len(packets) /\ p > Ordered /\ n \in 1 .. n
      BY <1>2, <1>3, <1>11, <2>2
    <3>2. LastOf(p) <= attempted
      BY <1>13, <3>1
    <3>3. OrderedTo < FirstOf(p) /\ FirstOf(p) <= LastOf(p)
          /\ FirstOf(p) \in Nat /\ LastOf(p) \in Nat
      BY <1>1, <3>1, OrderedFacts, LayoutFacts
    <3>4. OrderedTo' = LastOf(p)
      BY <1>12, <2>2
    <3>. HIDE DEF p
    <3>. QED
      BY <1>3, <3>2, <3>3, <3>4
  <2>. QED
    BY <2>1, <2>2
<1>15. DispatchedRight'
  <2>1. incomingReliableSequenceNumber' = Wire(OrderedTo')
    BY <1>12 DEF Moved
  <2>2. ASSUME NEW k \in 1 .. Len(dispatchedCommands')
        PROVE  /\ dispatchedCommands'[k].packet = Len(received) + k
               /\ IsRight(dispatchedCommands[k])'
    <3>. DEFINE m == Len(dispatchedCommands)
    <3>0. ASSUME NEW e, IsRight(e), dispatchedCommands'[k] = e
          PROVE  IsRight(dispatchedCommands[k])'
      <4>1. IsRight(e)'
        BY <1>4, <3>0
      <4>. QED
        BY <3>0, <4>1 DEF IsRight, FirstOf, LastOf
    <3>1. CASE k <= m
      <4>1. k \in 1 .. m /\ dispatchedCommands'[k] = dispatchedCommands[k]
        BY <1>2, <1>7, <1>8, <3>1
      <4>2. dispatchedCommands[k].packet = Len(received) + k /\ IsRight(dispatchedCommands[k])
        BY <1>1, <4>1 DEF DispatchedRight
      <4>. QED
        BY <3>0, <4>1, <4>2
    <3>2. CASE ~ (k <= m)
      <4>1. k - m \in 1 .. n /\ dispatchedCommands'[k] = list[k - m]
        <5>1. k \in 1 .. m + n
          BY <1>8
        <5>2. k - m \in 1 .. n
          BY <1>2, <1>7, <3>2, <5>1
        <5>. QED
          BY <1>8, <3>2, <5>1, <5>2
      <4>2. list[k - m].packet = Ordered + (k - m) /\ IsRight(list[k - m])
        BY <1>5, <1>6, <4>1
      <4>3. Ordered + (k - m) = Len(received) + k
        BY <1>7, <4>1
      <4>. QED
        BY <3>0, <4>1, <4>2, <4>3
    <3>. QED
      BY <3>1, <3>2
  <2>3. ASSUME NEW p \in 1 .. Ordered'
        PROVE  Span(packets'[p].fragmentCount) < FreeWindows * WindowSize
    <3>1. CASE p <= Ordered
      <4>1. p \in 1 .. Ordered
        BY <1>3, <1>10, <3>1
      <4>. QED
        BY <1>1, <4>1 DEF DispatchedRight
    <3>2. CASE ~ (p <= Ordered)
      <4>1. p - Ordered \in 1 .. n /\ Ordered + (p - Ordered) = p
        BY <1>2, <1>3, <1>10, <3>2
      <4>2. Span(packets[Ordered + (p - Ordered)].fragmentCount) < FreeWindows * WindowSize
        BY <1>13, <4>1
      <4>. QED
        BY <4>1, <4>2
    <3>. QED
      BY <3>1, <3>2
  <2>4. \A k \in 1 .. Len(received) : received[k] = k
    BY <1>1 DEF DispatchedRight
  <2>. QED
    BY <1>7, <1>8, <1>10, <1>11, <1>14, <2>1, <2>2, <2>3, <2>4 DEF DispatchedRight
<1>16. ListRight'
  <2>1. Window(OrderedTo) <= Window(OrderedTo') /\ Window(OrderedTo') \in Nat
        /\ Window(OrderedTo) \in Nat
    BY <1>3, <1>14, WindowFacts
  <2>2. Window(OrderedTo)' = Window(OrderedTo')
    BY DEF Window
  <2>3. ASSUME NEW k \in 1 .. Len(incomingReliableCommands')
        PROVE  /\ IsRight(incomingReliableCommands[k])'
               /\ incomingReliableCommands'[k].packet > Ordered'
               /\ Window(FirstOf(incomingReliableCommands[k].packet))'
                     <= Window(OrderedTo)' + FreeWindows - 2
               /\ \A j \in 1 .. Len(incomingReliableCommands') :
                     j < k => incomingReliableCommands'[j].packet
                                 < incomingReliableCommands'[k].packet
    <3>. DEFINE e == list[n + k]
                q == e.packet
    <3>1. incomingReliableCommands'[k] = e /\ n + k \in 1 .. Len(list)
      BY <1>9
    <3>2. /\ IsRight(e) /\ q \in 1 .. Len(packets) /\ q > Ordered
          /\ Window(FirstOf(q)) <= Window(OrderedTo) + FreeWindows - 2
      BY <1>5, <3>1
    <3>3. q > Ordered + n
      <4>1. CASE n = 0
        BY <1>3, <3>2, <4>1
      <4>2. CASE n # 0
        <5>1. n \in 1 .. n /\ n < n + k
          BY <1>2, <1>9, <4>2
        <5>3. n \in 1 .. Len(list) /\ list[n].packet = Ordered + n
          BY <1>6, <5>1
        <5>2. list[n].packet < q
          BY <1>5, <3>1, <5>1, <5>3
        <5>. QED
          BY <1>3, <1>5, <3>1, <5>2, <5>3
      <4>. QED
        BY <4>1, <4>2
    <3>4. FirstOf(q)' = FirstOf(q) /\ FirstOf(q) \in Nat
      BY <1>1, <1>4, <3>2, LayoutFacts
    <3>5. Window(FirstOf(q)) <= Window(OrderedTo') + FreeWindows - 2
      <4>1. Window(FirstOf(q)) \in Nat
        BY <3>4, WindowFacts
      <4>. QED
        BY <2>1, <3>2, <4>1, SequenceAssumption
    <3>6. ASSUME NEW j \in 1 .. Len(incomingReliableCommands'), j < k
          PROVE  incomingReliableCommands'[j].packet < incomingReliableCommands'[k].packet
      <4>1. incomingReliableCommands'[j] = list[n + j] /\ n + j \in 1 .. Len(list) /\ n + j < n + k
        BY <1>2, <1>9, <3>6
      <4>. QED
        BY <1>5, <3>1, <4>1
    <3>7. IsRight(e)'
      BY <1>4, <3>2
    <3>. HIDE DEF e
    <3>8. FirstOf(incomingReliableCommands[k].packet)' = FirstOf(q)'
      BY <3>1 DEF FirstOf
    <3>9. IsRight(incomingReliableCommands[k])'
      BY <3>1, <3>7 DEF IsRight, FirstOf, LastOf
    <3>10. Window(FirstOf(incomingReliableCommands[k].packet))' = Window(FirstOf(q))
      BY <3>4, <3>8 DEF Window
    <3>11. incomingReliableCommands'[k].packet = q
      BY <3>1
    <3>. HIDE DEF q
    <3>. QED
      BY <1>10, <2>2, <3>3, <3>5, <3>6, <3>9, <3>10, <3>11
  <2>4. HeadWaits(incomingReliableCommands, 0)'
    <3>1. SUFFICES ASSUME 0 < Len(incomingReliableCommands'),
                          incomingReliableCommands'[1].packet = Ordered' + 0 + 1,
                          IsComplete(incomingReliableCommands'[1])
                   PROVE  FALSE
      BY DEF HeadWaits, IsComplete
    <3>2. 1 \in 1 .. Len(list) - n /\ n < Len(list)
      BY <1>2, <1>9, <3>1
    <3>3. incomingReliableCommands'[1] = list[n + 1]
      BY <1>9, <3>2
    <3>4. Ordered' + 0 + 1 = Ordered + n + 1
      BY <1>3, <1>10
    <3>. QED
      BY <3>1, <3>2, <3>3, <3>4 DEF Moved, HeadWaits
  <2>. QED
    BY <1>9, <2>2, <2>3, <2>4 DEF ListRight, InOrder
<1>17. ASSUME NEW i \in IdsOf(list) PROVE i \in Stored'
  <2>1. PICK k \in 1 .. Len(list) : i \in list[k].ids
    BY DEF IdsOf
  <2>2. i \in Ids /\ commands[i] = list[k].packet
    BY <1>1, <1>5, <2>1, EntryFacts
  <2>3. CASE k <= n
    <3>1. k \in 1 .. n /\ list[k].packet = Ordered + k
      BY <1>2, <1>6, <2>3
    <3>2. commands[i] <= Ordered'
      BY <1>2, <1>3, <1>10, <2>2, <3>1
    <3>. QED
      BY <2>2, <3>2 DEF Stored, Ids
  <2>4. CASE ~ (k <= n)
    <3>1. k - n \in 1 .. Len(list) - n /\ n + (k - n) = k
      BY <1>2, <2>4
    <3>2. k - n \in 1 .. Len(incomingReliableCommands') /\ incomingReliableCommands'[k - n] = list[k]
      BY <1>9, <3>1
    <3>. QED
      BY <2>1, <3>2 DEF Stored, IdsOf
  <2>. QED
    BY <2>3, <2>4
<1>18. ASSUME NEW i \in Ids, commands[i] <= Ordered PROVE i \in Stored'
  <2>1. commands[i] \in Nat
    BY <1>1, LayoutFacts
  <2>2. commands[i] <= Ordered'
    BY <1>2, <1>3, <1>10, <1>18, <2>1
  <2>. QED
    BY <2>2 DEF Stored, Ids
<1>. QED
  BY <1>9, <1>10, <1>14, <1>15, <1>16, <1>17, <1>18

-----------------------------------------------------------------------------
(* What a datagram does to the list.                                        *)

(* A datagram in the network is that of a command sent.                     *)
LEMMA DatagramFacts ==
    ASSUME ChannelInvariant, NEW i \in data
    PROVE  /\ i \in Ids /\ i \in 1 .. attempted /\ attempted \in Nat
           /\ attempted <= i + Lifetime
           /\ commands[i] \in 1 .. Len(packets)
           /\ FirstOf(commands[i]) \in Nat \ {0} /\ FirstOf(commands[i]) <= i
           /\ i <= LastOf(commands[i]) /\ LastOf(commands[i]) \in Nat
           /\ Datagram(i).number = Wire(i)
           /\ Datagram(i).start = Wire(FirstOf(commands[i]))
           /\ Datagram(i).fragmentNumber = i - FirstOf(commands[i])
           /\ Datagram(i).fragmentCount = packets[commands[i]].fragmentCount
           /\ Datagram(i).packet = commands[i]
           /\ Datagram(i).id = i
<1>1. LaidOut /\ attempted \in 0 .. Len(commands) /\ i \in 1 .. attempted
      /\ i + Lifetime >= attempted
  BY DEF ChannelInvariant, NetworkRight
<1>2. Len(commands) \in Nat /\ attempted \in Nat /\ i \in Ids
  BY <1>1, LayoutFacts DEF Ids
<1>3. /\ commands[i] \in 1 .. Len(packets)
      /\ FirstOf(commands[i]) <= i /\ i <= LastOf(commands[i])
  BY <1>1, <1>2, LayoutFacts
<1>4. FirstOf(commands[i]) \in Nat \ {0} /\ LastOf(commands[i]) \in Nat
  BY <1>1, <1>3, LayoutFacts
<1>5. attempted <= i + Lifetime
  BY <1>1, <1>2, NetworkAssumption
<1>. QED
  BY <1>1, <1>2, <1>3, <1>4, <1>5 DEF Datagram, FirstOf

(* A command of a packet put in order long ago is not taken for a new one:  *)
(* the number of its packet is behind the receive window, or it is the very *)
(* number the receiver keeps.                                               *)
LEMMA OldCommand ==
    ASSUME ChannelInvariant, NEW i \in data, commands[i] <= Ordered
    PROVE  LET seq == Wire(FirstOf(commands[i])) IN
           \/ ~ InReceiveWindow(seq, incomingReliableSequenceNumber)
           \/ seq = incomingReliableSequenceNumber /\ ~ IsQueued(seq)
<1>. DEFINE p == commands[i]
            f == FirstOf(p)
            r == OrderedTo
            s == Span(packets[p].fragmentCount)
<1>1. /\ LaidOut /\ DispatchedRight /\ ListRight /\ p \in 1 .. Len(packets)
      /\ f \in Nat /\ i \in Nat /\ attempted \in Nat /\ attempted <= i + Lifetime
      /\ i <= LastOf(p)
  BY DatagramFacts DEF ChannelInvariant
<1>2. /\ r \in Nat /\ r <= attempted /\ f <= r
      /\ incomingReliableSequenceNumber = Wire(r)
      /\ s < FreeWindows * WindowSize /\ s \in Nat /\ LastOf(p) = f + s - 1
      /\ packets[p].fragmentCount \in FragmentCounts
  <2>1. LastOf(p) <= r /\ r \in Nat /\ Ordered \in Nat
    BY <1>1, OrderedFacts
  <2>2. p \in 1 .. Ordered
    BY <1>1, <2>1
  <2>3. /\ FirstOf(p) <= LastOf(p) /\ LastOf(p) \in Nat
        /\ LastOf(p) = f + s - 1 /\ s \in Nat /\ packets[p].fragmentCount \in FragmentCounts
    BY <1>1, LayoutFacts
  <2>4. f <= r
    <3>. HIDE DEF f, r, p
    <3>. QED
      BY <1>1, <2>1, <2>3 DEF f
  <2>5. s < FreeWindows * WindowSize
    BY <1>1, <2>2 DEF DispatchedRight
  <2>. QED
    BY <1>1, <2>1, <2>3, <2>4, <2>5 DEF DispatchedRight
<1>. HIDE DEF r, s
<1>3. Lifetime \in Nat /\ Lifetime + s - 1 <= (FreeWindows + 1) * WindowSize
  <2>1. FreeWindows \in Nat /\ WindowSize \in Nat
    BY SequenceAssumption
  <2>2. (FreeWindows + 1) * WindowSize \in Nat
    BY <2>1
  <2>. QED
    BY <1>2, <2>2, NetworkAssumption DEF s
<1>4. r <= f + WindowSize * (FreeWindows + 1)
  <2>. DEFINE m == (FreeWindows + 1) * WindowSize
  <2>1. m \in Nat /\ WindowSize * (FreeWindows + 1) = m
    BY SequenceAssumption
  <2>. HIDE DEF m, f
  <2>2. Lifetime + s - 1 <= m
    BY <1>3 DEF m
  <2>3. i <= f + s - 1
    BY <1>1, <1>2
  <2>4. r <= f + m
    BY <1>1, <1>2, <1>3, <2>1, <2>2, <2>3
  <2>. QED
    BY <2>1, <2>4
<1>5. CASE f = r
  <2>1. Wire(f) = incomingReliableSequenceNumber
    BY <1>2, <1>5
  <2>2. ASSUME NEW k \in 1 .. Len(incomingReliableCommands)
        PROVE  incomingReliableCommands[k].number # Wire(r)
    <3>. DEFINE q == incomingReliableCommands[k].packet
                g == FirstOf(q)
    <3>1. /\ q \in 1 .. Len(packets) /\ q > Ordered
          /\ incomingReliableCommands[k].number = Wire(g)
          /\ Window(g) <= Window(r) + FreeWindows - 2
      BY <1>1 DEF ListRight, InOrder, IsRight, r
    <3>2. g \in Nat /\ r < g
      BY <1>1, <3>1, OrderedFacts, LayoutFacts DEF r
    <3>. HIDE DEF g, q
    <3>3. g < r + Circle
      <4>1. Window(g) \in Nat /\ Window(r) \in Nat
        BY <1>2, <3>2, WindowFacts
      <4>2. Window(g) <= Window(r) + FreeWindows - 1
        BY <3>1, <4>1, SequenceAssumption
      <4>. QED
        BY <1>2, <3>2, <4>2, AheadFacts
    <3>4. Wire(g) # Wire(r)
      BY <1>2, <3>2, <3>3, OrderOnCircle
    <3>. QED
      BY <3>1, <3>4
  <2>3. ~ IsQueued(Wire(f))
    <3>1. incomingReliableCommands \in Seq(EntryRecords)
      BY <1>1 DEF ListRight
    <3>2. Len(incomingReliableCommands) \in Nat
      BY <3>1, LenProperties
    <3>3. ScanStop(Wire(f)) \in 0 .. Len(incomingReliableCommands)
      BY <3>1, ScanRange
    <3>. DEFINE t == ScanStop(Wire(f))
    <3>. HIDE DEF t
    <3>4. t # 0 => t \in 1 .. Len(incomingReliableCommands)
      BY <3>2, <3>3 DEF t
    <3>5. t # 0 => incomingReliableCommands[t].number # Wire(f)
      BY <1>5, <2>2, <3>4
    <3>. QED
      BY <3>5 DEF IsQueued, t
  <2>. QED
    BY <2>1, <2>3
<1>6. CASE f # r
  <2>. HIDE DEF f
  <2>1. f < r
    BY <1>1, <1>2, <1>6
  <2>. DEFINE a == r \div WindowSize
              b == f \div WindowSize
  <2>2. a \in Nat /\ b \in Nat
    BY <1>1, <1>2, WindowOnLine
  <2>3. a <= b + (FreeWindows + 1)
    <3>1. FreeWindows + 1 \in Int /\ WindowSize \in Nat \ {0}
      BY SequenceAssumption
    <3>. QED
      BY <1>1, <1>2, <1>4, <3>1, QuotientBound
  <2>. HIDE DEF a, b
  <2>4. CASE a - b < Windows
    <3>1. WindowsAhead(Wire(f), Wire(r)) = Windows - (a - b)
      BY <1>1, <1>2, <2>1, <2>4, BehindOnCircle DEF a, b
    <3>. DEFINE w == WindowsAhead(Wire(f), Wire(r))
    <3>. HIDE DEF w
    <3>2. ~ (w \in 0 .. FreeWindows - 2)
      BY <2>2, <2>3, <3>1, SequenceAssumption DEF w
    <3>3. ~ InReceiveWindow(Wire(f), Wire(r))
      BY <3>2 DEF InReceiveWindow, w
    <3>. QED
      BY <1>2, <3>3 DEF f
  <2>5. CASE ~ (a - b < Windows)
    BY <2>2, <2>3, <2>5, SequenceAssumption
  <2>. QED
    BY <2>4, <2>5
<1>. QED
  BY <1>5, <1>6

(* A command of a packet not yet in order is never taken for an old one: it *)
(* is stored while the first command of its packet is in the receive        *)
(* window, and is not acknowledged when it is beyond.                       *)
LEMMA AheadCommand ==
    ASSUME ChannelInvariant, NEW i \in data, commands[i] > Ordered
    PROVE  LET f == FirstOf(commands[i])
               seq == Wire(f)
           IN  /\ seq # incomingReliableSequenceNumber
               /\ InReceiveWindow(seq, incomingReliableSequenceNumber)
                     <=> Window(f) <= Window(OrderedTo) + FreeWindows - 2
               /\ ~ InReceiveWindow(seq, incomingReliableSequenceNumber)
                     => IsAckRefused(Wire(i), incomingReliableSequenceNumber)
<1>. DEFINE p == commands[i]
            f == FirstOf(p)
            r == OrderedTo
            inc == incomingReliableSequenceNumber
<1>1. /\ LaidOut /\ DispatchedRight /\ p \in 1 .. Len(packets)
      /\ f \in Nat /\ i \in Nat /\ attempted \in Nat /\ i <= attempted /\ f <= i
      /\ Window(attempted) <= Window(r) + FreeWindows - 1
  BY DatagramFacts DEF ChannelInvariant, WindowsAgree
<1>2. r \in Nat /\ r < f /\ inc = Wire(r)
  BY <1>1, OrderedFacts DEF DispatchedRight
<1>. HIDE DEF f, r, inc
<1>3. /\ Window(f) \in Nat /\ Window(i) \in Nat /\ Window(r) \in Nat /\ Window(attempted) \in Nat
      /\ Window(f) <= Window(i) /\ Window(i) <= Window(attempted)
  BY <1>1, <1>2, WindowFacts
<1>4. /\ Window(f) <= Window(r) + FreeWindows - 1
      /\ Window(i) <= Window(r) + FreeWindows - 1
  BY <1>1, <1>3, SequenceAssumption
<1>5. /\ f < r + Circle
      /\ WindowsAhead(Wire(f), inc) = Window(f) - Window(r)
      /\ Window(f) - Window(r) \in 0 .. FreeWindows - 1
  BY <1>1, <1>2, <1>4, AheadFacts
<1>6. /\ WindowsAhead(Wire(i), inc) = Window(i) - Window(r)
      /\ Window(i) - Window(r) \in 0 .. FreeWindows - 1
  <2>1. r < i
    BY <1>1, <1>2
  <2>. QED
    BY <1>1, <1>2, <1>4, <2>1, AheadFacts
<1>7. Wire(f) # inc
  BY <1>1, <1>2, <1>5, OrderOnCircle
<1>8. InReceiveWindow(Wire(f), inc) <=> Window(f) <= Window(r) + FreeWindows - 2
  <2>1. InReceiveWindow(Wire(f), inc) <=> Window(f) - Window(r) \in 0 .. FreeWindows - 2
    BY <1>5 DEF InReceiveWindow
  <2>. QED
    BY <1>3, <1>5, <2>1, SequenceAssumption
<1>9. ASSUME ~ InReceiveWindow(Wire(f), inc) PROVE IsAckRefused(Wire(i), inc)
  <2>1. Window(i) - Window(r) \in FreeWindows - 1 .. FreeWindows
    BY <1>3, <1>6, <1>8, <1>9, SequenceAssumption
  <2>. QED
    BY <1>6, <2>1 DEF IsAckRefused
<1>. QED
  BY <1>7, <1>8, <1>9 DEF f, r, inc

(* Writing a fragment into the entry of its packet.                         *)
LEMMA FragmentWritten ==
    ASSUME ChannelInvariant, NEW i \in data, Datagram(i).fragmentCount > 0,
           NEW e, IsRight(e), e.packet = commands[i]
    PROVE  LET entry == WithFragment(e, Datagram(i)) IN
           /\ IsRight(entry) /\ entry.packet = commands[i]
           /\ entry.ids = e.ids \cup {i}
           /\ entry = e \/ entry.fragments = e.fragments \cup {i - FirstOf(commands[i])}
<1>. DEFINE d == Datagram(i)
            p == commands[i]
            f == FirstOf(p)
            l == LastOf(p)
            entry == WithFragment(e, d)
<1>1. /\ i \in 1 .. attempted /\ i \in Nat /\ p \in 1 .. Len(packets)
      /\ f \in Nat /\ l \in Nat /\ f <= i /\ i <= l
      /\ d.fragmentNumber = i - f /\ d.id = i
      /\ d.fragmentCount = packets[p].fragmentCount
      /\ LaidOut
  BY DatagramFacts DEF ChannelInvariant
<1>2. /\ e \in EntryRecords /\ e.packet = p /\ e.number = Wire(f)
      /\ e.fragmentCount = packets[p].fragmentCount
      /\ e.fragments \subseteq 0 .. e.fragmentCount - 1
      /\ e.ids = (IF e.fragmentCount = 0 THEN {f}
                  ELSE {j \in f .. l : j - f \in e.fragments})
      /\ e.ids \subseteq 1 .. attempted
  BY DEF IsRight
<1>3. /\ e.fragmentCount \in Nat /\ e.fragmentCount # 0
      /\ l = f + e.fragmentCount - 1
  <2>1. packets[p].fragmentCount \in Nat /\ l = f + Span(packets[p].fragmentCount) - 1
    BY <1>1, LayoutFacts
  <2>2. packets[p].fragmentCount > 0
    BY <1>1
  <2>3. packets[p].fragmentCount # 0
    BY <2>1, <2>2
  <2>4. Span(packets[p].fragmentCount) = packets[p].fragmentCount
    BY <2>3 DEF Span
  <2>. QED
    BY <1>2, <2>1, <2>3, <2>4
<1>. HIDE DEF f, l, d
<1>4. CASE i - f \in e.fragments
  <2>1. entry = e
    BY <1>1, <1>4 DEF WithFragment
  <2>2. i \in e.ids
    BY <1>1, <1>2, <1>3, <1>4
  <2>. QED
    BY <1>2, <2>1, <2>2 DEF d
<1>5. CASE i - f \notin e.fragments
  <2>. DEFINE x == [e EXCEPT !.fragments = @ \cup {i - f}, !.ids = @ \cup {i}]
  <2>1. entry = x
    BY <1>1, <1>5 DEF WithFragment
  <2>2. i - f \in Nat /\ i - f \in 0 .. e.fragmentCount - 1
    BY <1>1, <1>3
  <2>3. x \in EntryRecords
    BY <1>1, <1>2, <2>2 DEF EntryRecords
  <2>4. /\ x.number = e.number /\ x.fragmentCount = e.fragmentCount
        /\ x.fragments = e.fragments \cup {i - f}
        /\ x.packet = e.packet /\ x.ids = e.ids \cup {i}
    BY <1>2 DEF EntryRecords
  <2>. HIDE DEF x
  <2>5. x.ids = {j \in f .. l : j - f \in x.fragments}
    <3>1. e.ids = {j \in f .. l : j - f \in e.fragments}
      BY <1>2, <1>3
    <3>2. ASSUME NEW j \in f .. l PROVE j - f = i - f <=> j = i
      BY <1>1
    <3>3. i \in f .. l
      BY <1>1
    <3>. QED
      BY <2>4, <3>1, <3>2, <3>3
  <2>6. x.ids \subseteq 1 .. attempted
    BY <1>1, <1>2, <2>4
  <2>7. x.fragments \subseteq 0 .. x.fragmentCount - 1
    BY <1>2, <2>2, <2>4
  <2>8. IsRight(x)
    BY <1>1, <1>2, <1>3, <2>3, <2>4, <2>5, <2>6, <2>7 DEF IsRight, f, l
  <2>. QED
    BY <1>2, <2>1, <2>4, <2>8 DEF d, f
<1>. QED
  BY <1>4, <1>5 DEF f

(* An entry before its first fragment is written, or with the one command   *)
(* of a packet that is not fragmented.                                      *)
LEMMA EntryStarted ==
    ASSUME ChannelInvariant, NEW i \in data
    PROVE  LET d == Datagram(i)
               started == IF d.fragmentCount = 0 THEN [Entry(d) EXCEPT !.ids = {d.id}]
                          ELSE Entry(d)
           IN  /\ IsRight(started) /\ started.packet = commands[i]
               /\ started.fragments = {}
               /\ d.fragmentCount = 0 => started.ids = {i}
<1>. DEFINE d == Datagram(i)
            p == commands[i]
            f == FirstOf(p)
            l == LastOf(p)
            x == [number |-> Wire(f), fragmentCount |-> packets[p].fragmentCount,
                  fragments |-> {}, packet |-> p,
                  ids |-> IF packets[p].fragmentCount = 0 THEN {i} ELSE {}]
            started == IF d.fragmentCount = 0 THEN [Entry(d) EXCEPT !.ids = {d.id}]
                       ELSE Entry(d)
<1>1. /\ i \in 1 .. attempted /\ i \in Nat /\ p \in 1 .. Len(packets)
      /\ f \in Nat /\ l \in Nat /\ f <= i /\ i <= l
      /\ d.start = Wire(f) /\ d.packet = p /\ d.id = i
      /\ d.fragmentCount = packets[p].fragmentCount
      /\ LaidOut
  BY DatagramFacts DEF ChannelInvariant
<1>2. /\ packets[p].fragmentCount \in Nat /\ p \in Nat
      /\ packets[p].fragmentCount = 0 => l = f
  <2>1. packets[p].fragmentCount \in Nat /\ l = f + Span(packets[p].fragmentCount) - 1
    BY <1>1, LayoutFacts
  <2>2. packets[p].fragmentCount = 0 => Span(packets[p].fragmentCount) = 1
    BY DEF Span
  <2>. QED
    BY <1>1, <2>1, <2>2
<1>3. Wire(f) \in Nat
  BY <1>1, WindowOnLine
<1>4. started = x
  BY <1>1 DEF Entry
<1>. HIDE DEF d, f, l, p, started
<1>5. x \in EntryRecords
  BY <1>1, <1>2, <1>3 DEF EntryRecords
<1>6. x.ids = (IF x.fragmentCount = 0 THEN {f} ELSE {j \in f .. l : j - f \in x.fragments})
  <2>1. CASE packets[p].fragmentCount = 0
    <3>1. i = f
      BY <1>1, <1>2, <2>1
    <3>. QED
      BY <2>1, <3>1
  <2>2. CASE packets[p].fragmentCount # 0
    <3>1. x.ids = {} /\ x.fragments = {} /\ x.fragmentCount # 0
      BY <2>2
    <3>. HIDE DEF x
    <3>. QED
      BY <3>1
  <2>. QED
    BY <2>1, <2>2
<1>7. x.ids \subseteq 1 .. attempted
  BY <1>1
<1>8. x.fragments \subseteq 0 .. x.fragmentCount - 1
  OBVIOUS
<1>9. IsRight(x)
  BY <1>1, <1>5, <1>6, <1>7, <1>8 DEF IsRight, f, l
<1>. QED
  BY <1>1, <1>4, <1>9 DEF started, d, p

(* list is the receiver's list with entry on it, in the place of one of the *)
(* same packet it extends, if there was one.                                *)
Placed(list, entry) ==
    LET old == incomingReliableCommands IN
    /\ list \in Seq(EntryRecords)
    /\ InOrder(list)
    /\ IsRight(entry)
    /\ \E k \in 1 .. Len(list) : list[k] = entry
    /\ \A k \in 1 .. Len(list) :
          list[k] = entry \/ \E j \in 1 .. Len(old) : list[k] = old[j]
    /\ \A j \in 1 .. Len(old) :
          \/ \E k \in 1 .. Len(list) : list[k] = old[j]
          \/ old[j].packet = entry.packet /\ old[j].ids \subseteq entry.ids

(* The packets on a list.                                                   *)
PacketsOn(list) == {list[k].packet : k \in 1 .. Len(list)}

(* The packets that are complete on a list.                                 *)
CompleteOn(list) ==
    {p \in 1 .. Len(packets) :
        \E k \in 1 .. Len(list) : list[k].packet = p /\ IsComplete(list[k])}

(* Nothing that was on the list is lost by placing an entry, and no packet  *)
(* but its own can become complete by it.                                   *)
LEMMA PlacedFacts ==
    ASSUME ChannelInvariant, NEW list, NEW entry, Placed(list, entry)
    PROVE  /\ IdsOf(incomingReliableCommands) \subseteq IdsOf(list)
           /\ entry.ids \subseteq IdsOf(list)
           /\ CompleteOn(list) = CompleteOn(incomingReliableCommands)
                                    \cup (IF IsComplete(entry) THEN {entry.packet} ELSE {})
           /\ PacketsOn(list) = PacketsOn(incomingReliableCommands) \cup {entry.packet}
<1>. DEFINE old == incomingReliableCommands
<1>1. LaidOut /\ \A j \in 1 .. Len(old) : IsRight(old[j])
  BY DEF ChannelInvariant, ListRight, InOrder
<1>2. PICK m \in 1 .. Len(list) : list[m] = entry
  BY DEF Placed
<1>3. entry.ids \subseteq IdsOf(list)
  BY <1>2 DEF IdsOf
<1>4. /\ \A k \in 1 .. Len(list) : list[k] = entry \/ \E j \in 1 .. Len(old) : list[k] = old[j]
      /\ \A j \in 1 .. Len(old) :
            \/ \E k \in 1 .. Len(list) : list[k] = old[j]
            \/ old[j].packet = entry.packet /\ old[j].ids \subseteq entry.ids
      /\ IsRight(entry)
  BY DEF Placed
<1>5. IdsOf(old) \subseteq IdsOf(list)
  <2>1. ASSUME NEW j \in 1 .. Len(old) PROVE old[j].ids \subseteq IdsOf(list)
    <3>1. ASSUME NEW k \in 1 .. Len(list), list[k] = old[j]
          PROVE  old[j].ids \subseteq IdsOf(list)
      BY <3>1 DEF IdsOf
    <3>. QED
      BY <1>3, <1>4, <3>1
  <2>. QED
    BY <2>1 DEF IdsOf
<1>6. entry.packet \in 1 .. Len(packets)
  BY <1>4 DEF IsRight
<1>7. ASSUME NEW j \in 1 .. Len(old), IsComplete(old[j])
      PROVE  old[j].packet \in CompleteOn(list)
  <2>1. old[j].packet \in 1 .. Len(packets)
    BY <1>1 DEF IsRight
  <2>2. ASSUME NEW k \in 1 .. Len(list), list[k] = old[j]
        PROVE  old[j].packet \in CompleteOn(list)
    BY <1>7, <2>1, <2>2 DEF CompleteOn
  <2>3. ASSUME old[j].packet = entry.packet, old[j].ids \subseteq entry.ids
        PROVE  old[j].packet \in CompleteOn(list)
    <3>1. IsComplete(entry)
      <4>1. old[j].ids = FirstOf(entry.packet) .. LastOf(entry.packet)
        BY <1>1, <1>7, <2>3, EntryFacts
      <4>2. entry.ids \subseteq FirstOf(entry.packet) .. LastOf(entry.packet)
        BY <1>1, <1>4, EntryFacts
      <4>3. entry.ids = FirstOf(entry.packet) .. LastOf(entry.packet)
        BY <2>3, <4>1, <4>2
      <4>. QED
        BY <1>1, <1>4, <4>3, EntryFacts
    <3>. QED
      BY <1>2, <2>1, <2>3, <3>1 DEF CompleteOn
  <2>. QED
    BY <1>4, <2>2, <2>3
<1>8. IsComplete(entry) => entry.packet \in CompleteOn(list)
  BY <1>2, <1>6 DEF CompleteOn
<1>9. CompleteOn(old) \subseteq CompleteOn(list)
  BY <1>7 DEF CompleteOn
<1>10. ASSUME NEW q \in CompleteOn(list)
       PROVE  q \in CompleteOn(old) \/ (IsComplete(entry) /\ q = entry.packet)
  <2>1. PICK k \in 1 .. Len(list) : list[k].packet = q /\ IsComplete(list[k])
    BY <1>10 DEF CompleteOn
  <2>2. q \in 1 .. Len(packets)
    BY <1>10 DEF CompleteOn
  <2>3. ASSUME NEW j \in 1 .. Len(old), list[k] = old[j] PROVE q \in CompleteOn(old)
    <3>1. old[j].packet = q /\ IsComplete(old[j])
      BY <2>1, <2>3
    <3>. QED
      BY <2>2, <3>1 DEF CompleteOn
  <2>. QED
    BY <1>4, <2>1, <2>3
<1>11. PacketsOn(list) = PacketsOn(old) \cup {entry.packet}
  <2>1. entry.packet \in PacketsOn(list)
    BY <1>2 DEF PacketsOn
  <2>2. ASSUME NEW k \in 1 .. Len(list)
        PROVE  list[k].packet \in PacketsOn(old) \cup {entry.packet}
    BY <1>4 DEF PacketsOn
  <2>3. ASSUME NEW j \in 1 .. Len(old) PROVE old[j].packet \in PacketsOn(list)
    <3>1. ASSUME NEW k \in 1 .. Len(list), list[k] = old[j]
          PROVE  old[j].packet \in PacketsOn(list)
      <4>1. old[j].packet = list[k].packet
        BY <3>1
      <4>. QED
        BY <4>1 DEF PacketsOn
    <3>. QED
      BY <1>4, <2>1, <3>1
  <2>4. PacketsOn(list) \subseteq PacketsOn(old) \cup {entry.packet}
    BY <2>2 DEF PacketsOn
  <2>5. PacketsOn(old) \subseteq PacketsOn(list)
    BY <2>3 DEF PacketsOn
  <2>. QED
    BY <2>1, <2>4, <2>5
<1>. QED
  BY <1>3, <1>5, <1>8, <1>9, <1>10, <1>11

(* The list still waits for its head if nothing became complete.            *)
LEMMA StillWaits ==
    ASSUME ChannelInvariant, NEW list \in Seq(EntryRecords), InOrder(list),
           \A k \in 1 .. Len(list) :
              IsComplete(list[k]) => \E j \in 1 .. Len(incomingReliableCommands) :
                                        list[k] = incomingReliableCommands[j]
    PROVE  HeadWaits(list, 0)
<1>. DEFINE old == incomingReliableCommands
<1>1. /\ LaidOut /\ DispatchedRight /\ ListRight /\ Ordered \in Nat
      /\ Len(old) \in Nat
  BY OrderedFacts, LenProperties DEF ChannelInvariant, ListRight
<1>2. SUFFICES ASSUME 0 < Len(list), list[1].packet = Ordered + 1, IsComplete(list[1])
               PROVE  FALSE
  BY <1>1 DEF HeadWaits
<1>3. 1 \in 1 .. Len(list)
  BY <1>2, LenProperties
<1>4. PICK j \in 1 .. Len(old) : list[1] = old[j]
  BY <1>2, <1>3
<1>5. j = 1
  <2>1. SUFFICES ASSUME j # 1 PROVE FALSE
    OBVIOUS
  <2>2. 1 \in 1 .. Len(old) /\ 1 < j
    BY <1>1, <2>1
  <2>3. /\ old[1].packet \in 1 .. Len(packets) /\ old[1].packet > Ordered
        /\ old[1].packet < old[j].packet
    BY <1>1, <2>2 DEF ListRight, InOrder, IsRight
  <2>. QED
    BY <1>1, <1>2, <1>4, <2>3
<1>6. 0 < Len(old)
  BY <1>1
<1>. QED
  BY <1>1, <1>2, <1>4, <1>5, <1>6 DEF ListRight, HeadWaits

(* Inserting an entry where the scan says, if the scan did not find one of  *)
(* its packet.                                                              *)
LEMMA InsertedPlaced ==
    ASSUME ChannelInvariant, NEW entry, IsRight(entry), entry.packet > Ordered,
           Window(FirstOf(entry.packet)) <= Window(OrderedTo) + FreeWindows - 2,
           ~ IsQueued(Wire(FirstOf(entry.packet)))
    PROVE  Placed(InsertAt(incomingReliableCommands,
                           ScanStop(Wire(FirstOf(entry.packet))) + 1, entry), entry)
<1>. DEFINE old == incomingReliableCommands
            p == entry.packet
            t == ScanStop(Wire(FirstOf(p)))
            list == InsertAt(old, t + 1, entry)
            n == Len(old)
<1>1. /\ LaidOut /\ DispatchedRight /\ ListRight /\ old \in Seq(EntryRecords)
      /\ entry \in EntryRecords /\ p \in 1 .. Len(packets)
  BY DEF ChannelInvariant, ListRight, IsRight
<1>2. n \in Nat /\ p \in Nat
  BY <1>1, LenProperties
<1>3. /\ t \in 0 .. n
      /\ \A k \in 1 .. n : old[k].packet <= p <=> k <= t
      /\ t # 0 => old[t].packet # p
  BY <1>1, ScanFinds
<1>4. \A k \in 1 .. n :
         /\ IsRight(old[k]) /\ old[k].packet \in Nat /\ old[k].packet > Ordered
         /\ Window(FirstOf(old[k].packet)) <= Window(OrderedTo) + FreeWindows - 2
         /\ \A j \in 1 .. n : j < k => old[j].packet < old[k].packet
  <2>1. InOrder(old)
    BY <1>1 DEF ListRight
  <2>2. \A k \in 1 .. n : IsRight(old[k]) => old[k].packet \in 1 .. Len(packets)
    BY DEF IsRight
  <2>. QED
    BY <2>1, <2>2 DEF InOrder
<1>. HIDE DEF t
<1>5. /\ list \in Seq(EntryRecords) /\ Len(list) = n + 1
      /\ \A k \in 1 .. n + 1 :
            list[k] = IF k <= t THEN old[k] ELSE IF k = t + 1 THEN entry ELSE old[k - 1]
  <2>. DEFINE T == EntryRecords
  <2>1. old \in Seq(T) /\ t \in 0 .. Len(old) /\ entry \in T
    BY <1>1, <1>3
  <2>. HIDE DEF T, old
  <2>2. /\ InsertAt(old, t + 1, entry) \in Seq(T)
        /\ Len(InsertAt(old, t + 1, entry)) = Len(old) + 1
        /\ \A k \in 1 .. Len(old) + 1 :
              InsertAt(old, t + 1, entry)[k] =
                 IF k <= t THEN old[k] ELSE IF k = t + 1 THEN entry ELSE old[k - 1]
    BY <2>1, Inserted
  <2>. QED
    BY <2>2 DEF T
<1>. HIDE DEF list, n
<1>6. \A k \in 1 .. n : k <= t => old[k].packet < p
  <2>1. SUFFICES ASSUME NEW k \in 1 .. n, k <= t PROVE old[k].packet < p
    OBVIOUS
  <2>2. t \in 1 .. n /\ old[t].packet <= p /\ old[t].packet # p
    BY <1>2, <1>3, <2>1
  <2>3. k < t => old[k].packet < old[t].packet
    BY <1>4, <2>2
  <2>. QED
    BY <1>2, <1>4, <2>1, <2>2, <2>3
<1>7. \A k \in 1 .. n : k > t => old[k].packet > p
  <2>1. SUFFICES ASSUME NEW k \in 1 .. n, k > t PROVE old[k].packet > p
    OBVIOUS
  <2>2. ~ (k <= t)
    BY <1>2, <1>3, <2>1
  <2>3. ~ (old[k].packet <= p) /\ old[k].packet \in Nat
    BY <1>3, <1>4, <2>2
  <2>. QED
    BY <1>2, <2>3
<1>8. ASSUME NEW k \in 1 .. n + 1
      PROVE  \/ k = t + 1 /\ list[k] = entry
             \/ k <= t /\ k \in 1 .. n /\ list[k] = old[k]
             \/ k > t + 1 /\ k - 1 \in 1 .. n /\ k - 1 > t /\ list[k] = old[k - 1]
  <2>1. CASE k <= t
    BY <1>2, <1>3, <1>5, <2>1
  <2>2. CASE k = t + 1
    <3>1. ~ (k <= t)
      BY <1>3, <2>2
    <3>. QED
      BY <1>5, <2>2, <3>1
  <2>3. CASE ~ (k <= t) /\ k # t + 1
    <3>1. list[k] = old[k - 1]
      BY <1>5, <2>3
    <3>2. k > t + 1 /\ k - 1 \in 1 .. n /\ k - 1 > t
      BY <1>2, <1>3, <2>3
    <3>. QED
      BY <3>1, <3>2
  <2>. QED
    BY <2>1, <2>2, <2>3
<1>9. ASSUME NEW k \in 1 .. n + 1, NEW j \in 1 .. n + 1, j < k
      PROVE  list[j].packet < list[k].packet
  <2>1. t \in Nat /\ j \in Nat /\ k \in Nat
    BY <1>2, <1>3
  <2>2. CASE k = t + 1 /\ list[k] = entry
    <3>1. j <= t /\ j \in 1 .. n /\ list[j] = old[j]
      BY <1>8, <1>9, <2>1, <2>2
    <3>. QED
      BY <1>6, <2>2, <3>1
  <2>3. CASE k <= t /\ k \in 1 .. n /\ list[k] = old[k]
    <3>1. j <= t /\ j \in 1 .. n /\ list[j] = old[j]
      BY <1>8, <1>9, <2>1, <2>3
    <3>. QED
      BY <1>4, <1>9, <2>3, <3>1
  <2>4. CASE k > t + 1 /\ k - 1 \in 1 .. n /\ k - 1 > t /\ list[k] = old[k - 1]
    <3>1. old[k - 1].packet > p /\ old[k - 1].packet \in Nat
      BY <1>4, <1>7, <2>4
    <3>2. CASE j = t + 1 /\ list[j] = entry
      BY <1>2, <2>4, <3>1, <3>2
    <3>3. CASE j <= t /\ j \in 1 .. n /\ list[j] = old[j]
      <4>1. old[j].packet < p /\ old[j].packet \in Nat
        BY <1>4, <1>6, <3>3
      <4>. QED
        BY <1>2, <2>4, <3>1, <3>3, <4>1
    <3>4. CASE j > t + 1 /\ j - 1 \in 1 .. n /\ list[j] = old[j - 1]
      <4>1. j - 1 < k - 1
        BY <1>9, <2>1
      <4>. QED
        BY <1>4, <2>4, <3>4, <4>1
    <3>. QED
      BY <1>8, <3>2, <3>3, <3>4
  <2>. QED
    BY <1>8, <2>2, <2>3, <2>4
<1>10. ASSUME NEW k \in 1 .. n + 1
       PROVE  /\ IsRight(list[k]) /\ list[k].packet > Ordered
              /\ Window(FirstOf(list[k].packet)) <= Window(OrderedTo) + FreeWindows - 2
              /\ list[k] = entry \/ \E j \in 1 .. n : list[k] = old[j]
  <2>1. CASE list[k] = entry
    BY <2>1
  <2>2. ASSUME NEW j \in 1 .. n, list[k] = old[j]
        PROVE  /\ IsRight(list[k]) /\ list[k].packet > Ordered
               /\ Window(FirstOf(list[k].packet)) <= Window(OrderedTo) + FreeWindows - 2
    BY <1>4, <2>2
  <2>. QED
    BY <1>8, <2>1, <2>2
<1>11. InOrder(list)
  BY <1>5, <1>9, <1>10 DEF InOrder
<1>12. t + 1 \in 1 .. n + 1 /\ list[t + 1] = entry
  <2>1. t + 1 \in 1 .. n + 1 /\ ~ (t + 1 <= t)
    BY <1>2, <1>3
  <2>. QED
    BY <1>5, <2>1
<1>13. ASSUME NEW j \in 1 .. n PROVE \E k \in 1 .. n + 1 : list[k] = old[j]
  <2>1. CASE j <= t
    <3>1. j \in 1 .. n + 1
      BY <1>2
    <3>. QED
      BY <1>5, <2>1, <3>1
  <2>2. CASE ~ (j <= t)
    <3>1. j + 1 \in 1 .. n + 1 /\ ~ (j + 1 <= t) /\ j + 1 # t + 1 /\ (j + 1) - 1 = j
      BY <1>2, <1>3, <2>2
    <3>. QED
      BY <1>5, <3>1
  <2>. QED
    BY <2>1, <2>2
<1>. QED
  BY <1>5, <1>10, <1>11, <1>12, <1>13 DEF Placed, list, t, n

(* Putting an entry in the place of the one of its packet that the scan     *)
(* found, if it has all that one had.                                       *)
LEMMA ReplacedPlaced ==
    ASSUME ChannelInvariant, NEW k \in 1 .. Len(incomingReliableCommands),
           NEW entry, IsRight(entry),
           entry.packet = incomingReliableCommands[k].packet,
           incomingReliableCommands[k].ids \subseteq entry.ids
    PROVE  Placed(ReplaceAt(incomingReliableCommands, k, entry), entry)
<1>. DEFINE old == incomingReliableCommands
            list == ReplaceAt(old, k, entry)
<1>1. old \in Seq(EntryRecords) /\ entry \in EntryRecords /\ InOrder(old)
  BY DEF ChannelInvariant, ListRight, IsRight
<1>2. /\ list \in Seq(EntryRecords) /\ Len(list) = Len(old)
      /\ \A j \in 1 .. Len(old) : list[j] = IF j = k THEN entry ELSE old[j]
  <2>1. list = [old EXCEPT ![k] = entry]
    BY DEF ReplaceAt
  <2>. HIDE DEF list
  <2>. QED
    BY <1>1, <2>1, ExceptSeq
<1>. HIDE DEF list
<1>3. \A j \in 1 .. Len(old) : list[j].packet = old[j].packet /\ IsRight(list[j])
  BY <1>1, <1>2 DEF InOrder
<1>4. InOrder(list)
  <2>1. \A j \in 1 .. Len(old) :
           FirstOf(list[j].packet) = FirstOf(old[j].packet)
    BY <1>3
  <2>. QED
    BY <1>1, <1>2, <1>3, <2>1 DEF InOrder
<1>. QED
  BY <1>1, <1>2, <1>4 DEF Placed, list

(* totalWaitingData grows by the space of the packet of command i when the  *)
(* list is the first to hold it, and is left alone otherwise.               *)
Accounted(i, list) ==
    LET old == PacketsOn(incomingReliableCommands) IN
    \/ totalWaitingData' = totalWaitingData /\ PacketsOn(list) = old
    \/ /\ totalWaitingData' = totalWaitingData + Span(packets[commands[i]].fragmentCount)
       /\ PacketsOn(list) = old \cup {commands[i]}
       /\ commands[i] \notin old
       /\ commands[i] > Ordered

(* What a datagram comes to: a list of which the first n packets are        *)
(* dispatched, and perhaps an acknowledgement of what is stored.            *)
Outcome(i, list, n) ==
    /\ list \in Seq(EntryRecords)
    /\ InOrder(list)
    /\ n \in 0 .. Len(list)
    /\ Moved(list, n)
    /\ IdsOf(incomingReliableCommands) \subseteq IdsOf(list)
    /\ \/ CompleteOn(list) = CompleteOn(incomingReliableCommands)
       \/ CompleteOn(list) = CompleteOn(incomingReliableCommands) \cup {commands[i]}
    /\ \/ acknowledgements' = acknowledgements
       \/ /\ acknowledgements' = acknowledgements \cup {i}
          /\ ~ IsAckRefused(Wire(i), incomingReliableSequenceNumber')
          /\ i \in IdsOf(list) \/ commands[i] <= Ordered
    /\ Accounted(i, list)
    /\ UNCHANGED received

(* A datagram that is not stored is only acknowledged if what it carries    *)
(* has been stored before.                                                  *)
LEMMA OutcomeIgnored ==
    ASSUME ChannelInvariant, NEW i \in data,
           UNCHANGED <<incomingReliableSequenceNumber, incomingReliableCommands,
                       dispatchedCommands, totalWaitingData, received>>,
           QueueAcknowledgement(Datagram(i)),
           \/ IsAckRefused(Wire(i), incomingReliableSequenceNumber)
           \/ i \in IdsOf(incomingReliableCommands)
           \/ commands[i] <= Ordered
    PROVE  \E list, n : Outcome(i, list, n)
<1>. DEFINE list == incomingReliableCommands
<1>1. DispatchedRight /\ list \in Seq(EntryRecords) /\ InOrder(list) /\ HeadWaits(list, 0)
  BY DEF ChannelInvariant, ListRight
<1>2. 0 \in 0 .. Len(list) /\ Moved(list, 0)
  BY <1>1, NothingMoved
<1>3. acknowledgements' = IF IsAckRefused(Wire(i), incomingReliableSequenceNumber')
                            THEN acknowledgements ELSE acknowledgements \cup {i}
  BY DatagramFacts DEF QueueAcknowledgement
<1>4. Outcome(i, list, 0)
  BY <1>1, <1>2, <1>3 DEF Outcome, Accounted
<1>. QED
  BY <1>4

(* A datagram that is stored in the entry of its packet: the list with that *)
(* entry is dispatched, or kept when the entry is not newly complete.       *)
LEMMA OutcomeStored ==
    ASSUME ChannelInvariant, NEW i \in data, NEW list, NEW entry,
           Placed(list, entry), entry.packet = commands[i], i \in entry.ids,
           \/ Dispatch(list)
           \/ /\ incomingReliableCommands' = list
              /\ UNCHANGED <<incomingReliableSequenceNumber, dispatchedCommands>>
              /\ IsComplete(entry) => \E j \in 1 .. Len(incomingReliableCommands) :
                                         entry = incomingReliableCommands[j],
           \/ UNCHANGED totalWaitingData /\ commands[i] \in PacketsOn(incomingReliableCommands)
           \/ /\ totalWaitingData' = totalWaitingData
                                       + Span(packets[commands[i]].fragmentCount)
              /\ commands[i] \notin PacketsOn(incomingReliableCommands)
              /\ commands[i] > Ordered,
           QueueAcknowledgement(Datagram(i)), UNCHANGED received
    PROVE  \E l, n : Outcome(i, l, n)
<1>1. /\ LaidOut /\ DispatchedRight /\ list \in Seq(EntryRecords) /\ InOrder(list)
  BY DEF ChannelInvariant, Placed
<1>2. \E n \in 0 .. Len(list) : Moved(list, n)
  <2>1. CASE Dispatch(list)
    BY <1>1, <2>1, DispatchFacts
  <2>2. ASSUME incomingReliableCommands' = list,
               UNCHANGED <<incomingReliableSequenceNumber, dispatchedCommands>>,
               IsComplete(entry) => \E j \in 1 .. Len(incomingReliableCommands) :
                                       entry = incomingReliableCommands[j]
        PROVE  \E n \in 0 .. Len(list) : Moved(list, n)
    <3>1. ASSUME NEW k \in 1 .. Len(list), IsComplete(list[k])
          PROVE  \E j \in 1 .. Len(incomingReliableCommands) :
                    list[k] = incomingReliableCommands[j]
      <4>1. list[k] = entry \/ \E j \in 1 .. Len(incomingReliableCommands) :
                                  list[k] = incomingReliableCommands[j]
        BY DEF Placed
      <4>. QED
        BY <2>2, <3>1, <4>1
    <3>2. HeadWaits(list, 0)
      BY <1>1, <3>1, StillWaits
    <3>3. 0 \in 0 .. Len(list) /\ Moved(list, 0)
      BY <1>1, <2>2, <3>2, NothingMoved
    <3>. QED
      BY <3>3
  <2>. QED
    BY <2>1, <2>2
<1>3. PICK n \in 0 .. Len(list) : Moved(list, n)
  BY <1>2
<1>4. /\ IdsOf(incomingReliableCommands) \subseteq IdsOf(list)
      /\ entry.ids \subseteq IdsOf(list)
      /\ CompleteOn(list) = CompleteOn(incomingReliableCommands)
                               \cup (IF IsComplete(entry) THEN {entry.packet} ELSE {})
      /\ PacketsOn(list) = PacketsOn(incomingReliableCommands) \cup {entry.packet}
  BY PlacedFacts
<1>5. acknowledgements' = IF IsAckRefused(Wire(i), incomingReliableSequenceNumber')
                            THEN acknowledgements ELSE acknowledgements \cup {i}
  BY DatagramFacts DEF QueueAcknowledgement
<1>6. Accounted(i, list)
  BY <1>4 DEF Accounted
<1>7. Outcome(i, list, n)
  BY <1>1, <1>3, <1>4, <1>5, <1>6 DEF Outcome
<1>. QED
  BY <1>7

(* The four outcomes of a datagram in enet_protocol_handle_send_reliable    *)
(* and enet_protocol_handle_send_fragment.                                  *)
LEMMA ReceiveOutcome ==
    ASSUME ChannelInvariant, NEW i \in data, ReceiveCommand(Datagram(i))
    PROVE  \E list, n : Outcome(i, list, n)
<1>. DEFINE d == Datagram(i)
            p == commands[i]
            f == FirstOf(p)
            inc == incomingReliableSequenceNumber
            old == incomingReliableCommands
            place == InsertAt(old, ScanStop(d.start) + 1,
                              IF d.fragmentCount = 0 THEN [Entry(d) EXCEPT !.ids = {d.id}]
                              ELSE WithFragment(Entry(d), d))
<1>1. /\ LaidOut /\ DispatchedRight /\ ListRight /\ p \in 1 .. Len(packets)
      /\ d.start = Wire(f) /\ d.fragmentCount = packets[p].fragmentCount
      /\ d.fragmentCount \in Nat /\ Ordered \in Nat
      /\ i \in FirstOf(p) .. LastOf(p)
      /\ d.id = i /\ d.packet = p /\ d.fragmentNumber = i - f
      /\ f \in Nat /\ i \in Nat
  <2>1. LaidOut /\ DispatchedRight /\ ListRight
    BY DEF ChannelInvariant
  <2>2. /\ i \in Ids /\ p \in 1 .. Len(packets)
        /\ f <= i /\ i <= LastOf(p) /\ f \in Nat /\ LastOf(p) \in Nat
        /\ d.start = Wire(f) /\ d.fragmentCount = packets[p].fragmentCount
        /\ d.id = i /\ d.packet = p /\ d.fragmentNumber = i - f
    BY DatagramFacts
  <2>3. packets[p].fragmentCount \in Nat /\ i \in Nat /\ Ordered \in Nat
    BY <2>1, <2>2, LayoutFacts, OrderedFacts
  <2>4. i \in FirstOf(p) .. LastOf(p)
    BY <2>2, <2>3
  <2>. HIDE DEF d
  <2>. QED
    BY <2>1, <2>2, <2>3, <2>4
<1>2. p <= Ordered => ~ InReceiveWindow(d.start, inc) \/ (d.start = inc /\ ~ IsQueued(d.start))
  BY <1>1, OldCommand
<1>3. p > Ordered =>
         /\ d.start # inc
         /\ InReceiveWindow(d.start, inc) <=> Window(f) <= Window(OrderedTo) + FreeWindows - 2
         /\ ~ InReceiveWindow(d.start, inc) => IsAckRefused(Wire(i), inc)
  BY <1>1, AheadCommand
<1>4. p <= Ordered \/ p > Ordered
  BY <1>1
<1>5. ASSUME InReceiveWindow(d.start, inc), d.start # inc \/ IsQueued(d.start)
      PROVE  /\ p > Ordered
             /\ Window(f) <= Window(OrderedTo) + FreeWindows - 2
             /\ LET t == ScanStop(d.start) IN
                /\ t \in 0 .. Len(old)
                /\ \A k \in 1 .. Len(old) : old[k].packet <= p <=> k <= t
                /\ IsQueued(d.start) <=> (t # 0 /\ old[t].packet = p)
  <2>1. p > Ordered
    BY <1>2, <1>4, <1>5
  <2>2. Window(f) <= Window(OrderedTo) + FreeWindows - 2
    BY <1>3, <1>5, <2>1
  <2>. QED
    BY <1>1, <2>1, <2>2, ScanFinds
<1>6. ASSUME ~ IsDiscarded(d), NEW entry, IsRight(entry), entry.packet = p
      PROVE  Placed(InsertAt(old, ScanStop(d.start) + 1, entry), entry)
  <2>1. InReceiveWindow(d.start, inc) /\ d.start # inc /\ ~ IsQueued(d.start)
    BY <1>6 DEF IsDiscarded
  <2>2. p > Ordered /\ Window(f) <= Window(OrderedTo) + FreeWindows - 2
    BY <1>5, <2>1
  <2>. QED
    BY <1>1, <1>6, <2>1, <2>2, InsertedPlaced
<1>7. ~ IsDiscarded(d) => p \notin PacketsOn(old) /\ p > Ordered
  <2>1. SUFFICES ASSUME ~ IsDiscarded(d), NEW k \in 1 .. Len(old), old[k].packet = p
                 PROVE  FALSE
    BY <1>5 DEF IsDiscarded, PacketsOn
  <2>. DEFINE t == ScanStop(d.start)
  <2>2. /\ t \in 0 .. Len(old)
        /\ \A j \in 1 .. Len(old) : old[j].packet <= p <=> j <= t
        /\ ~ (t # 0 /\ old[t].packet = p)
    BY <1>5, <2>1 DEF IsDiscarded
  <2>. HIDE DEF t
  <2>3. Len(old) \in Nat /\ p \in Nat
    BY <1>1, LenProperties DEF ListRight
  <2>4. t \in 1 .. Len(old) /\ k < t /\ old[t].packet <= p
    BY <2>1, <2>2, <2>3
  <2>5. old[k].packet < old[t].packet /\ old[t].packet \in 1 .. Len(packets)
    BY <1>1, <2>4 DEF ListRight, InOrder, IsRight
  <2>. QED
    BY <2>1, <2>3, <2>4, <2>5
<1>8. CASE ReceiveReliable(d)
  <2>1. d.fragmentCount = 0 /\ QueueAcknowledgement(d) /\ UNCHANGED received
    BY <1>8 DEF ReceiveReliable
  <2>2. CASE IsDiscarded(d) /\ UNCHANGED <<inc, old, dispatchedCommands, totalWaitingData>>
    <3>1. CASE ~ InReceiveWindow(d.start, inc)
      <4>1. IsAckRefused(Wire(i), inc) \/ p <= Ordered
        BY <1>3, <1>4, <3>1
      <4>. QED
        BY <2>1, <2>2, <4>1, OutcomeIgnored
    <3>2. CASE InReceiveWindow(d.start, inc) /\ d.start = inc /\ ~ IsQueued(d.start)
      <4>1. p <= Ordered
        BY <1>3, <1>4, <3>2
      <4>. QED
        BY <2>1, <2>2, <4>1, OutcomeIgnored
    <3>3. CASE InReceiveWindow(d.start, inc) /\ IsQueued(d.start)
      <4>. DEFINE t == ScanStop(d.start)
      <4>1. t \in 0 .. Len(old) /\ t # 0 /\ old[t].packet = p
        BY <1>5, <3>3
      <4>. HIDE DEF t
      <4>2. t \in 1 .. Len(old)
        <5>1. Len(old) \in Nat
          BY <1>1, LenProperties DEF ListRight
        <5>. QED
          BY <4>1, <5>1
      <4>3. IsRight(old[t])
        BY <1>1, <4>2 DEF ListRight, InOrder
      <4>4. old[t].ids = {f} /\ i = f
        <5>1. old[t].fragmentCount = 0
          BY <1>1, <2>1, <4>1, <4>3 DEF IsRight
        <5>2. old[t].ids = {f}
          BY <4>1, <4>3, <5>1 DEF IsRight
        <5>3. LastOf(p) = f + 1 - 1
          <6>1. Span(packets[p].fragmentCount) = 1
            BY <1>1, <2>1 DEF Span
          <6>. QED
            BY <6>1 DEF LastOf, FirstOf
        <5>4. i = f
          <6>. HIDE DEF f
          <6>. QED
            BY <1>1, <5>3 DEF f
        <5>. QED
          BY <5>2, <5>4
      <4>5. i \in IdsOf(old)
        BY <4>2, <4>4 DEF IdsOf
      <4>. QED
        BY <2>1, <2>2, <4>5, OutcomeIgnored
    <3>. QED
      BY <2>2, <3>1, <3>2, <3>3 DEF IsDiscarded
  <2>3. CASE /\ ~ IsDiscarded(d) /\ totalWaitingData' = totalWaitingData + 1
             /\ Dispatch(InsertAt(old, ScanStop(d.start) + 1,
                                  [Entry(d) EXCEPT !.ids = {d.id}]))
    <3>. DEFINE entry == [Entry(d) EXCEPT !.ids = {d.id}]
                list == InsertAt(old, ScanStop(d.start) + 1, entry)
    <3>1. IsRight(entry) /\ entry.packet = p /\ entry.ids = {i}
      BY <2>1, EntryStarted
    <3>. HIDE DEF entry
    <3>2. Placed(list, entry)
      BY <1>6, <2>3, <3>1
    <3>3. Dispatch(list)
      BY <2>3 DEF entry
    <3>. HIDE DEF list
    <3>4. i \in entry.ids
      BY <3>1
    <3>5. /\ totalWaitingData' = totalWaitingData + Span(packets[p].fragmentCount)
          /\ p \notin PacketsOn(old) /\ p > Ordered
      BY <1>1, <1>7, <2>1, <2>3 DEF Span
    <3>. QED
      BY <2>1, <3>1, <3>2, <3>3, <3>4, <3>5, OutcomeStored
  <2>. QED
    BY <1>8, <2>2, <2>3 DEF ReceiveReliable
<1>9. CASE IgnoreFragment(d)
  <2>1. /\ ~ InReceiveWindow(d.start, inc)
        /\ UNCHANGED <<inc, old, dispatchedCommands, totalWaitingData, received>>
        /\ QueueAcknowledgement(d)
    BY <1>9 DEF IgnoreFragment
  <2>2. IsAckRefused(Wire(i), inc) \/ p <= Ordered
    BY <1>3, <1>4, <2>1
  <2>. QED
    BY <2>1, <2>2, OutcomeIgnored
<1>10. CASE AddFragment(d)
  <2>. DEFINE t == ScanStop(d.start)
              entry == WithFragment(old[t], d)
              list == ReplaceAt(old, t, entry)
  <2>1. /\ d.fragmentCount > 0 /\ InReceiveWindow(d.start, inc) /\ IsQueued(d.start)
        /\ QueueAcknowledgement(d) /\ UNCHANGED <<totalWaitingData, received>>
        /\ IF entry # old[t] /\ IsComplete(entry)
             THEN Dispatch(list)
             ELSE /\ incomingReliableCommands' = list
                  /\ UNCHANGED <<incomingReliableSequenceNumber, dispatchedCommands>>
    BY <1>10 DEF AddFragment
  <2>2. t \in 0 .. Len(old) /\ t # 0 /\ old[t].packet = p
    BY <1>5, <2>1
  <2>. HIDE DEF t
  <2>3. t \in 1 .. Len(old)
    <3>1. Len(old) \in Nat
      BY <1>1, LenProperties DEF ListRight
    <3>. QED
      BY <2>2, <3>1
  <2>4. IsRight(old[t])
    BY <1>1, <2>3 DEF ListRight, InOrder
  <2>5. IsRight(entry) /\ entry.packet = p /\ entry.ids = old[t].ids \cup {i}
    BY <2>1, <2>2, <2>4, FragmentWritten
  <2>. HIDE DEF entry
  <2>6. Placed(list, entry)
    <3>1. old[t].ids \subseteq entry.ids /\ entry.packet = old[t].packet
      BY <2>2, <2>5
    <3>. QED
      BY <2>3, <2>5, <3>1, ReplacedPlaced
  <2>. HIDE DEF list
  <2>7. \/ Dispatch(list)
        \/ /\ incomingReliableCommands' = list
           /\ UNCHANGED <<incomingReliableSequenceNumber, dispatchedCommands>>
           /\ IsComplete(entry) => \E j \in 1 .. Len(old) : entry = old[j]
    BY <2>1, <2>3
  <2>8. i \in entry.ids
    BY <2>5
  <2>9. UNCHANGED totalWaitingData /\ p \in PacketsOn(old)
    BY <2>1, <2>2, <2>3 DEF PacketsOn
  <2>. QED
    BY <2>1, <2>5, <2>6, <2>7, <2>8, <2>9, OutcomeStored
<1>11. CASE StartFragments(d)
  <2>. DEFINE entry == WithFragment(Entry(d), d)
              list == InsertAt(old, ScanStop(d.start) + 1, entry)
  <2>1. /\ d.fragmentCount > 0 /\ ~ IsDiscarded(d)
        /\ QueueAcknowledgement(d) /\ UNCHANGED received
        /\ totalWaitingData' = totalWaitingData + d.fragmentCount
        /\ IF d.fragmentCount = 1
             THEN Dispatch(list)
             ELSE /\ incomingReliableCommands' = list
                  /\ UNCHANGED <<incomingReliableSequenceNumber, dispatchedCommands>>
    BY <1>11 DEF StartFragments
  <2>2. d.fragmentCount # 0
    BY <1>1, <2>1
  <2>3. IsRight(Entry(d)) /\ Entry(d).packet = p /\ Entry(d).fragments = {}
    BY <2>2, EntryStarted
  <2>4. /\ IsRight(entry) /\ entry.packet = p /\ entry.ids = Entry(d).ids \cup {i}
        /\ entry = Entry(d) \/ entry.fragments = Entry(d).fragments \cup {i - f}
    BY <2>1, <2>3, FragmentWritten
  <2>5. entry.fragments = {i - f}
    <3>1. i - f \notin Entry(d).fragments
      BY <2>3
    <3>2. entry # Entry(d)
      <4>1. Entry(d).ids = {}
        BY DEF Entry
      <4>. QED
        BY <2>4, <4>1
    <3>. HIDE DEF entry
    <3>. QED
      BY <2>3, <2>4, <3>2
  <2>6. Placed(list, entry)
    BY <1>6, <2>1, <2>4
  <2>7. d.fragmentCount # 1 => ~ IsComplete(entry)
    <3>1. entry.fragmentCount = d.fragmentCount
      BY <1>1, <2>4 DEF IsRight
    <3>2. Cardinality(entry.fragments) = 1
      BY <2>5, FS_Singleton
    <3>. HIDE DEF entry, d
    <3>. QED
      BY <2>2, <3>1, <3>2 DEF IsComplete
  <2>. HIDE DEF entry, list
  <2>8. i \in entry.ids
    BY <2>4
  <2>9. /\ totalWaitingData' = totalWaitingData + Span(packets[p].fragmentCount)
        /\ p \notin PacketsOn(old) /\ p > Ordered
    BY <1>1, <1>7, <2>1, <2>2 DEF Span
  <2>. QED
    BY <2>1, <2>4, <2>6, <2>7, <2>8, <2>9, OutcomeStored
<1>. QED
  BY <1>8, <1>9, <1>10, <1>11 DEF ReceiveCommand

-----------------------------------------------------------------------------
(* The invariant, step by step.                                             *)

(* Nothing has been sent and nothing has arrived.                           *)
LEMMA ChannelInitially == Init => ChannelInvariant
<1>. SUFFICES ASSUME Init PROVE ChannelInvariant
  OBVIOUS
<1>1. /\ packets = <<>> /\ commands = <<>> /\ attempted = 0
      /\ expired = {} /\ sentReliableCommands = {}
      /\ incomingReliableSequenceNumber = 0
      /\ incomingReliableCommands = <<>> /\ dispatchedCommands = <<>>
      /\ received = <<>> /\ acknowledgements = {} /\ data = {} /\ acks = {}
  BY DEF Init, SenderInit, ReceiverInit
<1>2. LaidOut
  BY <1>1 DEF LaidOut, Ids
<1>3. Ordered = 0 /\ OrderedTo = 0
  BY <1>1 DEF Ordered, OrderedTo
<1>4. Wire(0) = 0 /\ Window(0) = 0
  <2>1. Circle \in Nat \ {0} /\ WindowSize \in Nat \ {0}
    BY CircleFacts, SequenceAssumption
  <2>2. 0 = Circle * 0 + 0 /\ 0 = WindowSize * 0 + 0
        /\ 0 \in 0 .. Circle - 1 /\ 0 \in 0 .. WindowSize - 1
    BY <2>1
  <2>3. 0 % Circle = 0 /\ 0 \div WindowSize = 0
    BY <2>1, <2>2, DivisionUnique
  <2>. QED
    BY <2>3 DEF Wire, Window
<1>5. DispatchedRight
  BY <1>1, <1>3, <1>4 DEF DispatchedRight
<1>6. ListRight
  BY <1>1 DEF ListRight, InOrder, HeadWaits
<1>7. NetworkRight
  BY <1>1 DEF NetworkRight
<1>8. Confirming = {}
  BY <1>1 DEF Confirming
<1>9. WindowsAgree
  BY <1>1, <1>3, <1>4, <1>8, SequenceAssumption DEF WindowsAgree
<1>. QED
  BY <1>1, <1>2, <1>5, <1>6, <1>7, <1>8, <1>9 DEF ChannelInvariant

(* A step in which the receiver does nothing but send its acknowledgements, *)
(* and nothing new is acknowledged.                                         *)
LEMMA QuietStep ==
    ASSUME ChannelInvariant, SenderGrows, LaidOut', attempted' <= Len(commands'),
           UNCHANGED <<incomingReliableSequenceNumber, incomingReliableCommands,
                       dispatchedCommands, received>>,
           NetworkRight', Confirming' \subseteq Confirming,
           Window(attempted') <= Window(OrderedTo) + FreeWindows - 1
    PROVE  ChannelInvariant'
<1>1. /\ LaidOut /\ DispatchedRight /\ ListRight /\ Confirming \subseteq Stored /\ WindowsAgree
      /\ Ordered \in Nat /\ Ordered <= Len(packets) /\ OrderedTo \in Nat
      /\ Len(packets) \in Nat
  BY OrderedFacts, LayoutFacts DEF ChannelInvariant
<1>2. /\ \A p \in 1 .. Len(packets) :
            /\ p \in 1 .. Len(packets')
            /\ FirstOf(p)' = FirstOf(p) /\ LastOf(p)' = LastOf(p)
      /\ \A i \in Ids : i \in Ids' /\ commands'[i] = commands[i]
      /\ \A e : IsRight(e) => IsRight(e)'
  BY <1>1, RightLater
<1>3. Ordered' = Ordered
  BY DEF Ordered
<1>4. OrderedTo' = OrderedTo
  <2>1. OrderedTo' = IF Ordered = 0 THEN 0 ELSE LastOf(Ordered)'
    BY <1>3 DEF OrderedTo, LastOf
  <2>2. Ordered # 0 => Ordered \in 1 .. Len(packets)
    BY <1>1
  <2>3. Ordered # 0 => packets'[Ordered].first = packets[Ordered].first
                       /\ packets'[Ordered].fragmentCount = packets[Ordered].fragmentCount
    BY <2>2 DEF SenderGrows
  <2>4. Ordered # 0 => LastOf(Ordered)' = LastOf(Ordered)
    BY <1>3, <2>3 DEF LastOf
  <2>. QED
    BY <2>1, <2>4 DEF OrderedTo
<1>5. DispatchedRight'
  <2>1. OrderedTo' <= attempted' /\ Ordered' <= Len(packets')
    <3>1. OrderedTo <= attempted
      BY <1>1 DEF DispatchedRight
    <3>. QED
      BY <1>1, <1>3, <1>4, <3>1 DEF SenderGrows
  <2>2. ASSUME NEW k \in 1 .. Len(dispatchedCommands')
        PROVE  /\ dispatchedCommands'[k].packet = Len(received') + k
               /\ IsRight(dispatchedCommands[k])'
    <3>1. /\ dispatchedCommands[k].packet = Len(received) + k
          /\ IsRight(dispatchedCommands[k])
      BY <1>1 DEF DispatchedRight
    <3>2. dispatchedCommands'[k] = dispatchedCommands[k]
      OBVIOUS
    <3>3. IsRight(dispatchedCommands[k])'
      BY <1>2, <3>1, <3>2 DEF IsRight, FirstOf, LastOf
    <3>. QED
      BY <3>1, <3>3
  <2>3. ASSUME NEW p \in 1 .. Ordered'
        PROVE  Span(packets'[p].fragmentCount) < FreeWindows * WindowSize
    <3>1. p \in 1 .. Ordered /\ p \in 1 .. Len(packets)
      BY <1>1, <1>3
    <3>2. packets'[p].fragmentCount = packets[p].fragmentCount
      BY <3>1 DEF SenderGrows
    <3>. QED
      BY <1>1, <3>1, <3>2 DEF DispatchedRight
  <2>. QED
    BY <1>1, <1>4, <2>1, <2>2, <2>3 DEF DispatchedRight
<1>6. ListRight'
  <2>1. ASSUME NEW k \in 1 .. Len(incomingReliableCommands')
        PROVE  /\ IsRight(incomingReliableCommands[k])'
               /\ incomingReliableCommands'[k].packet > Ordered'
               /\ Window(FirstOf(incomingReliableCommands[k].packet))'
                     <= Window(OrderedTo)' + FreeWindows - 2
               /\ \A j \in 1 .. Len(incomingReliableCommands') :
                     j < k => incomingReliableCommands'[j].packet
                                 < incomingReliableCommands'[k].packet
    <3>. DEFINE e == incomingReliableCommands[k]
    <3>1. /\ IsRight(e) /\ e.packet \in 1 .. Len(packets) /\ e.packet > Ordered
          /\ Window(FirstOf(e.packet)) <= Window(OrderedTo) + FreeWindows - 2
          /\ \A j \in 1 .. Len(incomingReliableCommands) :
                j < k => incomingReliableCommands[j].packet < e.packet
      BY <1>1 DEF ListRight, InOrder, IsRight
    <3>2. incomingReliableCommands'[k] = incomingReliableCommands[k]
      OBVIOUS
    <3>3. IsRight(incomingReliableCommands[k])'
      BY <1>2, <3>1, <3>2 DEF IsRight, FirstOf, LastOf
    <3>4. packets'[e.packet].first = packets[e.packet].first
      BY <3>1 DEF SenderGrows
    <3>5. FirstOf(incomingReliableCommands[k].packet)' = FirstOf(e.packet)
      BY <3>4 DEF FirstOf
    <3>6. Window(FirstOf(incomingReliableCommands[k].packet))' = Window(FirstOf(e.packet))
      BY <3>5 DEF Window
    <3>7. Window(OrderedTo)' = Window(OrderedTo)
      BY <1>4 DEF Window
    <3>. QED
      BY <1>3, <3>1, <3>3, <3>6, <3>7
  <2>2. HeadWaits(incomingReliableCommands, 0)'
    BY <1>1, <1>3 DEF ListRight, HeadWaits, IsComplete
  <2>. QED
    BY <1>1, <2>1, <2>2 DEF ListRight, InOrder
<1>7. Stored \subseteq Stored'
  <2>1. IdsOf(incomingReliableCommands)' = IdsOf(incomingReliableCommands)
    BY DEF IdsOf
  <2>2. ASSUME NEW i \in Ids, commands[i] <= Ordered PROVE i \in Ids' /\ commands'[i] <= Ordered'
    BY <1>2, <1>3, <2>2
  <2>. QED
    BY <2>1, <2>2 DEF Stored
<1>8. WindowsAgree'
  <2>1. \A i \in Confirming' : Window(i) <= Window(OrderedTo) + FreeWindows - 2
    BY <1>1 DEF WindowsAgree
  <2>. QED
    BY <1>4, <2>1 DEF WindowsAgree, Window
<1>9. attempted' \in 0 .. Len(commands')
  BY DEF SenderGrows
<1>10. Confirming' \subseteq Stored'
  BY <1>1, <1>7
<1>. QED
  BY <1>5, <1>6, <1>8, <1>9, <1>10 DEF ChannelInvariant

(* An acknowledgement changes the counters of a packet, never its place.    *)
LEMMA SamePlaces ==
    ASSUME LaidOut, attempted \in Nat, UNCHANGED <<commands, attempted>>,
           packets' \in Seq(PacketRecords), Len(packets') = Len(packets),
           \A p \in 1 .. Len(packets) :
              /\ packets'[p].first = packets[p].first
              /\ packets'[p].fragmentCount = packets[p].fragmentCount
    PROVE  SenderGrows /\ LaidOut'
<1>1. Len(packets) \in Nat /\ Len(commands) \in Nat
  BY LayoutFacts
<1>2. SenderGrows
  BY <1>1 DEF SenderGrows, Ids
<1>3. \A p \in 1 .. Len(packets) : FirstOf(p)' = FirstOf(p) /\ LastOf(p)' = LastOf(p)
  BY <1>2, RightLater
<1>4. ASSUME NEW p \in 1 .. Len(packets')
      PROVE  /\ FirstOf(p)' = (IF p = 1 THEN 1 ELSE LastOf(p - 1)' + 1)
             /\ LastOf(p)' <= Len(commands')
             /\ \A i \in Ids' : commands'[i] = p <=> i \in FirstOf(p)' .. LastOf(p)'
             /\ \A q \in 1 .. Len(packets') : p < q => LastOf(p)' < FirstOf(q)'
  <2>1. /\ FirstOf(p) = (IF p = 1 THEN 1 ELSE LastOf(p - 1) + 1)
        /\ LastOf(p) <= Len(commands)
        /\ \A i \in Ids : commands[i] = p <=> i \in FirstOf(p) .. LastOf(p)
        /\ \A q \in 1 .. Len(packets) : p < q => LastOf(p) < FirstOf(q)
    BY DEF LaidOut
  <2>2. p # 1 => p - 1 \in 1 .. Len(packets)
    BY <1>1
  <2>. QED
    BY <1>3, <2>1, <2>2 DEF Ids
<1>5. Len(commands') = (IF Len(packets') = 0 THEN 0 ELSE LastOf(Len(packets)))
  BY DEF LaidOut
<1>6. Len(packets') # 0 => LastOf(Len(packets))' = LastOf(Len(packets))
  <2>1. Len(packets) # 0 => Len(packets) \in 1 .. Len(packets)
    BY <1>1
  <2>2. Len(packets) # 0 => LastOf(Len(packets))' = LET p == Len(packets) IN
                                packets'[p].first + Span(packets'[p].fragmentCount) - 1
    BY DEF LastOf
  <2>. QED
    BY <2>1, <2>2 DEF LastOf
<1>7. LaidOut'
  BY <1>4, <1>5, <1>6 DEF LaidOut
<1>. QED
  BY <1>2, <1>7

(* A new packet takes the commands after all others.                        *)
LEMMA NewPlaces ==
    ASSUME LaidOut, attempted \in 0 .. Len(commands),
           NEW fragmentCount \in FragmentCounts, SendPacket(fragmentCount)
    PROVE  SenderGrows /\ LaidOut' /\ attempted' <= Len(commands')
<1>. DEFINE n == Len(packets)
            c == Len(commands)
            s == Span(fragmentCount)
            new == NewPacket(fragmentCount)
            tail == [k \in 1 .. s |-> n + 1]
<1>1. n \in Nat /\ c \in Nat /\ attempted \in Nat /\ s \in Nat \ {0}
  <2>1. fragmentCount \in Nat
    BY SenderAssumption
  <2>. QED
    BY <2>1, LayoutFacts DEF Span
<1>2. /\ packets \in Seq(PacketRecords) /\ commands \in Seq(1 .. n)
      /\ packets' = Append(packets, new) /\ commands' = commands \o tail
      /\ attempted' = attempted
  BY DEF SendPacket, LaidOut
<1>3. /\ new \in PacketRecords /\ new.first = c + 1 /\ new.fragmentCount = fragmentCount
  BY <1>1 DEF NewPacket, PacketRecords
<1>. HIDE DEF new
<1>4. /\ packets' \in Seq(PacketRecords) /\ Len(packets') = n + 1
      /\ \A p \in 1 .. n : packets'[p] = packets[p]
      /\ packets'[n + 1] = new
  BY <1>2, <1>3, AppendProperties
<1>5. tail \in Seq(1 .. n + 1) /\ Len(tail) = s /\ \A k \in 1 .. s : tail[k] = n + 1
  <2>1. n + 1 \in 1 .. n + 1
    BY <1>1
  <2>2. tail \in [1 .. s -> 1 .. n + 1]
    <3>. HIDE DEF n, s
    <3>. QED
      BY <2>1
  <2>. HIDE DEF s
  <2>3. s \in Nat
    BY <1>1
  <2>4. tail \in Seq(1 .. n + 1) /\ Len(tail) = s
    <3>. HIDE DEF tail
    <3>. QED
      BY <2>2, <2>3
  <2>. QED
    BY <2>4
<1>. HIDE DEF tail
<1>6. commands \in Seq(1 .. n + 1)
  <2>1. \A k \in 1 .. c : commands[k] \in 1 .. n
    BY <1>2, ElementOfSeq
  <2>2. 1 .. n \subseteq 1 .. n + 1
    BY <1>1
  <2>. QED
    BY <1>1, <1>2, <2>1, <2>2
<1>7. /\ commands' \in Seq(1 .. n + 1) /\ Len(commands') = c + s
      /\ \A k \in 1 .. c + s : commands'[k] = IF k <= c THEN commands[k] ELSE n + 1
  <2>1. /\ commands \o tail \in Seq(1 .. n + 1)
        /\ Len(commands \o tail) = Len(commands) + Len(tail)
        /\ \A k \in 1 .. Len(commands) + Len(tail) :
              (commands \o tail)[k] = IF k <= Len(commands) THEN commands[k]
                                      ELSE tail[k - Len(commands)]
    BY <1>5, <1>6, ConcatProperties
  <2>2. \A k \in 1 .. c + s : ~ (k <= c) => k - c \in 1 .. s
    BY <1>1
  <2>. QED
    BY <1>2, <1>5, <2>1, <2>2
<1>. HIDE DEF n, c, s
<1>8. SenderGrows
  <2>1. \A i \in Ids : i \in 1 .. c + s /\ i <= c
    BY <1>1 DEF Ids, c
  <2>. QED
    BY <1>1, <1>2, <1>4, <1>7, <2>1 DEF SenderGrows, n, c
<1>. DEFINE F(p) == packets'[p].first
            L(p) == packets'[p].first + Span(packets'[p].fragmentCount) - 1
<1>9. ASSUME NEW p \in 1 .. n
      PROVE  /\ F(p) = FirstOf(p) /\ L(p) = LastOf(p)
             /\ F(p) \in Nat \ {0} /\ L(p) \in Nat /\ L(p) <= c
             /\ F(p) = (IF p = 1 THEN 1 ELSE LastOf(p - 1) + 1)
             /\ \A i \in 1 .. c : commands[i] = p <=> i \in F(p) .. L(p)
             /\ \A q \in 1 .. n : p < q => L(p) < F(q)
  <2>1. F(p) = FirstOf(p) /\ L(p) = LastOf(p)
    BY <1>4 DEF FirstOf, LastOf
  <2>2. \A q \in 1 .. n : F(q) = FirstOf(q)
    BY <1>4 DEF FirstOf
  <2>3. FirstOf(p) \in Nat \ {0} /\ LastOf(p) \in Nat
    BY LayoutFacts DEF n
  <2>4. /\ FirstOf(p) = (IF p = 1 THEN 1 ELSE LastOf(p - 1) + 1)
        /\ LastOf(p) <= c
        /\ \A i \in 1 .. c : commands[i] = p <=> i \in FirstOf(p) .. LastOf(p)
        /\ \A q \in 1 .. n : p < q => LastOf(p) < FirstOf(q)
    BY DEF LaidOut, n, c, Ids
  <2>. HIDE DEF F, L
  <2>. QED
    BY <2>1, <2>2, <2>3, <2>4
<1>10. F(n + 1) = c + 1 /\ L(n + 1) = c + s
  <2>1. packets'[n + 1].first = c + 1 /\ packets'[n + 1].fragmentCount = fragmentCount
    BY <1>3, <1>4
  <2>2. (c + 1) + s - 1 = c + s
    BY <1>1
  <2>. QED
    BY <2>1, <2>2 DEF s
<1>11. c = IF n = 0 THEN 0 ELSE L(n)
  <2>1. n # 0 => n \in 1 .. n
    BY <1>1
  <2>2. n # 0 => L(n) = LastOf(n)
    BY <1>9, <2>1
  <2>. QED
    BY <2>2 DEF LaidOut, n, c
<1>. HIDE DEF F, L
<1>12. \A p \in 1 .. n + 1 : p \in 1 .. n \/ p = n + 1
  BY <1>1
<1>13. ASSUME NEW p \in 1 .. n + 1
       PROVE  F(p) = (IF p = 1 THEN 1 ELSE L(p - 1) + 1) /\ L(p) <= c + s
  <2>1. CASE p \in 1 .. n
    <3>1. p # 1 => p - 1 \in 1 .. n
      BY <1>1, <2>1
    <3>2. p # 1 => L(p - 1) = LastOf(p - 1)
      BY <1>9, <3>1
    <3>3. F(p) = (IF p = 1 THEN 1 ELSE LastOf(p - 1) + 1) /\ L(p) <= c /\ L(p) \in Nat
      BY <1>9, <2>1
    <3>. QED
      BY <1>1, <3>2, <3>3
  <2>2. CASE p = n + 1
    <3>1. n = 0 => p = 1 /\ c = 0
      BY <1>1, <1>11, <2>2
    <3>2. n # 0 => p # 1 /\ p - 1 = n /\ c = L(n)
      BY <1>1, <1>11, <2>2
    <3>3. F(p) = c + 1 /\ L(p) = c + s
      BY <1>10, <2>2
    <3>. QED
      BY <1>1, <3>1, <3>2, <3>3
  <2>. QED
    BY <1>12, <2>1, <2>2
<1>14. ASSUME NEW p \in 1 .. n + 1, NEW i \in 1 .. c + s
       PROVE  commands'[i] = p <=> i \in F(p) .. L(p)
  <2>1. commands'[i] = IF i <= c THEN commands[i] ELSE n + 1
    BY <1>7
  <2>2. i <= c => i \in 1 .. c /\ commands[i] \in 1 .. n
    <3>1. i <= c => i \in 1 .. c
      BY <1>1
    <3>. QED
      BY <1>2, <3>1, ElementOfSeq DEF c
  <2>3. CASE p \in 1 .. n
    <3>1. i <= c => (commands[i] = p <=> i \in F(p) .. L(p))
      BY <1>9, <2>2, <2>3
    <3>2. F(p) \in Nat /\ L(p) \in Nat /\ L(p) <= c
      BY <1>9, <2>3
    <3>3. ~ (i <= c) => i \notin F(p) .. L(p) /\ p # n + 1
      BY <1>1, <2>3, <3>2
    <3>. QED
      BY <2>1, <3>1, <3>3
  <2>4. CASE p = n + 1
    <3>1. F(p) = c + 1 /\ L(p) = c + s
      BY <1>10, <2>4
    <3>2. i \in F(p) .. L(p) <=> ~ (i <= c)
      BY <1>1, <3>1
    <3>3. n + 1 \notin 1 .. n
      BY <1>1
    <3>. QED
      BY <2>1, <2>2, <2>4, <3>2, <3>3
  <2>. QED
    BY <1>12, <2>3, <2>4
<1>15. ASSUME NEW p \in 1 .. n + 1, NEW q \in 1 .. n + 1, p < q
       PROVE  L(p) < F(q)
  <2>1. p \in 1 .. n
    BY <1>1, <1>15
  <2>2. CASE q \in 1 .. n
    BY <1>9, <1>15, <2>1, <2>2
  <2>3. CASE q = n + 1
    <3>1. F(q) = c + 1 /\ L(p) <= c /\ L(p) \in Nat
      BY <1>9, <1>10, <2>1, <2>3
    <3>. QED
      BY <1>1, <3>1
  <2>. QED
    BY <1>12, <2>2, <2>3
<1>16. LaidOut'
  <2>1. Ids' = 1 .. c + s /\ Len(packets') = n + 1 /\ Len(commands') = c + s
    BY <1>4, <1>7 DEF Ids
  <2>2. c + s = (IF n + 1 = 0 THEN 0 ELSE L(n + 1))
    BY <1>1, <1>10
  <2>3. \A p \in 1 .. n + 1 :
           /\ F(p) = (IF p = 1 THEN 1 ELSE L(p - 1) + 1)
           /\ L(p) <= c + s
           /\ \A i \in 1 .. c + s : commands'[i] = p <=> i \in F(p) .. L(p)
           /\ \A q \in 1 .. n + 1 : p < q => L(p) < F(q)
    BY <1>13, <1>14, <1>15
  <2>. QED
    BY <1>4, <1>7, <2>1, <2>2, <2>3 DEF LaidOut, FirstOf, LastOf, F, L
<1>17. attempted' <= Len(commands')
  <2>1. attempted <= c
    BY <1>1 DEF c
  <2>. QED
    BY <1>1, <1>2, <1>7, <2>1
<1>. QED
  BY <1>8, <1>16, <1>17

(* The sender enters a window only when one command of the window before    *)
(* has been acknowledged, so it never gets further ahead of the receiver    *)
(* than the receiver acknowledges.                                          *)
LEMMA WindowEntered ==
    ASSUME ChannelInvariant, SenderInvariant, attempted + 1 \in Ids,
           ~ IsWindowBlocked(attempted + 1)
    PROVE  Window(attempted + 1) <= Window(OrderedTo) + FreeWindows - 1
<1>. DEFINE a == attempted
            b == Window(a + 1)
            q == Window(a)
            S == WindowSize
            u == Window(OrderedTo)
<1>1. S \in Nat \ {0} /\ FreeWindows \in Nat /\ FreeWindows >= 2 /\ Windows \in Nat \ {0}
  BY SequenceAssumption, CircleFacts
<1>2. Lists /\ WindowAccounting /\ a \in Nat /\ a + 1 \in Nat
  BY ListFacts DEF SenderInvariant, Counters
<1>3. q \in Nat /\ b \in Nat /\ u \in Nat /\ q <= u + FreeWindows - 1
  <2>1. OrderedTo \in Nat
    BY OrderedFacts DEF ChannelInvariant
  <2>. QED
    BY <1>2, <2>1, WindowFacts DEF ChannelInvariant, WindowsAgree
<1>4. CASE (a + 1) % S # 0
  <2>1. b = q
    BY <1>1, <1>2, <1>4, NextNumber DEF Window
  <2>. QED
    BY <1>3, <2>1
<1>5. CASE (a + 1) % S = 0
  <2>1. b = q + 1
    BY <1>1, <1>2, <1>5, NextNumber DEF Window
  <2>2. a = S * q + (S - 1)
    <3>1. a + 1 = S * b + 0
      BY <1>1, <1>2, <1>5, Division DEF Window
    <3>. HIDE DEF b, q, a
    <3>2. S * (q + 1) = S * q + S
      BY <1>1, <1>3
    <3>3. S * b = S * (q + 1)
      BY <2>1
    <3>. DEFINE x == S * q
    <3>4. x \in Nat
      BY <1>1, <1>3
    <3>5. a + 1 = x + S
      <4>1. S * b = x + S
        BY <3>2, <3>3
      <4>. HIDE DEF x
      <4>. QED
        BY <1>1, <3>1, <3>4, <4>1
    <3>6. a = x + (S - 1)
      <4>. HIDE DEF x
      <4>. QED
        BY <1>1, <1>2, <3>4, <3>5
    <3>. QED
      BY <3>6
  <2>3. CASE q = 0
    <3>. HIDE DEF b, q, u
    <3>1. b <= u + FreeWindows - 1
      BY <1>1, <1>3, <2>1, <2>3
    <3>. QED
      BY <3>1 DEF b, u
  <2>4. CASE q # 0
    <3>. DEFINE W == S * q .. a
    <3>1. S * q \in Nat /\ S * q >= 1 /\ S * q <= a
      <4>. HIDE DEF q, a
      <4>1. S * q \in Nat /\ S * q >= S
        BY <1>1, <1>3, <2>4
      <4>. QED
        BY <1>1, <1>2, <2>2, <4>1
    <3>2. IsFiniteSet(W) /\ Cardinality(W) = S
      <4>1. S * q \in Int /\ a \in Int /\ ~ (S * q > a) /\ a - S * q + 1 = S
        <5>. HIDE DEF a, q
        <5>. QED
          BY <1>1, <1>2, <2>2, <3>1
      <4>2. /\ IsFiniteSet(S * q .. a)
            /\ Cardinality(S * q .. a) = IF S * q > a THEN 0 ELSE a - S * q + 1
        BY <4>1, FS_Interval
      <4>. QED
        BY <4>1, <4>2
    <3>3. ASSUME NEW i \in W PROVE i \in 1 .. a /\ Window(i) = q /\ SlotOf(i) = q % Windows
      <4>1. i \in Nat /\ i \in 1 .. a /\ i - S * q \in 0 .. S - 1 /\ i = S * q + (i - S * q)
        <5>. DEFINE v == S * q
        <5>1. v \in Nat /\ v >= 1 /\ v <= a /\ a = v + (S - 1) /\ i \in v .. a
          BY ONLY <2>2, <3>1, <3>3, i \in W
        <5>. HIDE DEF v, a
        <5>2. i \in Nat /\ i \in 1 .. a /\ i - v \in 0 .. S - 1 /\ i = v + (i - v)
          BY ONLY <1>1, <1>2, <5>1
        <5>. QED
          BY ONLY <5>2 DEF v
      <4>2. i \div S = q
        <5>. HIDE DEF a, q, S
        <5>1. S \in Nat \ {0} /\ q \in Nat
          BY <1>1, <1>3
        <5>. QED
          BY ONLY <4>1, <5>1, DivisionUnique
      <4>3. SlotOf(i) = (i \div WindowSize) % Windows
        BY <4>1, WindowOfWire DEF SlotOf
      <4>. QED
        BY <4>1, <4>2, <4>3 DEF Window
    <3>4. (SlotOf(a + 1) + Windows - 1) % Windows = q % Windows
      <4>. DEFINE e == q % Windows
                  x == b \div Windows
                  y == q \div Windows
                  z == b % Windows
      <4>1. SlotOf(a + 1) = z
        BY <1>2, WindowOfWire DEF SlotOf, Window
      <4>2. b = Windows * x + z /\ q = Windows * y + e /\ e \in 0 .. Windows - 1
            /\ x \in Nat /\ y \in Nat /\ z \in 0 .. Windows - 1
        BY <1>1, <1>3, DivisionFacts
      <4>. HIDE DEF b, q, x, y, e, z
      <4>3. z + Windows - 1 = Windows * ((y + 1) - x) + e
        <5>1. Windows * ((y + 1) - x) = Windows * y + Windows - Windows * x
          BY <1>1, <4>2
        <5>2. Windows * y \in Nat /\ Windows * x \in Nat
          BY <1>1, <4>2
        <5>. QED
          BY <1>1, <1>3, <2>1, <4>2, <5>1, <5>2
      <4>4. (z + Windows - 1) % Windows = e
        <5>1. (y + 1) - x \in Int /\ z + Windows - 1 \in Int
          BY <1>1, <4>2
        <5>. QED
          BY <1>1, <4>2, <4>3, <5>1, RemainderUnique
      <4>. QED
        BY <4>1, <4>4 DEF e
    <3>5. \E i \in W : i \notin Unacknowledged
      <4>1. SUFFICES ASSUME W \subseteq Unacknowledged PROVE FALSE
        OBVIOUS
      <4>. DEFINE w == q % Windows
      <4>2. w \in WindowNum
        <5>1. w \in 0 .. Windows - 1
          BY <1>1, <1>3, RemainderType
        <5>. QED
          BY <5>1 DEF WindowNum
      <4>3. W \subseteq At(Unacknowledged, w)
        <5>. HIDE DEF W
        <5>. QED
          BY <3>3, <4>1 DEF At
      <4>4. IsFiniteSet(At(Unacknowledged, w))
        <5>1. IsFiniteSet(Unacknowledged) /\ At(Unacknowledged, w) \subseteq Unacknowledged
          BY <1>2, ListFacts DEF At
        <5>. QED
          BY <5>1, FS_Subset
      <4>5. S <= Cardinality(At(Unacknowledged, w))
        <5>. HIDE DEF W, w
        <5>. QED
          BY <3>2, <4>3, <4>4, FS_Subset
      <4>6. reliableWindows[w] = Cardinality(At(Unacknowledged, w))
        BY <1>2, <4>2 DEF WindowAccounting, At
      <4>7. Cardinality(At(Unacknowledged, w)) \in Nat
        BY <4>4, FS_CardinalityType
      <4>8. reliableWindows[w] >= WindowSize
        <5>. HIDE DEF w
        <5>. QED
          BY <1>1, <4>5, <4>6, <4>7
      <4>9. Wire(a + 1) % WindowSize = 0
        BY <1>2, <1>5, WindowOfWire
      <4>. QED
        BY <3>4, <4>8, <4>9 DEF IsWindowBlocked
    <3>6. PICK i \in W : i \notin Unacknowledged
      BY <3>5
    <3>7. i \in Confirming /\ Window(i) = q
      BY <3>3, <3>6 DEF Confirming
    <3>8. q <= u + FreeWindows - 2
      BY <3>7 DEF ChannelInvariant, WindowsAgree
    <3>. HIDE DEF b, q, u
    <3>9. b <= u + FreeWindows - 1
      BY <1>1, <1>3, <2>1, <3>8
    <3>. QED
      BY <3>9 DEF b, u
  <2>. QED
    BY <2>3, <2>4
<1>. QED
  BY <1>4, <1>5

(* An acknowledgement still in the network names the command it was made    *)
(* for, not a later one with the same number.                               *)
LEMMA AcknowledgedOnce ==
    ASSUME ChannelInvariant, SenderInvariant, NEW i \in acks,
           NEW j \in Unacknowledged, Wire(j) = Wire(i)
    PROVE  i = j
<1>1. Lists /\ InFlightSpan /\ attempted \in Nat
  BY ListFacts DEF SenderInvariant, Counters
<1>2. i \in 1 .. attempted /\ i + Lifetime >= attempted
  BY DEF ChannelInvariant, NetworkRight
<1>3. j \in 1 .. attempted
  BY <1>1, ListFacts
<1>4. i \in Nat /\ j \in Nat /\ i <= attempted /\ j <= attempted
  BY <1>1, <1>2, <1>3
<1>5. i >= j
  <2>1. SUFFICES ASSUME i < j PROVE FALSE
    BY <1>4
  <2>2. j >= i + Circle
    BY <1>4, <2>1, SameNumber
  <2>3. Lifetime < Circle /\ Lifetime \in Nat
    <3>1. FreeWindows \in Nat /\ WindowSize \in Nat \ {0} /\ FreeWindows >= 2
          /\ Windows = 2 * FreeWindows
      BY SequenceAssumption
    <3>2. Circle = 2 * (FreeWindows * WindowSize)
      BY <3>1 DEF Circle
    <3>3. (FreeWindows + 1) * WindowSize = FreeWindows * WindowSize + WindowSize
      BY <3>1
    <3>4. FreeWindows * WindowSize >= 2 * WindowSize
      BY <3>1
    <3>5. Lifetime \in Nat /\ Lifetime <= FreeWindows * WindowSize + WindowSize
      <4>1. (FreeWindows + 1) * WindowSize \in Nat
        BY <3>1
      <4>. QED
        BY <3>3, <4>1, NetworkAssumption
    <3>. DEFINE x == FreeWindows * WindowSize
    <3>6. x \in Nat
      BY <3>1
    <3>. HIDE DEF x
    <3>. QED
      BY <3>1, <3>2, <3>4, <3>5, <3>6 DEF x
  <2>4. Circle \in Nat
    BY CircleFacts
  <2>. QED
    BY <1>1, <1>2, <1>4, <2>2, <2>3, <2>4
<1>6. j >= i
  <2>1. SUFFICES ASSUME j < i PROVE FALSE
    BY <1>4
  <2>2. i >= j + Circle
    BY <1>4, <2>1, SameNumber
  <2>3. Window(attempted) <= Window(j) + FreeWindows - 1
    <3>1. Window(attempted) \in Nat /\ Window(j) \in Nat
      BY <1>1, <1>4, WindowFacts
    <3>2. Window(j) + FreeWindows - 2 >= Window(attempted)
      BY <1>1 DEF InFlightSpan, Window
    <3>. QED
      BY <3>1, <3>2, SequenceAssumption
  <2>4. attempted < j + FreeWindows * WindowSize
    BY <1>1, <1>4, <2>3, WindowsApart
  <2>5. FreeWindows * WindowSize \in Nat /\ FreeWindows * WindowSize <= Circle /\ Circle \in Nat
    <3>1. FreeWindows \in Nat /\ WindowSize \in Nat /\ Windows = 2 * FreeWindows
      BY SequenceAssumption
    <3>2. FreeWindows * WindowSize \in Nat /\ Circle = 2 * (FreeWindows * WindowSize)
      BY <3>1 DEF Circle
    <3>. QED
      BY <3>2
  <2>. QED
    BY <1>1, <1>4, <2>2, <2>4, <2>5
<1>. QED
  BY <1>4, <1>5, <1>6

(* Dropping what is no longer alive from the network.                       *)
LEMMA AliveFacts ==
    ASSUME NEW a \in Nat, NEW D \in SUBSET (1 .. a)
    PROVE  Alive(D, a) \subseteq D /\ \A i \in Alive(D, a) : i + Lifetime >= a
BY DEF Alive

(* A packet given to enet_peer_send.                                        *)
LEMMA SendKeeps ==
    ASSUME ChannelInvariant, NEW n \in FragmentCounts, Send(n)
    PROVE  ChannelInvariant'
<1>1. LaidOut /\ attempted \in 0 .. Len(commands) /\ NetworkRight /\ WindowsAgree
  BY DEF ChannelInvariant
<1>2. /\ SendPacket(n)
      /\ UNCHANGED <<incomingReliableSequenceNumber, incomingReliableCommands,
                     dispatchedCommands, received, acknowledgements, data, acks>>
      /\ UNCHANGED <<attempted, expired, sentReliableCommands>>
  BY DEF Send, SendPacket, receiverVars, networkVars
<1>3. SenderGrows /\ LaidOut' /\ attempted' <= Len(commands')
  BY <1>1, <1>2, NewPlaces
<1>4. NetworkRight'
  BY <1>1, <1>2 DEF NetworkRight
<1>5. Confirming' = Confirming
  BY <1>2 DEF Confirming, Unacknowledged
<1>6. Window(attempted') <= Window(OrderedTo) + FreeWindows - 1
  BY <1>1, <1>2 DEF WindowsAgree
<1>. QED
  BY <1>2, <1>3, <1>4, <1>5, <1>6, QuietStep

(* A command sent for the first time.                                       *)
LEMMA TransmitKeeps ==
    ASSUME ChannelInvariant, SenderInvariant, TransmitNew
    PROVE  ChannelInvariant'
<1>1. LaidOut /\ attempted \in 0 .. Len(commands) /\ NetworkRight /\ attempted \in Nat
      /\ Len(commands) \in Nat
  BY LayoutFacts DEF ChannelInvariant
<1>2. /\ attempted + 1 \in Ids /\ attempted' = attempted + 1
      /\ ~ IsWindowBlocked(attempted + 1)
      /\ sentReliableCommands' = sentReliableCommands \cup {attempted + 1}
      /\ UNCHANGED <<packets, commands, expired>>
      /\ data' = Alive(data \cup {attempted'}, attempted')
      /\ acks' = Alive(acks, attempted')
      /\ UNCHANGED <<incomingReliableSequenceNumber, incomingReliableCommands,
                     dispatchedCommands, received, acknowledgements>>
  BY DEF TransmitNew, SendNew, receiverVars
<1>3. SenderGrows
  BY <1>1, <1>2, LayoutFacts DEF SenderGrows, Ids
<1>4. LaidOut' /\ attempted' <= Len(commands')
  BY <1>1, <1>2 DEF LaidOut, FirstOf, LastOf, Ids
<1>5. NetworkRight' /\ acks' \subseteq acks
  <2>1. /\ data \cup {attempted'} \in SUBSET (1 .. attempted')
        /\ acks \in SUBSET (1 .. attempted')
        /\ acknowledgements \subseteq 1 .. attempted'
        /\ attempted' \in Nat
    BY <1>1, <1>2 DEF NetworkRight
  <2>2. /\ data' \subseteq data \cup {attempted'} /\ acks' \subseteq acks
        /\ \A i \in data' \cup acks' : i + Lifetime >= attempted'
    BY <1>2, <2>1, AliveFacts
  <2>. QED
    BY <1>2, <2>1, <2>2 DEF NetworkRight
<1>6. Confirming' \subseteq Confirming
  <2>1. Unacknowledged' = Unacknowledged \cup {attempted + 1}
    BY <1>2 DEF Unacknowledged
  <2>2. (1 .. attempted + 1) \ (Unacknowledged \cup {attempted + 1})
           \subseteq (1 .. attempted) \ Unacknowledged
    BY <1>1
  <2>. QED
    BY <1>2, <1>5, <2>1, <2>2 DEF Confirming
<1>7. Window(attempted') <= Window(OrderedTo) + FreeWindows - 1
  BY <1>2, WindowEntered
<1>. QED
  BY <1>2, <1>3, <1>4, <1>5, <1>6, <1>7, QuietStep

(* Resends, timeouts, acknowledgements sent, and losses.                    *)
LEMMA NetworkKeeps ==
    ASSUME ChannelInvariant, SenderInvariant,
           \/ SendAcknowledgements
           \/ \E i \in Ids : Retransmit(i) \/ CheckTimeouts(i) \/ Lose(i)
    PROVE  ChannelInvariant'
<1>1. /\ LaidOut /\ attempted \in 0 .. Len(commands) /\ NetworkRight /\ attempted \in Nat
      /\ Len(commands) \in Nat /\ WindowsAgree
      /\ expired \subseteq 1 .. attempted
  BY LayoutFacts DEF ChannelInvariant, SenderInvariant, Lists
<1>2. SUFFICES ASSUME /\ UNCHANGED <<packets, commands, attempted>>
                      /\ UNCHANGED <<incomingReliableSequenceNumber, incomingReliableCommands,
                                     dispatchedCommands, received>>
                      /\ Unacknowledged' = Unacknowledged
                      /\ acks' \cup acknowledgements' \subseteq acks \cup acknowledgements
                      /\ data' \subseteq 1 .. attempted
                      /\ \A i \in data' \cup acks' : i + Lifetime >= attempted
               PROVE  ChannelInvariant'
  <2>1. CASE SendAcknowledgements
    <3>1. /\ UNCHANGED <<packets, commands, attempted, expired, sentReliableCommands, data>>
          /\ UNCHANGED <<incomingReliableSequenceNumber, incomingReliableCommands,
                         dispatchedCommands, received>>
          /\ acks' = Alive(acks \cup acknowledgements, attempted)
          /\ acknowledgements' = {}
      BY <2>1 DEF SendAcknowledgements, senderVars
    <3>2. /\ acks' \subseteq acks \cup acknowledgements
          /\ \A i \in acks' : i + Lifetime >= attempted
      BY <1>1, <3>1, AliveFacts DEF NetworkRight
    <3>. QED
      BY <1>1, <1>2, <3>1, <3>2 DEF NetworkRight, Unacknowledged
  <2>2. ASSUME NEW i \in Ids, Retransmit(i) PROVE ChannelInvariant'
    <3>1. /\ UNCHANGED <<packets, commands, attempted, acks>>
          /\ UNCHANGED <<incomingReliableSequenceNumber, incomingReliableCommands,
                         dispatchedCommands, received, acknowledgements>>
          /\ i \in expired
          /\ expired' = expired \ {i}
          /\ sentReliableCommands' = sentReliableCommands \cup {i}
          /\ data' = Alive(data \cup {i}, attempted)
      BY <2>2 DEF Retransmit, Resend, receiverVars
    <3>2. data' \subseteq data \cup {i} /\ \A j \in data' : j + Lifetime >= attempted
      BY <1>1, <3>1, AliveFacts DEF NetworkRight
    <3>3. Unacknowledged' = Unacknowledged
      BY <3>1 DEF Unacknowledged
    <3>. QED
      BY <1>1, <1>2, <3>1, <3>2, <3>3 DEF NetworkRight
  <2>3. ASSUME NEW i \in Ids, CheckTimeouts(i) PROVE ChannelInvariant'
    <3>1. /\ UNCHANGED <<packets, commands, attempted, acks, data>>
          /\ UNCHANGED <<incomingReliableSequenceNumber, incomingReliableCommands,
                         dispatchedCommands, received, acknowledgements>>
          /\ i \in sentReliableCommands
          /\ sentReliableCommands' = sentReliableCommands \ {i}
          /\ expired' = expired \cup {i}
      BY <2>3 DEF CheckTimeouts, Expire, receiverVars, networkVars
    <3>2. Unacknowledged' = Unacknowledged
      BY <3>1 DEF Unacknowledged
    <3>. QED
      BY <1>1, <1>2, <3>1, <3>2 DEF NetworkRight
  <2>4. ASSUME NEW i \in Ids, Lose(i) PROVE ChannelInvariant'
    <3>1. /\ UNCHANGED <<packets, commands, attempted, expired, sentReliableCommands>>
          /\ UNCHANGED <<incomingReliableSequenceNumber, incomingReliableCommands,
                         dispatchedCommands, received, acknowledgements>>
          /\ data' \subseteq data /\ acks' \subseteq acks
      BY <2>4 DEF Lose, senderVars, receiverVars
    <3>. QED
      BY <1>1, <1>2, <3>1 DEF NetworkRight, Unacknowledged
  <2>. QED
    BY <2>1, <2>2, <2>3, <2>4
<1>3. SenderGrows /\ LaidOut'
  BY <1>1, <1>2, SenderRests
<1>4. NetworkRight'
  BY <1>1, <1>2 DEF NetworkRight
<1>5. Confirming' \subseteq Confirming
  BY <1>2 DEF Confirming
<1>6. Window(attempted') <= Window(OrderedTo) + FreeWindows - 1
  BY <1>1, <1>2 DEF WindowsAgree
<1>7. attempted' <= Len(commands')
  BY <1>1, <1>2
<1>. QED
  BY <1>2, <1>3, <1>4, <1>5, <1>6, <1>7, QuietStep

(* A packet that loses a reference keeps its place.                         *)
LEMMA ReleasedPlace ==
    ASSUME NEW packet \in PacketRecords, NEW wasSent
    PROVE  /\ Released(packet, wasSent).first = packet.first
           /\ Released(packet, wasSent).fragmentCount = packet.fragmentCount
BY DEF Released, PacketRecords

(* An acknowledgement that arrives.                                         *)
LEMMA AcknowledgementKeeps ==
    ASSUME ChannelInvariant, SenderInvariant, SenderInvariant', NEW i \in Ids,
           DeliverAcknowledgement(i)
    PROVE  ChannelInvariant'
<1>1. /\ LaidOut /\ attempted \in 0 .. Len(commands) /\ NetworkRight /\ attempted \in Nat
      /\ Len(commands) \in Nat /\ WindowsAgree /\ Lists /\ i \in Nat
  BY LayoutFacts DEF ChannelInvariant, SenderInvariant, Ids
<1>2. /\ i \in acks /\ Acknowledge(Wire(i))
      /\ UNCHANGED <<incomingReliableSequenceNumber, incomingReliableCommands,
                     dispatchedCommands, received, acknowledgements, data, acks>>
  BY DEF DeliverAcknowledgement, receiverVars, networkVars
<1>3. Wire(i) \in SeqNum
  BY <1>1, WindowOfWire
<1>4. PICK j \in Unacknowledged, wasSent \in BOOLEAN :
         RemoveCommand(j, wasSent) /\ Wire(j) = Wire(i)
  BY <1>1, <1>2, <1>3, Acknowledged
<1>5. i = j
  BY <1>2, <1>4, AcknowledgedOnce
<1>6. /\ packets' = [packets EXCEPT ![commands[j]] = Released(packets[commands[j]], wasSent)]
      /\ UNCHANGED <<commands, attempted>>
      /\ sentReliableCommands' = sentReliableCommands \ {j}
      /\ expired' = expired \ {j}
  BY <1>4 DEF RemoveCommand
<1>7. packets' \in Seq(PacketRecords)
  BY DEF SenderInvariant, Packets
<1>8. Len(packets') = Len(packets)
  <2>1. DOMAIN packets' = DOMAIN packets
    BY <1>6
  <2>2. packets \in Seq(PacketRecords)
    BY <1>1 DEF LaidOut
  <2>. QED
    BY <1>7, <2>1, <2>2, LenProperties
<1>9. ASSUME NEW p \in 1 .. Len(packets)
      PROVE  /\ packets'[p].first = packets[p].first
             /\ packets'[p].fragmentCount = packets[p].fragmentCount
  <2>1. packets[p] \in PacketRecords /\ p \in DOMAIN packets
    BY <1>1, LayoutFacts, LenProperties DEF LaidOut
  <2>2. CASE p = commands[j]
    <3>1. packets'[p] = Released(packets[p], wasSent)
      BY <1>6, <2>1, <2>2
    <3>. QED
      BY <2>1, <3>1, ReleasedPlace
  <2>3. CASE p # commands[j]
    <3>1. packets'[p] = packets[p]
      BY <1>6, <2>1, <2>3
    <3>. QED
      BY <3>1
  <2>. QED
    BY <2>2, <2>3
<1>10. SenderGrows /\ LaidOut'
  BY <1>1, <1>6, <1>7, <1>8, <1>9, SamePlaces
<1>11. NetworkRight'
  BY <1>1, <1>2, <1>6 DEF NetworkRight
<1>12. Confirming' \subseteq Confirming
  <2>1. Unacknowledged \ {i} = Unacknowledged'
    BY <1>5, <1>6 DEF Unacknowledged
  <2>. QED
    BY <1>2, <1>6, <2>1 DEF Confirming
<1>13. Window(attempted') <= Window(OrderedTo) + FreeWindows - 1
  BY <1>1, <1>6 DEF WindowsAgree
<1>14. attempted' <= Len(commands')
  BY <1>1, <1>6
<1>. QED
  BY <1>2, <1>10, <1>11, <1>12, <1>13, <1>14, QuietStep

(* A datagram that arrives: what it makes the receiver acknowledge is       *)
(* stored and not beyond the receive window.                                *)
LEMMA ReceiveKeeps ==
    ASSUME ChannelInvariant, NEW i \in Ids, DeliverCommand(i)
    PROVE  ChannelInvariant'
<1>1. /\ i \in data /\ ReceiveCommand(Datagram(i))
      /\ UNCHANGED <<packets, commands, attempted, expired, sentReliableCommands, data, acks>>
  BY DEF DeliverCommand, senderVars, networkVars
<1>2. PICK list, n : Outcome(i, list, n)
  BY <1>1, ReceiveOutcome
<1>3. /\ LaidOut /\ attempted \in 0 .. Len(commands) /\ DispatchedRight /\ NetworkRight
      /\ WindowsAgree /\ attempted \in Nat /\ Confirming \subseteq Stored
      /\ OrderedTo \in Nat /\ i \in 1 .. attempted /\ i \in Nat
      /\ commands[i] \in 1 .. Len(packets)
  <2>1. /\ LaidOut /\ attempted \in 0 .. Len(commands) /\ DispatchedRight /\ NetworkRight
        /\ WindowsAgree /\ Confirming \subseteq Stored
    BY DEF ChannelInvariant
  <2>. QED
    BY <1>1, <2>1, OrderedFacts, DatagramFacts
<1>4. /\ list \in Seq(EntryRecords) /\ InOrder(list) /\ n \in 0 .. Len(list) /\ Moved(list, n)
      /\ UNCHANGED received
      /\ IdsOf(incomingReliableCommands) \subseteq IdsOf(list)
      /\ \/ acknowledgements' = acknowledgements
         \/ /\ acknowledgements' = acknowledgements \cup {i}
            /\ ~ IsAckRefused(Wire(i), incomingReliableSequenceNumber')
            /\ i \in IdsOf(list) \/ commands[i] <= Ordered
  BY <1>2 DEF Outcome
<1>5. /\ OrderedTo' \in Nat /\ OrderedTo <= OrderedTo'
      /\ DispatchedRight' /\ ListRight'
      /\ \A j \in IdsOf(list) : j \in Stored'
      /\ \A j \in Ids : commands[j] <= Ordered => j \in Stored'
  BY <1>1, <1>4, MovedKeeps
<1>6. LaidOut'
  BY <1>1, <1>3, SenderRests
<1>7. NetworkRight'
  BY <1>1, <1>3, <1>4 DEF NetworkRight
<1>8. Confirming' \subseteq Confirming \cup {i}
  BY <1>1, <1>4 DEF Confirming, Unacknowledged
<1>9. Confirming \subseteq Stored'
  <2>1. ASSUME NEW j \in Confirming PROVE j \in Stored'
    <3>1. j \in IdsOf(incomingReliableCommands) \/ (j \in Ids /\ commands[j] <= Ordered)
      BY <1>3 DEF Stored
    <3>. QED
      BY <1>4, <1>5, <3>1
  <2>. QED
    BY <2>1
<1>10. /\ Window(OrderedTo) <= Window(OrderedTo') /\ Window(OrderedTo) \in Nat
       /\ Window(OrderedTo') \in Nat
       /\ Window(attempted) \in Nat /\ Window(i) \in Nat /\ Window(i) <= Window(attempted)
  <2>. DEFINE r == OrderedTo'
  <2>1. r \in Nat /\ OrderedTo \in Nat /\ OrderedTo <= r
    BY <1>3, <1>5
  <2>2. i \in Nat /\ attempted \in Nat /\ i <= attempted
    BY <1>3
  <2>. HIDE DEF r
  <2>3. /\ Window(OrderedTo) <= Window(r) /\ Window(OrderedTo) \in Nat
        /\ Window(r) \in Nat
    BY <2>1, WindowFacts
  <2>4. Window(attempted) \in Nat /\ Window(i) \in Nat /\ Window(i) <= Window(attempted)
    BY <2>2, WindowFacts
  <2>. QED
    BY <2>3, <2>4 DEF r
<1>11. Window(attempted) <= Window(OrderedTo') + FreeWindows - 1
  <2>1. Window(attempted) <= Window(OrderedTo) + FreeWindows - 1
    BY <1>3 DEF WindowsAgree
  <2>. QED
    BY <1>10, <2>1, SequenceAssumption
<1>12. \A j \in Confirming : Window(j) <= Window(OrderedTo') + FreeWindows - 2
  <2>1. SUFFICES ASSUME NEW j \in Confirming
                 PROVE  Window(j) <= Window(OrderedTo') + FreeWindows - 2
    OBVIOUS
  <2>2. Window(j) <= Window(OrderedTo) + FreeWindows - 2
    BY <1>3 DEF WindowsAgree
  <2>3. j \in Nat
    BY <1>3 DEF Confirming, NetworkRight
  <2>4. Window(j) \in Nat
    BY <2>3, WindowFacts
  <2>. QED
    BY <1>10, <2>2, <2>4, SequenceAssumption
<1>13. acknowledgements' # acknowledgements =>
          i \in Stored' /\ Window(i) <= Window(OrderedTo') + FreeWindows - 2
  <2>1. SUFFICES ASSUME ~ IsAckRefused(Wire(i), incomingReliableSequenceNumber'),
                        i \in IdsOf(list) \/ commands[i] <= Ordered
                 PROVE  i \in Stored' /\ Window(i) <= Window(OrderedTo') + FreeWindows - 2
    BY <1>4
  <2>2. i \in Stored'
    BY <1>5, <2>1
  <2>3. incomingReliableSequenceNumber' = Wire(OrderedTo')
    BY <1>5 DEF DispatchedRight
  <2>4. CASE i <= OrderedTo'
    <3>1. Window(i) <= Window(OrderedTo')
      BY <1>3, <1>5, <2>4, WindowFacts
    <3>. QED
      BY <1>10, <2>2, <3>1, SequenceAssumption
  <2>5. CASE OrderedTo' < i
    <3>. DEFINE r == OrderedTo'
    <3>1. Window(i) <= Window(r) + FreeWindows - 1
      BY <1>10, <1>11, SequenceAssumption
    <3>2. r \in Nat /\ r < i
      BY <1>5, <2>5
    <3>. HIDE DEF r
    <3>3. WindowsAhead(Wire(i), Wire(r)) = Window(i) - Window(r)
          /\ Window(i) - Window(r) \in 0 .. FreeWindows - 1
      BY <1>3, <3>1, <3>2, AheadFacts
    <3>4. Window(i) - Window(r) \notin FreeWindows - 1 .. FreeWindows
      BY <2>1, <2>3, <3>3 DEF IsAckRefused, r
    <3>5. Window(i) <= Window(r) + FreeWindows - 2
      <4>1. Window(r) \in Nat
        BY <3>2, WindowFacts
      <4>. QED
        BY <1>10, <3>3, <3>4, <4>1, SequenceAssumption
    <3>. QED
      BY <2>2, <3>5 DEF r
  <2>. QED
    BY <1>3, <1>5, <2>4, <2>5
<1>14. \A j \in Confirming' : j \in Confirming \/ (j = i /\ acknowledgements' # acknowledgements)
  <2>1. SUFFICES ASSUME NEW j \in Confirming', j \notin Confirming
                 PROVE  j = i /\ acknowledgements' # acknowledgements
    OBVIOUS
  <2>2. j = i
    BY <1>8, <2>1
  <2>3. acknowledgements' = acknowledgements => Confirming' = Confirming
    BY <1>1 DEF Confirming, Unacknowledged
  <2>. QED
    BY <2>1, <2>2, <2>3
<1>15. Confirming' \subseteq Stored'
  BY <1>9, <1>13, <1>14
<1>16. WindowsAgree'
  <2>1. \A j \in Confirming' : Window(j) <= Window(OrderedTo') + FreeWindows - 2
    BY <1>12, <1>13, <1>14
  <2>2. Window(attempted') <= Window(OrderedTo') + FreeWindows - 1
    BY <1>1, <1>11
  <2>. QED
    BY <2>1, <2>2 DEF WindowsAgree, Window
<1>. QED
  BY <1>1, <1>3, <1>5, <1>6, <1>7, <1>15, <1>16 DEF ChannelInvariant

(* A packet fetched by enet_peer_receive.                                   *)
LEMMA FetchKeeps ==
    ASSUME ChannelInvariant, Receive
    PROVE  ChannelInvariant' /\ received' = Append(received, Len(received) + 1)
<1>. DEFINE m == Len(received)
            l == Len(dispatchedCommands)
<1>1. /\ dispatchedCommands # <<>>
      /\ received' = Append(received, Head(dispatchedCommands).packet)
      /\ dispatchedCommands' = Tail(dispatchedCommands)
      /\ UNCHANGED <<incomingReliableSequenceNumber, incomingReliableCommands,
                     acknowledgements>>
      /\ UNCHANGED <<packets, commands, attempted, expired, sentReliableCommands,
                     data, acks>>
  BY DEF Receive, PeerReceive, senderVars, networkVars
<1>2. /\ LaidOut /\ attempted \in 0 .. Len(commands) /\ DispatchedRight /\ ListRight
      /\ NetworkRight /\ Confirming \subseteq Stored /\ WindowsAgree
  BY DEF ChannelInvariant
<1>3. /\ received \in Seq(Nat) /\ dispatchedCommands \in Seq(EntryRecords)
      /\ m \in Nat /\ l \in Nat /\ Ordered = m + l /\ attempted \in Nat
      /\ Len(commands) \in Nat
  BY <1>2, LenProperties, LayoutFacts DEF DispatchedRight, Ordered
<1>4. /\ l # 0 /\ Head(dispatchedCommands) = dispatchedCommands[1]
      /\ Tail(dispatchedCommands) \in Seq(EntryRecords)
      /\ Len(Tail(dispatchedCommands)) = l - 1
      /\ \A k \in 1 .. l - 1 : Tail(dispatchedCommands)[k] = dispatchedCommands[k + 1]
  <2>1. l # 0
    BY <1>1, <1>3, EmptySeq
  <2>. QED
    BY <1>1, <1>3, <2>1, HeadTailProperties
<1>5. Head(dispatchedCommands).packet = m + 1
  <2>1. 1 \in 1 .. l
    BY <1>3, <1>4
  <2>. QED
    BY <1>2, <1>4, <2>1 DEF DispatchedRight
<1>6. /\ received' = Append(received, m + 1) /\ received' \in Seq(Nat) /\ Len(received') = m + 1
      /\ \A k \in 1 .. m + 1 : received'[k] = k
  <2>1. m + 1 \in Nat /\ received' = Append(received, m + 1)
    BY <1>1, <1>3, <1>5
  <2>2. /\ received' \in Seq(Nat) /\ Len(received') = m + 1
        /\ \A k \in 1 .. m : received'[k] = received[k]
        /\ received'[m + 1] = m + 1
    BY <1>3, <2>1, AppendProperties
  <2>3. \A k \in 1 .. m : received[k] = k
    BY <1>2 DEF DispatchedRight
  <2>4. \A k \in 1 .. m + 1 : k \in 1 .. m \/ k = m + 1
    BY <1>3
  <2>. QED
    BY <2>1, <2>2, <2>3, <2>4
<1>7. SenderGrows /\ LaidOut'
  BY <1>1, <1>2, <1>3, SenderRests
<1>8. Ordered' = Ordered
  BY <1>1, <1>3, <1>4, <1>6 DEF Ordered
<1>9. OrderedTo' = OrderedTo
  <2>1. OrderedTo' = IF Ordered = 0 THEN 0 ELSE LastOf(Ordered)
    BY <1>1, <1>8 DEF OrderedTo, LastOf
  <2>. QED
    BY <2>1 DEF OrderedTo
<1>10. DispatchedRight'
  <2>1. ASSUME NEW k \in 1 .. Len(dispatchedCommands')
        PROVE  /\ dispatchedCommands'[k].packet = Len(received') + k
               /\ IsRight(dispatchedCommands[k])'
    <3>. DEFINE e == dispatchedCommands[k + 1]
    <3>1. k \in 1 .. l - 1 /\ k + 1 \in 1 .. l
      BY <1>1, <1>3, <1>4
    <3>2. dispatchedCommands'[k] = e
      BY <1>1, <1>4, <3>1
    <3>3. e.packet = m + (k + 1) /\ IsRight(e)
      BY <1>2, <3>1 DEF DispatchedRight
    <3>4. m + (k + 1) = (m + 1) + k
      BY <1>3, <3>1
    <3>. HIDE DEF e
    <3>5. IsRight(dispatchedCommands[k])'
      BY <1>1, <3>2, <3>3 DEF IsRight, FirstOf, LastOf
    <3>. QED
      BY <1>6, <3>2, <3>3, <3>4, <3>5
  <2>. QED
    BY <1>1, <1>2, <1>4, <1>6, <1>8, <1>9, <2>1 DEF DispatchedRight
<1>11. ListRight'
  <2>1. ASSUME NEW k \in 1 .. Len(incomingReliableCommands)
        PROVE  /\ IsRight(incomingReliableCommands[k])'
               /\ Window(FirstOf(incomingReliableCommands[k].packet))'
                     = Window(FirstOf(incomingReliableCommands[k].packet))
    <3>1. IsRight(incomingReliableCommands[k])
      BY <1>2 DEF ListRight, InOrder
    <3>2. IsRight(incomingReliableCommands[k])'
      BY <1>1, <3>1 DEF IsRight, FirstOf, LastOf
    <3>. QED
      BY <1>1, <3>2 DEF Window, FirstOf
  <2>2. Window(OrderedTo)' = Window(OrderedTo)
    BY <1>9 DEF Window
  <2>3. InOrder(incomingReliableCommands)'
    BY <1>1, <1>2, <1>8, <2>1, <2>2 DEF ListRight, InOrder
  <2>4. HeadWaits(incomingReliableCommands, 0)'
    BY <1>1, <1>2, <1>8 DEF ListRight, HeadWaits, IsComplete
  <2>. QED
    BY <1>1, <1>2, <2>3, <2>4 DEF ListRight
<1>12. NetworkRight'
  BY <1>1, <1>2 DEF NetworkRight
<1>13. Confirming' = Confirming
  BY <1>1 DEF Confirming, Unacknowledged
<1>14. Stored' = Stored
  BY <1>1, <1>8 DEF Stored, IdsOf, Ids
<1>15. WindowsAgree'
  BY <1>1, <1>2, <1>9, <1>13 DEF WindowsAgree, Window
<1>. QED
  BY <1>1, <1>2, <1>6, <1>7, <1>10, <1>11, <1>12, <1>13, <1>14, <1>15 DEF ChannelInvariant

(* Every step of the channel keeps the invariant.                           *)
LEMMA ChannelStepwise ==
    ChannelInvariant /\ SenderInvariant /\ SenderInvariant' /\ [Next]_vars => ChannelInvariant'
<1>. SUFFICES ASSUME ChannelInvariant, SenderInvariant, SenderInvariant', [Next]_vars
              PROVE  ChannelInvariant'
  OBVIOUS
<1>1. ASSUME NEW n \in FragmentCounts, Send(n) PROVE ChannelInvariant'
  BY <1>1, SendKeeps
<1>2. CASE TransmitNew
  BY <1>2, TransmitKeeps
<1>3. CASE SendAcknowledgements
  BY <1>3, NetworkKeeps
<1>4. CASE Receive
  BY <1>4, FetchKeeps
<1>5. ASSUME NEW i \in Ids, Retransmit(i) \/ CheckTimeouts(i) \/ Lose(i)
      PROVE  ChannelInvariant'
  BY <1>5, NetworkKeeps
<1>6. ASSUME NEW i \in Ids, DeliverCommand(i) PROVE ChannelInvariant'
  BY <1>6, ReceiveKeeps
<1>7. ASSUME NEW i \in Ids, DeliverAcknowledgement(i) PROVE ChannelInvariant'
  BY <1>7, AcknowledgementKeeps
<1>8. CASE UNCHANGED vars
  <2>1. /\ LaidOut /\ attempted \in 0 .. Len(commands) /\ NetworkRight /\ WindowsAgree
        /\ attempted \in Nat
    BY LayoutFacts DEF ChannelInvariant
  <2>2. /\ UNCHANGED <<packets, commands, attempted, expired, sentReliableCommands>>
        /\ UNCHANGED <<incomingReliableSequenceNumber, incomingReliableCommands,
                       dispatchedCommands, received, acknowledgements, data, acks>>
    BY <1>8 DEF vars, senderVars, receiverVars, networkVars
  <2>3. SenderGrows /\ LaidOut'
    BY <2>1, <2>2, SenderRests
  <2>4. NetworkRight' /\ Confirming' \subseteq Confirming
    BY <2>1, <2>2 DEF NetworkRight, Confirming, Unacknowledged
  <2>5. attempted' <= Len(commands') /\ Window(attempted') <= Window(OrderedTo) + FreeWindows - 1
    <3>1. attempted <= Len(commands)
      BY <2>1, LayoutFacts
    <3>. QED
      BY <2>1, <2>2, <3>1 DEF WindowsAgree
  <2>. QED
    BY <2>2, <2>3, <2>4, <2>5, QuietStep
<1>. QED
  BY <1>1, <1>2, <1>3, <1>4, <1>5, <1>6, <1>7, <1>8 DEF Next

(* The invariant of the whole channel: the packets lie one after the other, *)
(* the receiver has put the first of them in order, its list holds some of  *)
(* the next ones, what is or is being acknowledged is stored, and the two   *)
(* sides' windows agree.                                                    *)
THEOREM Channel == Spec => [](ChannelInvariant /\ SenderInvariant)
<1>1. Spec => []SenderInvariant
  BY ImplementsSender, Invariant, PTL
<1>2. Init => ChannelInvariant
  BY ChannelInitially
<1>3. ChannelInvariant /\ SenderInvariant /\ SenderInvariant' /\ [Next]_vars => ChannelInvariant'
  BY ChannelStepwise
<1>. QED
  BY <1>1, <1>2, <1>3, PTL DEF Spec

-----------------------------------------------------------------------------
(* What follows from the invariant.                                         *)

(* The packets dispatched are packets 1, 2, 3 ... up to Ordered.            *)
LEMMA DispatchedFacts ==
    ASSUME DispatchedRight
    PROVE  /\ DispatchedPackets \in Seq(Nat) /\ Len(DispatchedPackets) = Ordered
           /\ Ordered \in Nat
           /\ \A k \in 1 .. Ordered : DispatchedPackets[k] = k
<1>. DEFINE m == Len(received)
            l == Len(dispatchedCommands)
            rest == [k \in DOMAIN dispatchedCommands |-> dispatchedCommands[k].packet]
<1>1. /\ received \in Seq(Nat) /\ m \in Nat /\ l \in Nat /\ Ordered = m + l
      /\ DOMAIN dispatchedCommands = 1 .. l
      /\ \A k \in 1 .. m : received[k] = k
      /\ \A k \in 1 .. l : dispatchedCommands[k].packet = m + k
  BY LenProperties DEF DispatchedRight, Ordered
<1>2. rest \in Seq(Nat) /\ Len(rest) = l /\ \A k \in 1 .. l : rest[k] = m + k
  <2>1. rest \in [1 .. l -> Nat] /\ \A k \in 1 .. l : rest[k] = m + k
    <3>. HIDE DEF m, l
    <3>. QED
      BY <1>1
  <2>. HIDE DEF rest, l
  <2>2. rest \in Seq(Nat) /\ Len(rest) = l
    BY <1>1, <2>1
  <2>. QED
    BY <2>1, <2>2
<1>. HIDE DEF rest
<1>3. /\ received \o rest \in Seq(Nat) /\ Len(received \o rest) = m + Len(rest)
      /\ \A k \in 1 .. m + Len(rest) :
            (received \o rest)[k] = IF k <= m THEN received[k] ELSE rest[k - m]
  BY <1>1, <1>2, ConcatProperties
<1>4. ASSUME NEW k \in 1 .. m + l PROVE (received \o rest)[k] = k
  <2>1. (received \o rest)[k] = IF k <= m THEN received[k] ELSE rest[k - m]
    BY <1>2, <1>3
  <2>2. k <= m => k \in 1 .. m
    BY <1>1
  <2>3. ~ (k <= m) => k - m \in 1 .. l /\ m + (k - m) = k
    BY <1>1
  <2>. HIDE DEF m, l
  <2>. QED
    BY <1>1, <1>2, <2>1, <2>2, <2>3
<1>5. DispatchedPackets = received \o rest
  BY DEF DispatchedPackets, rest
<1>. QED
  BY <1>1, <1>2, <1>3, <1>4, <1>5

(* Packets are dispatched in the order in which they were sent, none        *)
(* skipped and none twice.                                                  *)
THEOREM DispatchedInOrder == Spec => []InOrderExactlyOnce
<1>1. ChannelInvariant => InOrderExactlyOnce
  <2>1. SUFFICES ASSUME ChannelInvariant PROVE InOrderExactlyOnce
    OBVIOUS
  <2>. DEFINE s == DispatchedPackets
  <2>2. s \in Seq(Nat) /\ Ordered \in Nat /\ Len(s) = Ordered /\ \A k \in 1 .. Ordered : s[k] = k
    BY <2>1, DispatchedFacts DEF ChannelInvariant
  <2>. HIDE DEF s
  <2>3. DOMAIN s = 1 .. Ordered /\ s = [k \in DOMAIN s |-> s[k]]
    BY <2>2
  <2>4. s = [k \in DOMAIN s |-> k]
    BY <2>2, <2>3
  <2>. QED
    BY <2>4 DEF InOrderExactlyOnce, s
<1>. QED
  BY <1>1, Channel, PTL

(* A command the sender has let go, or that the receiver is acknowledging,  *)
(* is on the receiver's list or has been dispatched.                        *)
THEOREM AcknowledgedStored == Spec => []AcknowledgedIsStored
<1>1. ChannelInvariant => AcknowledgedIsStored
  <2>1. SUFFICES ASSUME ChannelInvariant PROVE AcknowledgedIsStored
    OBVIOUS
  <2>2. Confirming \subseteq Stored /\ Len(DispatchedPackets) = Ordered
        /\ incomingReliableCommands \in Seq(EntryRecords)
    BY <2>1, DispatchedFacts DEF ChannelInvariant, ListRight
  <2>3. QueuedIds = IdsOf(incomingReliableCommands)
    <3>1. DOMAIN incomingReliableCommands = 1 .. Len(incomingReliableCommands)
      BY <2>2, LenProperties
    <3>. QED
      BY <3>1 DEF QueuedIds, IdsOf
  <2>4. ASSUME NEW i \in Confirming
        PROVE  i \in QueuedIds \/ commands[i] <= Len(DispatchedPackets)
    BY <2>2, <2>3 DEF Stored
  <2>. QED
    BY <2>4 DEF AcknowledgedIsStored, Confirming
<1>. QED
  BY <1>1, Channel, PTL

(* The entries of both lists only hold commands of their own packets; the   *)
(* list is in the order of the numbers around the circle, and within the    *)
(* receive window.                                                          *)
THEOREM ListsSound == Spec => []ListSound
<1>1. ChannelInvariant => ListSound
  <2>1. SUFFICES ASSUME ChannelInvariant PROVE ListSound
    OBVIOUS
  <2>. DEFINE list == incomingReliableCommands
              gone == dispatchedCommands
              inc == incomingReliableSequenceNumber
              r == OrderedTo
              Distance(k) == (list[k].number - inc) % Circle
  <2>2. /\ LaidOut /\ DispatchedRight /\ ListRight /\ r \in Nat
        /\ list \in Seq(EntryRecords) /\ gone \in Seq(EntryRecords)
        /\ Len(list) \in Nat /\ Len(gone) \in Nat
        /\ inc = Wire(r)
    <3>1. LaidOut /\ DispatchedRight /\ ListRight
      BY <2>1 DEF ChannelInvariant
    <3>. QED
      BY <3>1, OrderedFacts, LenProperties DEF DispatchedRight, ListRight
  <2>3. FragmentsBelong
    <3>. DEFINE entries == list \o gone
    <3>1. /\ entries \in Seq(EntryRecords) /\ Len(entries) = Len(list) + Len(gone)
          /\ \A k \in 1 .. Len(list) + Len(gone) :
                entries[k] = IF k <= Len(list) THEN list[k] ELSE gone[k - Len(list)]
      BY <2>2, ConcatProperties
    <3>. HIDE DEF entries
    <3>2. DOMAIN entries = 1 .. Len(list) + Len(gone)
      BY <3>1, LenProperties
    <3>3. ASSUME NEW k \in DOMAIN entries PROVE IsRight(entries[k])
      <4>1. k <= Len(list) => k \in 1 .. Len(list)
        BY <2>2, <3>2
      <4>2. ~ (k <= Len(list)) => k - Len(list) \in 1 .. Len(gone)
        BY <2>2, <3>2
      <4>3. \A j \in 1 .. Len(list) : IsRight(list[j])
        BY <2>2 DEF ListRight, InOrder
      <4>4. \A j \in 1 .. Len(gone) : IsRight(gone[j])
        BY <2>2 DEF DispatchedRight
      <4>. QED
        BY <3>1, <3>2, <4>1, <4>2, <4>3, <4>4
    <3>4. \A k \in DOMAIN entries : \A i \in entries[k].ids : commands[i] = entries[k].packet
      BY <2>2, <3>3, EntryFacts
    <3>. QED
      BY <3>4 DEF FragmentsBelong, entries
  <2>4. ASSUME NEW k \in 1 .. Len(list)
        PROVE  /\ list[k].packet \in 1 .. Len(packets)
               /\ Distance(k) = FirstOf(list[k].packet) - r
               /\ r < FirstOf(list[k].packet) /\ FirstOf(list[k].packet) \in Nat
               /\ InReceiveWindow(list[k].number, inc)
               /\ \A j \in 1 .. Len(list) : j < k => list[j].packet < list[k].packet
    <3>. DEFINE q == list[k].packet
                g == FirstOf(q)
    <3>1. /\ q \in 1 .. Len(packets) /\ q > Ordered /\ list[k].number = Wire(g)
          /\ Window(g) <= Window(r) + FreeWindows - 2
          /\ \A j \in 1 .. Len(list) : j < k => list[j].packet < q
      BY <2>2 DEF ListRight, InOrder, IsRight
    <3>2. g \in Nat /\ r < g
      BY <2>2, <3>1, OrderedFacts, LayoutFacts
    <3>. HIDE DEF g, q, r, inc
    <3>3. Window(g) \in Nat /\ Window(r) \in Nat
      BY <2>2, <3>2, WindowFacts
    <3>4. Window(g) <= Window(r) + FreeWindows - 1
      BY <3>1, <3>3, SequenceAssumption
    <3>5. /\ g < r + Circle /\ WindowsAhead(Wire(g), Wire(r)) = Window(g) - Window(r)
          /\ Window(g) - Window(r) \in 0 .. FreeWindows - 1
      BY <2>2, <3>2, <3>4, AheadFacts
    <3>6. (Wire(g) - Wire(r)) % Circle = g - r
      BY <2>2, <3>2, <3>5, OrderOnCircle
    <3>7. Window(g) - Window(r) \in 0 .. FreeWindows - 2
      BY <3>1, <3>3, <3>5, SequenceAssumption
    <3>8. InReceiveWindow(Wire(g), Wire(r))
      BY <3>5, <3>7 DEF InReceiveWindow
    <3>. QED
      BY <2>2, <3>1, <3>2, <3>6, <3>8 DEF g, q, inc, r
  <2>5. ListInOrder
    <3>1. ASSUME NEW k \in 1 .. Len(list)
          PROVE  /\ Distance(k) > 0
                 /\ k > 1 => Distance(k - 1) < Distance(k)
                 /\ InReceiveWindow(list[k].number, inc)
      <4>. DEFINE g == FirstOf(list[k].packet)
      <4>1. /\ Distance(k) = g - r /\ g \in Nat /\ r < g
            /\ InReceiveWindow(list[k].number, inc)
        BY <2>4
      <4>2. ASSUME k > 1 PROVE Distance(k - 1) < Distance(k)
        <5>. DEFINE h == FirstOf(list[k - 1].packet)
        <5>1. k - 1 \in 1 .. Len(list) /\ k - 1 < k
          BY <2>2, <4>2
        <5>2. /\ Distance(k - 1) = h - r /\ h \in Nat
              /\ list[k - 1].packet \in 1 .. Len(packets)
          BY <2>4, <5>1
        <5>3. list[k].packet \in 1 .. Len(packets) /\ list[k - 1].packet < list[k].packet
          BY <2>4, <5>1
        <5>4. h <= g /\ h # g
          <6>1. /\ list[k - 1].packet <= list[k].packet
                /\ list[k - 1].packet # list[k].packet
            <7>. DEFINE a == list[k - 1].packet
                        b == list[k].packet
            <7>1. a \in 1 .. Len(packets) /\ b \in 1 .. Len(packets) /\ a < b
              BY <5>2, <5>3
            <7>2. Len(packets) \in Nat
              BY <2>2, LayoutFacts
            <7>. HIDE DEF a, b
            <7>3. a <= b /\ a # b
              BY <7>1, <7>2
            <7>. QED
              BY <7>3 DEF a, b
          <6>. QED
            BY <2>2, <5>2, <5>3, <6>1, LayoutOrder
        <5>. HIDE DEF Distance, g, h, r
        <5>. QED
          BY <2>2, <4>1, <5>2, <5>4
      <4>3. Distance(k) > 0
        <5>. HIDE DEF Distance, g, r
        <5>. QED
          BY <2>2, <4>1
      <4>. QED
        BY <4>1, <4>2, <4>3
    <3>2. DOMAIN list = 1 .. Len(list)
      BY <2>2, LenProperties
    <3>. QED
      BY <3>1, <3>2 DEF ListInOrder
  <2>. QED
    BY <2>3, <2>5 DEF ListSound
<1>. QED
  BY <1>1, Channel, PTL

(* What was dispatched is smaller than FreeWindows windows.                 *)
OnlyFittingPackets ==
    \A p \in 1 .. Len(DispatchedPackets) :
        Span(packets[p].fragmentCount) < FreeWindows * WindowSize

(* A packet that has been dispatched has fewer fragments than there are     *)
(* commands in FreeWindows windows: enet_peer_send takes larger ones, but   *)
(* the window tests of the two sides together never let them through.       *)
THEOREM LargePacketsStay == Spec => []OnlyFittingPackets
<1>1. ChannelInvariant => OnlyFittingPackets
  BY DispatchedFacts DEF ChannelInvariant, DispatchedRight, OnlyFittingPackets
<1>. QED
  BY <1>1, Channel, PTL

-----------------------------------------------------------------------------
(* The space of the packets that wait.                                      *)

(* The commands of the packets of a set.                                    *)
CommandsOf(P) == {i \in Ids : commands[i] \in P}

(* The packets that have arrived in part or are waiting to be fetched.      *)
Waiting == PacketsOn(incomingReliableCommands) \cup PacketsOn(dispatchedCommands)

SpaceCounted == totalWaitingData = Cardinality(CommandsOf(Waiting))

(* A packet more takes the space of its fragments more.                     *)
LEMMA SpaceAdded ==
    ASSUME LaidOut, NEW P, NEW p \in 1 .. Len(packets), p \notin P
    PROVE  /\ Cardinality(CommandsOf(P)) \in Nat
           /\ Cardinality(CommandsOf(P \cup {p}))
                 = Cardinality(CommandsOf(P)) + Span(packets[p].fragmentCount)
<1>. DEFINE f == FirstOf(p)
            l == LastOf(p)
            s == Span(packets[p].fragmentCount)
            S == CommandsOf(P)
            T == f .. l
<1>1. /\ Len(commands) \in Nat /\ f \in Nat \ {0} /\ l \in Nat /\ f <= l /\ l <= Len(commands)
      /\ s \in Nat /\ l = f + s - 1
      /\ \A i \in Ids : commands[i] = p <=> i \in f .. l
  BY LayoutFacts DEF LaidOut
<1>. HIDE DEF f, l, s
<1>2. T \subseteq Ids
  BY <1>1 DEF Ids
<1>3. IsFiniteSet(Ids)
  <2>1. 1 \in Int /\ Len(commands) \in Int
    BY <1>1
  <2>. QED
    BY <2>1, FS_Interval DEF Ids
<1>4. IsFiniteSet(S) /\ Cardinality(S) \in Nat
  <2>1. S \in SUBSET Ids
    BY DEF CommandsOf
  <2>. HIDE DEF S
  <2>. QED
    BY <1>3, <2>1, FS_Subset, FS_CardinalityType
<1>5. IsFiniteSet(T) /\ Cardinality(T) = s
  <2>1. f \in Int /\ l \in Int /\ ~ (f > l) /\ l - f + 1 = s
    BY <1>1
  <2>2. IsFiniteSet(f .. l) /\ Cardinality(f .. l) = IF f > l THEN 0 ELSE l - f + 1
    BY <2>1, FS_Interval
  <2>. QED
    BY <2>1, <2>2
<1>6. S \cap T = {}
  BY <1>1, <1>2 DEF CommandsOf
<1>7. CommandsOf(P \cup {p}) = S \cup T
  BY <1>1, <1>2 DEF CommandsOf
<1>. HIDE DEF S, T
<1>8. Cardinality(S \cup T) = Cardinality(S) + s - Cardinality({})
  BY <1>4, <1>5, <1>6, FS_Union
<1>9. Cardinality({}) = 0
  BY FS_EmptySet
<1>. DEFINE c == Cardinality(S)
<1>. HIDE DEF c
<1>10. Cardinality(S \cup T) = c + s
  <2>1. c \in Nat
    BY <1>4 DEF c
  <2>. QED
    BY <1>1, <1>8, <1>9, <2>1 DEF c
<1>. QED
  BY <1>4, <1>7, <1>10 DEF S, s, c

(* Moving the head of a list to the application changes nothing.            *)
LEMMA WaitingMoved ==
    ASSUME dispatchedCommands \in Seq(EntryRecords), NEW list \in Seq(EntryRecords),
           NEW n \in 0 .. Len(list), Moved(list, n)
    PROVE  Waiting' = PacketsOn(list) \cup PacketsOn(dispatchedCommands)
<1>. DEFINE m == Len(dispatchedCommands)
            W == PacketsOn(list) \cup PacketsOn(dispatchedCommands)
<1>1. /\ Len(list) \in Nat /\ n \in Nat /\ n <= Len(list) /\ m \in Nat
  BY LenProperties
<1>2. /\ Len(dispatchedCommands') = m + n
      /\ \A k \in 1 .. m + n :
            dispatchedCommands'[k] = IF k <= m THEN dispatchedCommands[k] ELSE list[k - m]
      /\ Len(incomingReliableCommands') = Len(list) - n
      /\ \A k \in 1 .. Len(list) - n :
            incomingReliableCommands'[k] = list[n + k] /\ n + k \in 1 .. Len(list)
  BY MovedLists
<1>. HIDE DEF m
<1>3. ASSUME NEW k \in 1 .. m + n PROVE dispatchedCommands'[k].packet \in W
  <2>1. CASE k <= m
    <3>1. k \in 1 .. m /\ dispatchedCommands'[k] = dispatchedCommands[k]
      BY <1>1, <1>2, <2>1
    <3>. QED
      BY <3>1 DEF PacketsOn, m
  <2>2. CASE ~ (k <= m)
    <3>1. k - m \in 1 .. Len(list)
      BY <1>1, <2>2
    <3>2. dispatchedCommands'[k] = list[k - m]
      BY <1>2, <2>2
    <3>. QED
      BY <3>1, <3>2 DEF PacketsOn
  <2>. QED
    BY <2>1, <2>2
<1>4. ASSUME NEW k \in 1 .. Len(list) - n PROVE incomingReliableCommands'[k].packet \in W
  BY <1>2 DEF PacketsOn
<1>5. ASSUME NEW k \in 1 .. m PROVE dispatchedCommands[k].packet \in Waiting'
  <2>1. k \in 1 .. m + n /\ k <= m
    BY <1>1
  <2>2. k \in 1 .. Len(dispatchedCommands') /\ dispatchedCommands'[k] = dispatchedCommands[k]
    BY <1>2, <2>1
  <2>. QED
    BY <2>2 DEF Waiting, PacketsOn
<1>6. ASSUME NEW k \in 1 .. Len(list) PROVE list[k].packet \in Waiting'
  <2>1. CASE k <= n
    <3>1. m + k \in 1 .. m + n /\ ~ (m + k <= m) /\ (m + k) - m = k
      BY <1>1, <2>1
    <3>2. m + k \in 1 .. Len(dispatchedCommands') /\ dispatchedCommands'[m + k] = list[k]
      BY <1>2, <3>1
    <3>. QED
      BY <3>2 DEF Waiting, PacketsOn
  <2>2. CASE ~ (k <= n)
    <3>1. k - n \in 1 .. Len(list) - n /\ n + (k - n) = k
      BY <1>1, <2>2
    <3>2. k - n \in 1 .. Len(incomingReliableCommands')
          /\ incomingReliableCommands'[k - n] = list[k]
      BY <1>2, <3>1
    <3>. QED
      BY <3>2 DEF Waiting, PacketsOn
  <2>. QED
    BY <2>1, <2>2
<1>7. Waiting' \subseteq W
  <2>1. PacketsOn(incomingReliableCommands') \subseteq W
    BY <1>2, <1>4 DEF PacketsOn
  <2>2. PacketsOn(dispatchedCommands') \subseteq W
    BY <1>2, <1>3 DEF PacketsOn
  <2>3. Waiting' = PacketsOn(incomingReliableCommands') \cup PacketsOn(dispatchedCommands')
    BY DEF Waiting, PacketsOn
  <2>. QED
    BY <2>1, <2>2, <2>3
<1>8. W \subseteq Waiting'
  <2>1. PacketsOn(list) \subseteq Waiting'
    BY <1>6 DEF PacketsOn
  <2>2. PacketsOn(dispatchedCommands) \subseteq Waiting'
    BY <1>5 DEF PacketsOn, m
  <2>. QED
    BY <2>1, <2>2
<1>. QED
  BY <1>7, <1>8

(* A datagram that is put on the list is counted once.                      *)
LEMMA DeliverCounts ==
    ASSUME ChannelInvariant, SpaceCounted, NEW i \in Ids, DeliverCommand(i)
    PROVE  SpaceCounted'
<1>. DEFINE old == PacketsOn(incomingReliableCommands)
            gone == PacketsOn(dispatchedCommands)
            p == commands[i]
<1>1. i \in data /\ ReceiveCommand(Datagram(i)) /\ UNCHANGED <<packets, commands>>
  BY DEF DeliverCommand, senderVars, networkVars
<1>2. PICK list, n : Outcome(i, list, n)
  BY <1>1, ReceiveOutcome
<1>3. /\ LaidOut /\ DispatchedRight /\ dispatchedCommands \in Seq(EntryRecords)
      /\ p \in 1 .. Len(packets)
  BY <1>1, DatagramFacts DEF ChannelInvariant, DispatchedRight
<1>4. Waiting' = PacketsOn(list) \cup gone
  BY <1>2, <1>3, WaitingMoved DEF Outcome
<1>5. CommandsOf(Waiting)' = CommandsOf(PacketsOn(list) \cup gone)
  BY <1>1, <1>4 DEF CommandsOf, Ids
<1>6. Accounted(i, list)
  BY <1>2 DEF Outcome
<1>7. CASE totalWaitingData' = totalWaitingData /\ PacketsOn(list) = old
  BY <1>5, <1>7 DEF SpaceCounted, Waiting
<1>8. CASE /\ totalWaitingData' = totalWaitingData + Span(packets[p].fragmentCount)
           /\ PacketsOn(list) = old \cup {p}
           /\ p \notin old
           /\ p > Ordered
  <2>1. p \notin gone
    <3>1. SUFFICES ASSUME NEW k \in 1 .. Len(dispatchedCommands),
                          dispatchedCommands[k].packet = p
                   PROVE  FALSE
      BY DEF PacketsOn
    <3>2. /\ Len(dispatchedCommands) \in Nat /\ Len(received) \in Nat
          /\ p = Len(received) + k
      BY <1>3, <3>1, LenProperties DEF DispatchedRight
    <3>. HIDE DEF p
    <3>. QED
      BY <1>8, <3>2 DEF Ordered
  <2>2. p \notin Waiting /\ PacketsOn(list) \cup gone = Waiting \cup {p}
    BY <1>8, <2>1 DEF Waiting
  <2>3. Cardinality(CommandsOf(Waiting \cup {p}))
           = Cardinality(CommandsOf(Waiting)) + Span(packets[p].fragmentCount)
    BY <1>3, <2>2, SpaceAdded
  <2>. QED
    BY <1>5, <1>8, <2>2, <2>3 DEF SpaceCounted
<1>. QED
  BY <1>6, <1>7, <1>8 DEF Accounted

(* A packet that is fetched gives its space back, all of it.                *)
LEMMA FetchCounts ==
    ASSUME ChannelInvariant, SpaceCounted, Receive
    PROVE  SpaceCounted'
<1>. DEFINE m == Len(received)
            l == Len(dispatchedCommands)
            p == m + 1
            s == Span(packets[p].fragmentCount)
            rest == PacketsOn(incomingReliableCommands) \cup PacketsOn(Tail(dispatchedCommands))
<1>1. /\ dispatchedCommands # <<>>
      /\ dispatchedCommands' = Tail(dispatchedCommands)
      /\ totalWaitingData' = totalWaitingData
                                - Min({totalWaitingData, SpanOf(Head(dispatchedCommands))})
      /\ UNCHANGED <<incomingReliableCommands, packets, commands>>
  BY DEF Receive, PeerReceive, senderVars, networkVars
<1>2. /\ LaidOut /\ DispatchedRight /\ ListRight
      /\ dispatchedCommands \in Seq(EntryRecords)
      /\ incomingReliableCommands \in Seq(EntryRecords)
  BY DEF ChannelInvariant, DispatchedRight, ListRight
<1>3. /\ m \in Nat /\ l \in Nat /\ Ordered = m + l /\ Ordered <= Len(packets)
      /\ Len(packets) \in Nat
  BY <1>2, LenProperties, OrderedFacts, LayoutFacts DEF DispatchedRight, Ordered
<1>4. /\ l # 0 /\ Head(dispatchedCommands) = dispatchedCommands[1]
      /\ Len(Tail(dispatchedCommands)) = l - 1
      /\ \A k \in 1 .. l - 1 : Tail(dispatchedCommands)[k] = dispatchedCommands[k + 1]
  <2>1. l # 0
    BY <1>1, <1>2, EmptySeq
  <2>. QED
    BY <1>1, <1>2, <2>1, HeadTailProperties
<1>5. /\ 1 \in 1 .. l /\ p \in 1 .. Len(packets)
      /\ \A k \in 1 .. l : dispatchedCommands[k].packet = m + k /\ IsRight(dispatchedCommands[k])
  BY <1>2, <1>3, <1>4 DEF DispatchedRight
<1>6. dispatchedCommands[1].packet = p
  BY <1>5
<1>7. SpanOf(Head(dispatchedCommands)) = s
  <2>1. dispatchedCommands[1].fragmentCount = packets[p].fragmentCount
    BY <1>5, <1>6 DEF IsRight
  <2>. QED
    BY <1>4, <2>1 DEF SpanOf, Span
<1>8. \A k \in 1 .. l - 1 : k + 1 \in 1 .. l /\ k + 1 # 1
  BY <1>3
<1>9. PacketsOn(dispatchedCommands) = {p} \cup PacketsOn(Tail(dispatchedCommands))
  <2>1. ASSUME NEW k \in 1 .. l
        PROVE  dispatchedCommands[k].packet \in {p} \cup PacketsOn(Tail(dispatchedCommands))
    <3>1. CASE k = 1
      BY <1>6, <3>1
    <3>2. CASE k # 1
      <4>1. k - 1 \in 1 .. l - 1 /\ (k - 1) + 1 = k
        BY <1>3, <3>2
      <4>2. /\ k - 1 \in 1 .. Len(Tail(dispatchedCommands))
            /\ Tail(dispatchedCommands)[k - 1] = dispatchedCommands[k]
        BY <1>4, <4>1
      <4>. QED
        BY <4>2 DEF PacketsOn
    <3>. QED
      BY <3>1, <3>2
  <2>2. p \in PacketsOn(dispatchedCommands)
    BY <1>5, <1>6 DEF PacketsOn
  <2>3. ASSUME NEW k \in 1 .. l - 1
        PROVE  Tail(dispatchedCommands)[k].packet \in PacketsOn(dispatchedCommands)
    BY <1>4, <1>8 DEF PacketsOn
  <2>4. PacketsOn(dispatchedCommands) \subseteq {p} \cup PacketsOn(Tail(dispatchedCommands))
    BY <2>1 DEF PacketsOn
  <2>5. PacketsOn(Tail(dispatchedCommands)) \subseteq PacketsOn(dispatchedCommands)
    BY <1>4, <2>3 DEF PacketsOn
  <2>. QED
    BY <2>2, <2>4, <2>5
<1>10. p \notin rest
  <2>1. ASSUME NEW k \in 1 .. l - 1, Tail(dispatchedCommands)[k].packet = p PROVE FALSE
    <3>1. Tail(dispatchedCommands)[k].packet = m + (k + 1)
      BY <1>4, <1>5, <1>8
    <3>. QED
      BY <1>3, <2>1, <3>1
  <2>2. ASSUME NEW k \in 1 .. Len(incomingReliableCommands),
               incomingReliableCommands[k].packet = p
        PROVE  FALSE
    <3>1. p > Ordered
      BY <1>2, <2>2 DEF ListRight, InOrder
    <3>. QED
      BY <1>3, <1>4, <3>1
  <2>. QED
    BY <1>4, <2>1, <2>2 DEF PacketsOn
<1>11. Waiting = rest \cup {p}
  BY <1>9 DEF Waiting
<1>12. Waiting' = rest
  BY <1>1 DEF Waiting, PacketsOn
<1>13. CommandsOf(Waiting)' = CommandsOf(rest)
  BY <1>1, <1>12 DEF CommandsOf, Ids
<1>. HIDE DEF rest
<1>14. /\ Cardinality(CommandsOf(rest)) \in Nat
       /\ Cardinality(CommandsOf(rest \cup {p})) = Cardinality(CommandsOf(rest)) + s
  BY <1>2, <1>5, <1>10, SpaceAdded
<1>15. s \in Nat
  BY <1>2, <1>5, LayoutFacts
<1>. HIDE DEF s
<1>16. totalWaitingData = Cardinality(CommandsOf(rest)) + s
  BY <1>11, <1>14 DEF SpaceCounted
<1>17. Min({totalWaitingData, s}) = s
  <2>1. totalWaitingData \in Nat /\ s <= totalWaitingData
    BY <1>14, <1>15, <1>16
  <2>2. s \in {totalWaitingData, s} /\ \A y \in {totalWaitingData, s} : s <= y
    BY <1>15, <2>1
  <2>3. \A x \in {totalWaitingData, s} :
           (\A y \in {totalWaitingData, s} : x <= y) => x = s
    BY <1>15, <2>1
  <2>. QED
    BY <2>2, <2>3 DEF Min
<1>18. totalWaitingData' = Cardinality(CommandsOf(rest))
  <2>. DEFINE c == Cardinality(CommandsOf(rest))
  <2>1. c \in Nat /\ totalWaitingData = c + s
    BY <1>14, <1>16
  <2>2. totalWaitingData' = totalWaitingData - s
    BY <1>1, <1>7, <1>17
  <2>. HIDE DEF c
  <2>3. totalWaitingData' = c
    BY <1>15, <2>1, <2>2
  <2>. QED
    BY <2>3 DEF c
<1>. QED
  BY <1>13, <1>18 DEF SpaceCounted

(* Nothing else changes what waits or the packets it is part of.            *)
LEMMA SpaceStepwise ==
    ChannelInvariant /\ SpaceCounted /\ [Next]_vars => SpaceCounted'
<1>. SUFFICES ASSUME ChannelInvariant, SpaceCounted, [Next]_vars
              PROVE  SpaceCounted'
  OBVIOUS
<1>1. ASSUME UNCHANGED <<incomingReliableCommands, dispatchedCommands, totalWaitingData>>,
             UNCHANGED commands
      PROVE  SpaceCounted'
  <2>1. CommandsOf(Waiting)' = CommandsOf(Waiting)
    BY <1>1 DEF CommandsOf, Waiting, PacketsOn, Ids
  <2>. QED
    BY <1>1, <2>1 DEF SpaceCounted
<1>2. ASSUME NEW n \in FragmentCounts, Send(n) PROVE SpaceCounted'
  <2>1. /\ UNCHANGED <<incomingReliableCommands, dispatchedCommands, totalWaitingData>>
        /\ SendPacket(n)
    BY <1>2 DEF Send, receiverVars
  <2>2. /\ LaidOut /\ DispatchedRight /\ ListRight /\ attempted \in 0 .. Len(commands)
        /\ Len(packets) \in Nat /\ Len(commands) \in Nat
    BY LayoutFacts DEF ChannelInvariant
  <2>3. SenderGrows /\ LaidOut'
    BY <2>1, <2>2, NewPlaces
  <2>4. Waiting' = Waiting /\ Waiting \subseteq 1 .. Len(packets)
    <3>1. \A k \in 1 .. Len(incomingReliableCommands) :
             incomingReliableCommands[k].packet \in 1 .. Len(packets)
      BY <2>2 DEF ListRight, InOrder, IsRight
    <3>2. \A k \in 1 .. Len(dispatchedCommands) :
             dispatchedCommands[k].packet \in 1 .. Len(packets)
      BY <2>2 DEF DispatchedRight, IsRight
    <3>. QED
      BY <2>1, <3>1, <3>2 DEF Waiting, PacketsOn
  <2>5. ASSUME NEW i \in Ids PROVE i \in Ids' /\ commands'[i] = commands[i]
    BY <2>2, <2>3, RightLater
  <2>6. ASSUME NEW p \in Waiting, NEW i \in Ids', commands'[i] = p PROVE i \in Ids
    <3>1. p \in 1 .. Len(packets) /\ p \in 1 .. Len(packets') /\ LastOf(p)' = LastOf(p)
          /\ FirstOf(p)' = FirstOf(p)
      BY <2>2, <2>3, <2>4, <2>6, RightLater
    <3>2. i \in FirstOf(p) .. LastOf(p)
      BY <2>3, <2>6, <3>1 DEF LaidOut
    <3>3. LastOf(p) <= Len(commands) /\ FirstOf(p) \in Nat \ {0} /\ LastOf(p) \in Nat
      BY <2>2, <3>1, LayoutFacts DEF LaidOut
    <3>. QED
      BY <2>2, <3>2, <3>3 DEF Ids
  <2>7. CommandsOf(Waiting)' = CommandsOf(Waiting)
    BY <2>4, <2>5, <2>6 DEF CommandsOf
  <2>. QED
    BY <2>1, <2>7 DEF SpaceCounted
<1>3. CASE TransmitNew
  BY <1>1, <1>3 DEF TransmitNew, SendNew, receiverVars
<1>4. CASE SendAcknowledgements
  BY <1>1, <1>4 DEF SendAcknowledgements, senderVars
<1>5. CASE Receive
  BY <1>5, FetchCounts
<1>6. ASSUME NEW i \in Ids, Retransmit(i) \/ CheckTimeouts(i) \/ Lose(i)
      PROVE  SpaceCounted'
  BY <1>1, <1>6 DEF Retransmit, CheckTimeouts, Lose, Resend, Expire, senderVars, receiverVars
<1>7. ASSUME NEW i \in Ids, DeliverCommand(i) PROVE SpaceCounted'
  BY <1>7, DeliverCounts
<1>8. ASSUME NEW i \in Ids, DeliverAcknowledgement(i) PROVE SpaceCounted'
  BY <1>1, <1>8 DEF DeliverAcknowledgement, Acknowledge, RemoveCommand, receiverVars
<1>9. CASE UNCHANGED vars
  BY <1>1, <1>9 DEF vars, senderVars, receiverVars
<1>. QED
  BY <1>2, <1>3, <1>4, <1>5, <1>6, <1>7, <1>8, <1>9 DEF Next

(* totalWaitingData is the space of the packets on the two lists, each with *)
(* all its fragments from when the first one came until it is fetched:      *)
(* enet_peer_receive never has to give back less than the packet took.      *)
THEOREM WaitingCounted == Spec => []WaitingAccounting
<1>1. Init => SpaceCounted
  <2>1. SUFFICES ASSUME Init PROVE SpaceCounted
    OBVIOUS
  <2>2. /\ incomingReliableCommands = <<>> /\ dispatchedCommands = <<>>
        /\ totalWaitingData = 0
    BY <2>1 DEF Init, ReceiverInit
  <2>3. PacketsOn(<<>>) = {}
    BY EmptySeq DEF PacketsOn
  <2>4. CommandsOf(Waiting) = {}
    BY <2>2, <2>3 DEF CommandsOf, Waiting
  <2>. QED
    BY <2>2, <2>4, FS_EmptySet DEF SpaceCounted
<1>2. ChannelInvariant /\ SpaceCounted => WaitingAccounting
  <2>1. SUFFICES ASSUME ChannelInvariant, SpaceCounted PROVE WaitingAccounting
    OBVIOUS
  <2>. DEFINE list == incomingReliableCommands
              gone == dispatchedCommands
              entries == list \o gone
  <2>2. /\ list \in Seq(EntryRecords) /\ gone \in Seq(EntryRecords)
        /\ Len(list) \in Nat /\ Len(gone) \in Nat
    BY <2>1, LenProperties DEF ChannelInvariant, DispatchedRight, ListRight
  <2>3. /\ DOMAIN entries = 1 .. Len(list) + Len(gone)
        /\ \A k \in 1 .. Len(list) + Len(gone) :
              entries[k] = IF k <= Len(list) THEN list[k] ELSE gone[k - Len(list)]
    BY <2>2, ConcatProperties, LenProperties
  <2>4. WaitingPackets = {entries[k].packet : k \in DOMAIN entries}
    BY DEF WaitingPackets
  <2>. HIDE DEF entries
  <2>5. ASSUME NEW k \in DOMAIN entries PROVE entries[k].packet \in Waiting
    <3>1. CASE k <= Len(list)
      <4>1. k \in 1 .. Len(list) /\ entries[k] = list[k]
        BY <2>2, <2>3, <3>1
      <4>. QED
        BY <4>1 DEF Waiting, PacketsOn
    <3>2. CASE ~ (k <= Len(list))
      <4>1. k - Len(list) \in 1 .. Len(gone) /\ entries[k] = gone[k - Len(list)]
        BY <2>2, <2>3, <3>2
      <4>. QED
        BY <4>1 DEF Waiting, PacketsOn
    <3>. QED
      BY <3>1, <3>2
  <2>6. ASSUME NEW k \in 1 .. Len(list) PROVE list[k].packet \in WaitingPackets
    <3>1. k \in DOMAIN entries /\ entries[k] = list[k]
      BY <2>2, <2>3
    <3>2. list[k].packet = entries[k].packet
      BY <3>1
    <3>. QED
      BY <2>4, <3>1, <3>2
  <2>7. ASSUME NEW k \in 1 .. Len(gone) PROVE gone[k].packet \in WaitingPackets
    <3>. DEFINE j == Len(list) + k
    <3>1. j \in 1 .. Len(list) + Len(gone) /\ ~ (j <= Len(list)) /\ j - Len(list) = k
      BY <2>2
    <3>2. j \in DOMAIN entries /\ gone[k].packet = entries[j].packet
      BY <2>3, <3>1
    <3>. QED
      BY <2>4, <3>2
  <2>8. WaitingPackets = Waiting
    <3>1. WaitingPackets \subseteq Waiting
      BY <2>4, <2>5
    <3>2. Waiting \subseteq WaitingPackets
      BY <2>6, <2>7 DEF Waiting, PacketsOn
    <3>. QED
      BY <3>1, <3>2
  <2>. QED
    BY <2>1, <2>8 DEF SpaceCounted, WaitingAccounting, CommandsOf
<1>3. Spec => []SpaceCounted
  <2>1. ChannelInvariant /\ SpaceCounted /\ [Next]_vars => SpaceCounted'
    BY SpaceStepwise
  <2>. QED
    BY <1>1, <2>1, Channel, PTL DEF Spec
<1>. QED
  BY <1>2, <1>3, Channel, PTL

-----------------------------------------------------------------------------
(* The channel implements ReliableDelivery.                                 *)

(* The packets with the receiving host are those dispatched and those       *)
(* complete on the list.                                                    *)
LEMMA ArrivedFacts ==
    ASSUME ChannelInvariant
    PROVE  /\ Arrived = (1 .. Ordered) \cup CompleteOn(incomingReliableCommands)
           /\ DOMAIN packets = 1 .. Len(packets) /\ Len(packets) \in Nat
           /\ Ordered \in Nat /\ Ordered <= Len(packets)
<1>1. LaidOut /\ DispatchedRight /\ incomingReliableCommands \in Seq(EntryRecords)
  BY DEF ChannelInvariant, ListRight
<1>2. /\ Len(DispatchedPackets) = Ordered /\ Ordered \in Nat /\ Ordered <= Len(packets)
      /\ Len(packets) \in Nat /\ DOMAIN packets = 1 .. Len(packets)
      /\ DOMAIN incomingReliableCommands = 1 .. Len(incomingReliableCommands)
  BY <1>1, DispatchedFacts, OrderedFacts, LayoutFacts, LenProperties DEF LaidOut
<1>3. Arrived = {p \in 1 .. Len(packets) :
                    p <= Ordered \/ p \in CompleteOn(incomingReliableCommands)}
  BY <1>2 DEF Arrived, CompleteOn
<1>4. /\ CompleteOn(incomingReliableCommands) \subseteq 1 .. Len(packets)
      /\ 1 .. Ordered \subseteq 1 .. Len(packets)
  BY <1>2 DEF CompleteOn
<1>5. \A p \in 1 .. Len(packets) : p <= Ordered <=> p \in 1 .. Ordered
  BY <1>2
<1>. QED
  BY <1>2, <1>3, <1>4, <1>5

(* A packet the sender has destroyed is with the receiver as a whole.       *)
LEMMA ConfirmedArrived ==
    ChannelInvariant /\ SenderInvariant => Confirmed \subseteq Arrived
<1>. SUFFICES ASSUME ChannelInvariant, SenderInvariant, NEW p \in Confirmed
              PROVE  p \in Arrived
  OBVIOUS
<1>. DEFINE list == incomingReliableCommands
            f == FirstOf(p)
            l == LastOf(p)
<1>1. /\ LaidOut /\ DispatchedRight /\ ListRight /\ Confirming \subseteq Stored
      /\ Lists /\ ReferencesCounted /\ attempted \in Nat
  BY ListFacts DEF ChannelInvariant, SenderInvariant, Packets
<1>2. p \in 1 .. Len(packets) /\ packets[p].referenceCount = 0 /\ p \in DOMAIN packets
  BY ArrivedFacts DEF Confirmed
<1>3. {i \in Outgoing : commands[i] = p} = {}
  <2>. DEFINE U == {i \in Outgoing : commands[i] = p}
  <2>1. Cardinality(U) = 0
    BY <1>1, <1>2 DEF ReferencesCounted
  <2>2. IsFiniteSet(U)
    BY <1>1, ListFacts, FS_Subset
  <2>. HIDE DEF U
  <2>. QED
    BY <2>1, <2>2, FS_EmptySet DEF U
<1>4. f \in Nat \ {0} /\ l \in Nat /\ f <= l /\ l <= Len(commands) /\ Len(commands) \in Nat
  BY <1>1, <1>2, LayoutFacts DEF LaidOut
<1>5. \A i \in f .. l : i \in Ids /\ commands[i] = p
  <2>1. \A i \in Ids : commands[i] = p <=> i \in f .. l
    BY <1>1, <1>2 DEF LaidOut
  <2>2. \A i \in f .. l : i \in Ids
    <3>. HIDE DEF f, l
    <3>. QED
      BY <1>4 DEF Ids
  <2>. QED
    BY <2>1, <2>2
<1>. HIDE DEF f, l
<1>6. \A i \in f .. l : i \in Confirming
  <2>1. SUFFICES ASSUME NEW i \in f .. l PROVE i \in Confirming
    OBVIOUS
  <2>2. i \in Ids /\ i \notin Outgoing
    BY <1>3, <1>5
  <2>3. i \notin Unacknowledged /\ i \notin attempted + 1 .. Len(commands)
    BY <2>2 DEF Outgoing
  <2>4. i \in 1 .. attempted
    BY <1>1, <1>4, <2>2, <2>3 DEF Ids
  <2>. QED
    BY <2>3, <2>4 DEF Confirming
<1>7. CASE p <= Ordered
  <2>1. p \in 1 .. Ordered
    BY <1>2, <1>7, ArrivedFacts
  <2>. QED
    BY <2>1, ArrivedFacts
<1>8. CASE ~ (p <= Ordered)
  <2>1. ASSUME NEW i \in f .. l
        PROVE  \E k \in 1 .. Len(list) : i \in list[k].ids /\ list[k].packet = p
    <3>1. i \in IdsOf(list)
      BY <1>1, <1>5, <1>6, <1>8 DEF Stored
    <3>2. PICK k \in 1 .. Len(list) : i \in list[k].ids
      BY <3>1 DEF IdsOf
    <3>3. IsRight(list[k])
      BY <1>1 DEF ListRight, InOrder
    <3>4. commands[i] = list[k].packet
      BY <1>1, <3>2, <3>3, EntryFacts
    <3>. QED
      BY <1>5, <3>2, <3>4
  <2>2. f \in f .. l
    BY <1>4
  <2>3. PICK k \in 1 .. Len(list) : list[k].packet = p
    BY <2>1, <2>2
  <2>4. \A j \in 1 .. Len(list) : list[j].packet = p => j = k
    <3>1. SUFFICES ASSUME NEW j \in 1 .. Len(list), list[j].packet = p, j # k PROVE FALSE
      OBVIOUS
    <3>2. Len(list) \in Nat
      BY <1>1, LenProperties DEF ListRight
    <3>3. j < k \/ k < j
      BY <3>1, <3>2
    <3>4. p < p
      BY <1>1, <2>3, <3>1, <3>3 DEF ListRight, InOrder
    <3>. QED
      BY <1>2, <3>4
  <2>5. f .. l \subseteq list[k].ids
    BY <2>1, <2>4
  <2>6. IsRight(list[k])
    BY <1>1 DEF ListRight, InOrder
  <2>7. list[k].ids \subseteq f .. l /\ (IsComplete(list[k]) <=> list[k].ids = f .. l)
    BY <1>1, <2>3, <2>6, EntryFacts DEF f, l
  <2>8. IsComplete(list[k])
    BY <2>5, <2>7
  <2>9. p \in CompleteOn(list)
    BY <1>2, <2>3, <2>8 DEF CompleteOn
  <2>. QED
    BY <2>9, ArrivedFacts
<1>. QED
  BY <1>7, <1>8

(* Steps that neither send, nor store, nor fetch, nor acknowledge.          *)
LEMMA Unseen ==
    ASSUME UNCHANGED <<packets, incomingReliableCommands, dispatchedCommands, received>>
    PROVE  UNCHANGED <<Len(packets), Arrived, received, Confirmed>>
BY DEF Arrived, Confirmed, DispatchedPackets, IsComplete

(* Sending a packet offers it.                                              *)
LEMMA SendOffers ==
    ASSUME ChannelInvariant, SenderInvariant, NEW n \in FragmentCounts, Send(n)
    PROVE  Delivery!Offer
<1>1. /\ packets' = Append(packets, NewPacket(n))
      /\ UNCHANGED <<incomingReliableCommands, dispatchedCommands, received>>
  BY DEF Send, SendPacket, receiverVars
<1>2. NewPacket(n) \in PacketRecords /\ NewPacket(n).referenceCount # 0
  <2>1. n \in Nat
    BY SenderAssumption
  <2>2. Span(n) \in Nat \ {0}
    BY <2>1 DEF Span
  <2>3. Len(commands) \in Nat
    BY LayoutFacts DEF ChannelInvariant
  <2>. QED
    BY <2>2, <2>3 DEF NewPacket, PacketRecords
<1>. DEFINE new == NewPacket(n)
            m == Len(packets)
<1>. HIDE DEF new
<1>3. packets \in Seq(PacketRecords) /\ m \in Nat /\ DOMAIN packets = 1 .. m
      /\ Ordered \in Nat /\ Ordered <= m /\ Len(DispatchedPackets) = Ordered
  BY ArrivedFacts, DispatchedFacts DEF ChannelInvariant, LaidOut
<1>4. /\ packets' \in Seq(PacketRecords) /\ Len(packets') = m + 1
      /\ \A p \in 1 .. m : packets'[p] = packets[p]
      /\ packets'[m + 1] = new
  BY <1>1, <1>2, <1>3, AppendProperties DEF new
<1>5. DOMAIN packets' = 1 .. m + 1 /\ \A p \in 1 .. m + 1 : p \in 1 .. m \/ p = m + 1
  BY <1>3, <1>4, LenProperties
<1>6. Arrived' = Arrived
  <2>. DEFINE There(p) == \/ p <= Len(DispatchedPackets)
                          \/ \E k \in DOMAIN incomingReliableCommands :
                                /\ incomingReliableCommands[k].packet = p
                                /\ IsComplete(incomingReliableCommands[k])
  <2>1. Arrived = {p \in 1 .. m : There(p)}
    BY <1>3 DEF Arrived
  <2>2. Arrived' = {p \in 1 .. m + 1 : There(p)}
    BY <1>1, <1>5 DEF Arrived, DispatchedPackets, IsComplete
  <2>3. ~ There(m + 1)
    <3>1. ~ (m + 1 <= Len(DispatchedPackets))
      BY <1>3
    <3>2. \A k \in DOMAIN incomingReliableCommands :
             incomingReliableCommands[k].packet \in 1 .. m
      <4>1. DOMAIN incomingReliableCommands = 1 .. Len(incomingReliableCommands)
        BY LenProperties DEF ChannelInvariant, ListRight
      <4>. QED
        BY <4>1 DEF ChannelInvariant, ListRight, InOrder, IsRight
    <3>3. m + 1 \notin 1 .. m
      BY <1>3
    <3>. QED
      BY <3>1, <3>2, <3>3
  <2>. HIDE DEF There
  <2>4. 1 .. m \subseteq 1 .. m + 1
    BY <1>3
  <2>. QED
    BY <1>5, <2>1, <2>2, <2>3, <2>4
<1>7. Confirmed' = Confirmed
  <2>1. Confirmed = {p \in 1 .. m : packets[p].referenceCount = 0}
    BY <1>3 DEF Confirmed
  <2>2. Confirmed' = {p \in 1 .. m + 1 : packets'[p].referenceCount = 0}
    BY <1>5 DEF Confirmed
  <2>3. packets'[m + 1].referenceCount # 0
    BY <1>2, <1>4 DEF new
  <2>4. 1 .. m \subseteq 1 .. m + 1
    BY <1>3
  <2>. QED
    BY <1>4, <1>5, <2>1, <2>2, <2>3, <2>4
<1>. QED
  BY <1>1, <1>4, <1>6, <1>7 DEF Delivery!Offer

(* What the receiving host holds, in terms of its two lists: the            *)
(* refinement's variables, before and after a step.                         *)
Held ==
    /\ Arrived = (1 .. Ordered) \cup CompleteOn(incomingReliableCommands)
    /\ Len(DispatchedPackets) = Ordered
    /\ Confirmed \subseteq Arrived

(* The two invariants say what the receiving host holds.                    *)
LEMMA HeldRight == ChannelInvariant /\ SenderInvariant => Held
<1>. SUFFICES ASSUME ChannelInvariant, SenderInvariant PROVE Held
  OBVIOUS
<1>1. DispatchedRight
  BY DEF ChannelInvariant
<1>. QED
  BY <1>1, ArrivedFacts, DispatchedFacts, ConfirmedArrived DEF Held

(* A datagram makes at most the packet it belongs to arrive.                *)
LEMMA CommandArrives ==
    ASSUME ChannelInvariant, Held', NEW i \in Ids, DeliverCommand(i)
    PROVE  \/ UNCHANGED <<Len(packets), Arrived, received, Confirmed>>
           \/ \E p \in 1 .. Len(packets) : Delivery!Arrive(p)
<1>1. /\ i \in data /\ ReceiveCommand(Datagram(i))
      /\ UNCHANGED <<packets, commands, attempted>>
  BY DEF DeliverCommand, senderVars, networkVars
<1>2. PICK list, n : Outcome(i, list, n)
  BY <1>1, ReceiveOutcome
<1>3. /\ list \in Seq(EntryRecords) /\ InOrder(list) /\ n \in 0 .. Len(list) /\ Moved(list, n)
      /\ received' = received
      /\ \/ CompleteOn(list) = CompleteOn(incomingReliableCommands)
         \/ CompleteOn(list) = CompleteOn(incomingReliableCommands) \cup {commands[i]}
  BY <1>2 DEF Outcome
<1>4. /\ Ordered' = Ordered + n
      /\ Len(incomingReliableCommands') = Len(list) - n
      /\ \A k \in 1 .. Len(list) - n : incomingReliableCommands'[k] = list[n + k]
  BY <1>1, <1>3, MovedKeeps
<1>5. Len(list) \in Nat /\ n \in Nat /\ n <= Len(list)
  BY <1>3, LenProperties
<1>6. /\ Arrived = (1 .. Ordered) \cup CompleteOn(incomingReliableCommands)
      /\ Ordered \in Nat /\ Len(packets) \in Nat
      /\ commands[i] \in 1 .. Len(packets)
  BY <1>1, ArrivedFacts, DatagramFacts
<1>. DEFINE later == {p \in 1 .. Len(packets) :
                        \E k \in 1 .. Len(list) - n :
                           list[n + k].packet = p /\ IsComplete(list[n + k])}
<1>7. Arrived' = (1 .. Ordered + n) \cup later
  <2>1. Arrived' = (1 .. Ordered') \cup CompleteOn(incomingReliableCommands)'
    BY DEF Held
  <2>2. CompleteOn(incomingReliableCommands)'
           = {p \in 1 .. Len(packets) :
                \E k \in 1 .. Len(incomingReliableCommands') :
                   /\ incomingReliableCommands'[k].packet = p
                   /\ IsComplete(incomingReliableCommands'[k])}
    BY <1>1 DEF CompleteOn, IsComplete
  <2>3. CompleteOn(incomingReliableCommands)' = later
    BY <1>4, <2>2
  <2>. QED
    BY <1>4, <2>1, <2>3
<1>8. (1 .. Ordered + n) \cup later = (1 .. Ordered) \cup CompleteOn(list)
  <2>1. \A j \in 1 .. n : /\ j \in 1 .. Len(list) /\ list[j].packet = Ordered + j
                          /\ IsComplete(list[j])
    BY <1>3, <1>5 DEF Moved
  <2>2. \A j \in 1 .. Len(list) : list[j].packet \in 1 .. Len(packets)
    BY <1>3 DEF InOrder, IsRight
  <2>3. ASSUME NEW p \in 1 .. Ordered + n
        PROVE  p \in 1 .. Ordered \/ p \in CompleteOn(list)
    <3>1. CASE p <= Ordered
      BY <1>6, <3>1
    <3>2. CASE ~ (p <= Ordered)
      <4>1. p - Ordered \in 1 .. n /\ Ordered + (p - Ordered) = p
        BY <1>5, <1>6, <3>2
      <4>2. /\ p - Ordered \in 1 .. Len(list) /\ list[p - Ordered].packet = p
            /\ IsComplete(list[p - Ordered])
        BY <2>1, <4>1
      <4>. QED
        BY <2>2, <4>2 DEF CompleteOn
    <3>. QED
      BY <3>1, <3>2
  <2>4. \A k \in 1 .. Len(list) - n : n + k \in 1 .. Len(list)
    BY <1>5
  <2>5. later \subseteq CompleteOn(list)
    BY <2>4 DEF CompleteOn
  <2>6. ASSUME NEW p \in CompleteOn(list) PROVE p \in 1 .. Ordered + n \/ p \in later
    <3>1. PICK k \in 1 .. Len(list) : list[k].packet = p /\ IsComplete(list[k])
      BY DEF CompleteOn
    <3>2. p \in 1 .. Len(packets)
      BY DEF CompleteOn
    <3>3. CASE k <= n
      <4>1. k \in 1 .. n
        BY <1>5, <3>3
      <4>2. p = Ordered + k
        BY <2>1, <3>1, <4>1
      <4>. QED
        BY <1>5, <1>6, <4>1, <4>2
    <3>4. CASE ~ (k <= n)
      <4>1. k - n \in 1 .. Len(list) - n /\ n + (k - n) = k
        BY <1>5, <3>4
      <4>. QED
        BY <3>1, <3>2, <4>1
    <3>. QED
      BY <3>3, <3>4
  <2>7. 1 .. Ordered \subseteq 1 .. Ordered + n
    BY <1>5, <1>6
  <2>. QED
    BY <2>3, <2>5, <2>6, <2>7
<1>9. Arrived' = Arrived \/ Arrived' = Arrived \cup {commands[i]}
  BY <1>3, <1>6, <1>7, <1>8
<1>10. Confirmed' = Confirmed
  BY <1>1 DEF Confirmed
<1>11. CASE Arrived' = Arrived
  BY <1>1, <1>3, <1>10, <1>11
<1>12. CASE Arrived' # Arrived
  <2>1. Arrived' = Arrived \cup {commands[i]} /\ commands[i] \notin Arrived
    BY <1>9, <1>12
  <2>2. Delivery!Arrive(commands[i])
    BY <1>1, <1>3, <1>10, <2>1 DEF Delivery!Arrive
  <2>. QED
    BY <1>6, <2>2
<1>. QED
  BY <1>11, <1>12

(* Fetching a packet delivers the next one.                                 *)
LEMMA FetchDelivers ==
    ASSUME ChannelInvariant, Held', Receive
    PROVE  Delivery!Deliver
<1>1. /\ received' = Append(received, Len(received) + 1)
      /\ UNCHANGED <<packets, incomingReliableCommands>>
      /\ dispatchedCommands # <<>> /\ dispatchedCommands' = Tail(dispatchedCommands)
  BY FetchKeeps DEF Receive, PeerReceive, senderVars
<1>2. /\ received \in Seq(Nat) /\ dispatchedCommands \in Seq(EntryRecords)
      /\ Len(received) \in Nat /\ Len(dispatchedCommands) \in Nat
      /\ Ordered = Len(received) + Len(dispatchedCommands)
  BY LenProperties DEF ChannelInvariant, DispatchedRight, Ordered
<1>3. Len(dispatchedCommands) # 0
  BY <1>1, <1>2, EmptySeq
<1>4. Len(received) + 1 \in Arrived
  <2>1. Len(received) + 1 \in 1 .. Ordered
    BY <1>2, <1>3
  <2>. QED
    BY <2>1, ArrivedFacts
<1>5. Arrived' = Arrived
  <2>1. Len(DispatchedPackets) = Ordered /\ Len(DispatchedPackets)' = Ordered
    <3>1. Len(DispatchedPackets) = Ordered
      BY DispatchedFacts DEF ChannelInvariant
    <3>2. Len(DispatchedPackets)' = Ordered'
      BY DEF Held
    <3>3. Ordered' = Ordered
      <4>1. Len(received') = Len(received) + 1
        BY <1>1, <1>2, AppendProperties
      <4>2. Len(dispatchedCommands') = Len(dispatchedCommands) - 1
        BY <1>1, <1>2, HeadTailProperties
      <4>. QED
        BY <1>2, <4>1, <4>2 DEF Ordered
    <3>. QED
      BY <3>1, <3>2, <3>3
  <2>. QED
    BY <1>1, <2>1 DEF Arrived, IsComplete
<1>6. Confirmed' = Confirmed
  BY <1>1 DEF Confirmed
<1>. QED
  BY <1>1, <1>4, <1>5, <1>6 DEF Delivery!Deliver

(* The last acknowledgement of a packet confirms it, and it has arrived.    *)
LEMMA AcknowledgementConfirms ==
    ASSUME ChannelInvariant, SenderInvariant, SenderInvariant', Held',
           NEW i \in Ids, DeliverAcknowledgement(i)
    PROVE  \/ UNCHANGED <<Len(packets), Arrived, received, Confirmed>>
           \/ \E p \in 1 .. Len(packets) : Delivery!Confirm(p)
<1>1. /\ Lists /\ i \in Nat /\ Acknowledge(Wire(i)) /\ ReferencesCounted
      /\ DOMAIN packets = 1 .. Len(packets)
      /\ UNCHANGED <<incomingReliableCommands, dispatchedCommands, received>>
  BY ListFacts, ArrivedFacts
     DEF SenderInvariant, Packets, Ids, DeliverAcknowledgement, receiverVars
<1>2. Wire(i) \in SeqNum
  BY <1>1, WindowOfWire
<1>3. PICK j \in Unacknowledged, wasSent \in BOOLEAN : RemoveCommand(j, wasSent)
  BY <1>1, <1>2, Acknowledged
<1>. DEFINE p == commands[j]
<1>4. packets' = [packets EXCEPT ![p] = Released(packets[p], wasSent)]
  BY <1>3 DEF RemoveCommand
<1>5. DOMAIN packets' = DOMAIN packets /\ Len(packets') = Len(packets)
  <2>1. DOMAIN packets' = DOMAIN packets
    BY <1>4
  <2>2. packets \in Seq(PacketRecords) /\ packets' \in Seq(PacketRecords)
    BY DEF SenderInvariant, Packets
  <2>. QED
    BY <2>1, <2>2, LenProperties
<1>6. Arrived' = Arrived
  BY <1>1, <1>5 DEF Arrived, DispatchedPackets, IsComplete
<1>7. p \in 1 .. Len(packets) /\ p \notin Confirmed
  <2>1. j \in Ids /\ j \in Outgoing /\ p \in 1 .. Len(packets)
    BY <1>1, ListFacts DEF Outgoing
  <2>. DEFINE U == {k \in Outgoing : commands[k] = p}
  <2>2. packets[p].referenceCount = Cardinality(U)
    BY <1>1, <2>1 DEF ReferencesCounted
  <2>3. IsFiniteSet(U)
    BY <1>1, ListFacts, FS_Subset
  <2>4. U # {}
    BY <2>1
  <2>5. Cardinality(U) # 0
    <3>. HIDE DEF U
    <3>. QED
      BY <2>3, <2>4, FS_EmptySet
  <2>. QED
    BY <2>1, <2>2, <2>5 DEF Confirmed
<1>8. Confirmed' \subseteq Confirmed \cup {p} /\ Confirmed \subseteq Confirmed'
  BY <1>4, <1>5, <1>7 DEF Confirmed
<1>9. Confirmed' \subseteq Arrived'
  BY DEF Held
<1>10. CASE p \notin Confirmed'
  BY <1>1, <1>5, <1>6, <1>8, <1>10
<1>11. CASE p \in Confirmed'
  <2>1. p \in Arrived \ Confirmed /\ Confirmed' = Confirmed \cup {p}
    BY <1>6, <1>7, <1>8, <1>9, <1>11
  <2>2. Delivery!Confirm(p)
    BY <1>1, <1>5, <1>6, <2>1 DEF Delivery!Confirm
  <2>. QED
    BY <1>7, <2>2
<1>. QED
  BY <1>10, <1>11

(* The channel is a reliable channel: every step of it is one that          *)
(* ReliableDelivery allows, or one the two applications do not see.         *)
THEOREM ChannelDelivers == Spec => ImplementsDelivery
<1>1. Init => Delivery!Init
  <2>1. SUFFICES ASSUME Init PROVE Delivery!Init
    OBVIOUS
  <2>2. packets = <<>> /\ incomingReliableCommands = <<>> /\ dispatchedCommands = <<>>
        /\ received = <<>>
    BY <2>1 DEF Init, SenderInit, ReceiverInit
  <2>3. DOMAIN packets = {} /\ Len(packets) = 0
    BY <2>2
  <2>4. Arrived = {} /\ Confirmed = {}
    BY <2>3 DEF Arrived, Confirmed
  <2>. QED
    BY <2>2, <2>3, <2>4 DEF Delivery!Init
<1>2. /\ ChannelInvariant /\ SenderInvariant
      /\ SenderInvariant' /\ Held'
      /\ [Next]_vars
      => [Delivery!Next]_<<Len(packets), Arrived, received, Confirmed>>
  <2>. SUFFICES ASSUME ChannelInvariant, SenderInvariant, SenderInvariant', Held',
                       [Next]_vars
                PROVE  [Delivery!Next]_<<Len(packets), Arrived, received, Confirmed>>
    OBVIOUS
  <2>1. ASSUME NEW n \in FragmentCounts, Send(n) PROVE Delivery!Next
    BY <2>1, SendOffers DEF Delivery!Next
  <2>2. CASE TransmitNew \/ SendAcknowledgements \/ UNCHANGED vars
    <3>1. UNCHANGED <<packets, incomingReliableCommands, dispatchedCommands, received>>
      BY <2>2 DEF TransmitNew, SendNew, SendAcknowledgements, vars, senderVars, receiverVars
    <3>. QED
      BY <3>1, Unseen
  <2>3. CASE Receive
    BY <2>3, FetchDelivers DEF Delivery!Next
  <2>4. ASSUME NEW i \in Ids, Retransmit(i) \/ CheckTimeouts(i) \/ Lose(i)
        PROVE  UNCHANGED <<Len(packets), Arrived, received, Confirmed>>
    <3>1. UNCHANGED <<packets, incomingReliableCommands, dispatchedCommands, received>>
      BY <2>4 DEF Retransmit, Resend, CheckTimeouts, Expire, Lose, senderVars, receiverVars
    <3>. QED
      BY <3>1, Unseen
  <2>5. ASSUME NEW i \in Ids, DeliverCommand(i)
        PROVE  \/ UNCHANGED <<Len(packets), Arrived, received, Confirmed>>
               \/ Delivery!Next
    BY <2>5, CommandArrives DEF Delivery!Next
  <2>6. ASSUME NEW i \in Ids, DeliverAcknowledgement(i)
        PROVE  \/ UNCHANGED <<Len(packets), Arrived, received, Confirmed>>
               \/ Delivery!Next
    BY <2>6, AcknowledgementConfirms DEF Delivery!Next
  <2>. QED
    BY <2>1, <2>2, <2>3, <2>4, <2>5, <2>6 DEF Next
<1>. QED
  BY <1>1, <1>2, HeldRight, Channel, PTL DEF Spec, ImplementsDelivery, Delivery!Spec
=============================================================================
