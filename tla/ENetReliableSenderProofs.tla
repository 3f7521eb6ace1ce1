---------------------- MODULE ENetReliableSenderProofs ----------------------
(***************************************************************************)
(* Theorems of ENetReliableSender, for windows of any size and number, any *)
(* packets and any limit on the data in transit.                           *)
(***************************************************************************)
EXTENDS ENetReliableSender, ENetSequenceProofs

-----------------------------------------------------------------------------
(* The invariant.                                                           *)

(* The two lists of commands.                                               *)
Lists ==
    /\ commands \in Seq(1 .. Len(packets))
    /\ packets \in Seq(PacketRecords)
    /\ attempted \in 0 .. Len(commands)
    /\ expired \subseteq 1 .. attempted
    /\ sentReliableCommands \subseteq 1 .. attempted
    /\ expired \cap sentReliableCommands = {}

(* What the windows and the limit on the data in transit keep count of.     *)
Counters ==
    /\ reliableWindows \in [WindowNum -> Nat]
    /\ usedReliableWindows \subseteq WindowNum
    /\ reliableDataInTransit \in Nat
    /\ WindowAccounting
    /\ TransitAccounting
    /\ InFlightSpan

At(U, w) == {i \in U : SlotOf(i) = w}

References(U, f, p) == {i \in U : f[i] = p}

-----------------------------------------------------------------------------
(* Counting the commands of a window.                                       *)

(* The types of the lists and what they are made of, from the part Lists    *)
(* of the invariant.                                                        *)
LEMMA ListFacts ==
    ASSUME Lists
    PROVE  /\ Len(commands) \in Nat /\ Len(packets) \in Nat /\ attempted \in Nat
           /\ \A i \in Ids : commands[i] \in 1 .. Len(packets)
           /\ Unacknowledged \subseteq 1 .. attempted
           /\ Unacknowledged \subseteq Ids
           /\ IsFiniteSet(Unacknowledged) /\ IsFiniteSet(sentReliableCommands)
           /\ IsFiniteSet(Outgoing) /\ Outgoing \subseteq Ids
<1>1. Len(commands) \in Nat /\ Len(packets) \in Nat /\ attempted \in Nat
  BY LenProperties DEF Lists
<1>2. \A i \in Ids : commands[i] \in 1 .. Len(packets)
  BY ElementOfSeq DEF Lists, Ids
<1>3. /\ Unacknowledged \subseteq 1 .. attempted /\ Unacknowledged \subseteq Ids
      /\ Outgoing \subseteq Ids
  <2>1. Unacknowledged \subseteq 1 .. attempted
    BY DEF Lists, Unacknowledged
  <2>2. 1 .. attempted \subseteq Ids /\ attempted + 1 .. Len(commands) \subseteq Ids
    BY <1>1 DEF Lists, Ids
  <2>. QED
    BY <2>1, <2>2 DEF Outgoing
<1>4. IsFiniteSet(Ids)
  BY <1>1, FS_Interval DEF Ids
<1>5. sentReliableCommands \subseteq Ids
  BY <1>3 DEF Unacknowledged
<1>6. IsFiniteSet(Unacknowledged)
  BY <1>3, <1>4, FS_Subset
<1>7. IsFiniteSet(sentReliableCommands)
  BY <1>4, <1>5, FS_Subset
<1>8. IsFiniteSet(Outgoing)
  BY <1>3, <1>4, FS_Subset
<1>. QED
  BY <1>1, <1>2, <1>3, <1>6, <1>7, <1>8

(* The number of elements with a property after one with it was added.      *)
LEMMA CountAdded ==
    ASSUME NEW U, IsFiniteSet(U), NEW i, i \notin U, NEW w
    PROVE  /\ Cardinality(At(U, w)) \in Nat
           /\ Cardinality(At(U \cup {i}, w))
                 = IF SlotOf(i) = w THEN Cardinality(At(U, w)) + 1 ELSE Cardinality(At(U, w))
<1>1. IsFiniteSet(At(U, w)) /\ i \notin At(U, w)
  BY FS_Subset DEF At
<1>2. Cardinality(At(U, w)) \in Nat
  BY <1>1, FS_CardinalityType
<1>3. CASE SlotOf(i) = w
  <2>1. At(U \cup {i}, w) = At(U, w) \cup {i}
    BY <1>3 DEF At
  <2>. QED
    BY <1>1, <1>2, <1>3, <2>1, FS_AddElement
<1>4. CASE SlotOf(i) # w
  <2>1. At(U \cup {i}, w) = At(U, w)
    BY <1>4 DEF At
  <2>. QED
    BY <1>2, <1>4, <2>1
<1>. QED
  BY <1>3, <1>4

(* The number of elements with a property after one was removed.            *)
LEMMA CountRemoved ==
    ASSUME NEW U, IsFiniteSet(U), NEW i \in U, NEW w
    PROVE  /\ Cardinality(At(U, w)) \in Nat
           /\ SlotOf(i) = w => Cardinality(At(U, w)) > 0
           /\ Cardinality(At(U \ {i}, w))
                 = IF SlotOf(i) = w THEN Cardinality(At(U, w)) - 1 ELSE Cardinality(At(U, w))
<1>1. IsFiniteSet(U \ {i}) /\ i \notin U \ {i} /\ (U \ {i}) \cup {i} = U
  BY FS_RemoveElement
<1>2. /\ Cardinality(At(U \ {i}, w)) \in Nat
      /\ Cardinality(At(U, w))
            = IF SlotOf(i) = w THEN Cardinality(At(U \ {i}, w)) + 1 ELSE Cardinality(At(U \ {i}, w))
  BY <1>1, CountAdded
<1>. QED
  BY <1>2

-----------------------------------------------------------------------------
(* The lists.                                                               *)

(* Every step keeps the part of the invariant about the lists.              *)
LEMMA ListsKept ==
    ASSUME Lists, SenderNext, packets' \in Seq(PacketRecords)
    PROVE  Lists'
<1>. USE ListFacts
<1>1. ASSUME NEW n \in FragmentCounts, SendPacket(n)
      PROVE  Lists'
  <2>. DEFINE m == Len(packets)
              s == Span(n)
              more == [k \in 1 .. s |-> m + 1]
  <2>1. s \in Nat
    BY SenderAssumption DEF Span
  <2>2. Len(packets') = m + 1
    BY <1>1, LenProperties DEF SendPacket, Lists
  <2>3. more \in Seq(1 .. m + 1) /\ Len(more) = s
    BY <2>1, ListFacts
  <2>4. commands \in Seq(1 .. m + 1)
    <3>1. 1 .. m \subseteq 1 .. m + 1
      BY ListFacts
    <3>. QED
      BY <3>1, SeqMonotonic DEF Lists
  <2>5. commands' = commands \o more
    BY <1>1 DEF SendPacket
  <2>6. /\ commands' \in Seq(1 .. m + 1)
        /\ Len(commands') = Len(commands) + s
    <3>. HIDE DEF m, s, more
    <3>1. /\ commands \o more \in Seq(1 .. m + 1)
          /\ Len(commands \o more) = Len(commands) + Len(more)
      BY ONLY <2>3, <2>4, ConcatProperties
    <3>. QED
      BY ONLY <2>3, <2>5, <3>1
  <2>7. UNCHANGED <<attempted, expired, sentReliableCommands>>
    BY <1>1 DEF SendPacket
  <2>8. attempted' \in 0 .. Len(commands')
    BY <2>1, <2>6, <2>7 DEF Lists
  <2>. QED
    BY <2>2, <2>6, <2>7, <2>8 DEF Lists
<1>2. CASE SendNew
  BY <1>2 DEF SendNew, Lists, Ids
<1>3. ASSUME NEW i \in Ids, Resend(i)
      PROVE  Lists'
  BY <1>3 DEF Resend, Lists
<1>4. ASSUME NEW i \in Ids, Expire(i)
      PROVE  Lists'
  BY <1>4 DEF Expire, Lists
<1>5. ASSUME NEW seq \in SeqNum, Acknowledge(seq)
      PROVE  Lists'
  <2>1. PICK i \in Unacknowledged, wasSent \in BOOLEAN : RemoveCommand(i, wasSent)
    BY <1>5 DEF Acknowledge, Carrying, Unacknowledged
  <2>2. i \in Ids
    BY ListFacts
  <2>3. packets' = [packets EXCEPT ![commands[i]] = Released(@, wasSent)]
    BY <2>1 DEF RemoveCommand
  <2>4. Len(packets') = Len(packets)
    BY <2>3 DEF Lists
  <2>. QED
    BY <2>1, <2>4 DEF RemoveCommand, Lists
<1>. QED
  BY <1>1, <1>2, <1>3, <1>4, <1>5 DEF SenderNext

-----------------------------------------------------------------------------
(* The windows.                                                             *)

(* The last of the windows that IsWindowBlocked looks at lies FreeWindows-1 *)
(* windows behind the one about to be entered.                              *)
LEMMA WindowBehind ==
    ASSUME NEW b \in Nat, NEW j \in Nat, j + FreeWindows = b + 1
    PROVE  ((b % Windows) + (FreeWindows + 1)) % Windows = j % Windows
<1>. DEFINE q == b \div Windows
            r == b % Windows
            k == j \div Windows
            e == j % Windows
<1>1. Windows \in Nat \ {0} /\ FreeWindows \in Nat /\ Windows = 2 * FreeWindows
  BY SequenceAssumption
<1>2. q \in Nat /\ r \in 0 .. Windows - 1 /\ b = Windows * q + r
  BY <1>1, DivisionFacts
<1>3. k \in Nat /\ e \in 0 .. Windows - 1 /\ j = Windows * k + e
  BY <1>1, DivisionFacts
<1>. HIDE DEF q, r, k, e
<1>. DEFINE c == k - q + 1
<1>4. r + (FreeWindows + 1) = Windows * c + e
  <2>1. Windows * c = Windows * k - Windows * q + Windows
    BY <1>1, <1>2, <1>3
  <2>. HIDE DEF c
  <2>. QED
    BY <1>1, <1>2, <1>3, <2>1
<1>5. c \in Int
  BY <1>2, <1>3
<1>. HIDE DEF c
<1>6. Windows * 0 < Windows * (c + 1)
  <2>1. Windows * (c + 1) = Windows * c + Windows
    BY <1>1, <1>5
  <2>. QED
    BY <1>1, <1>2, <1>3, <1>4, <1>5, <2>1
<1>7. c \in Nat
  BY <1>1, <1>5, <1>6, ProductOrder
<1>. DEFINE n == r + (FreeWindows + 1)
<1>8. n \in Nat /\ n = Windows * c + e
  BY <1>1, <1>2, <1>4
<1>. HIDE DEF n
<1>9. n % Windows = e
  BY <1>1, <1>3, <1>7, <1>8, DivisionUnique
<1>. QED
  BY <1>9 DEF n, r, e

(* Going one number further enters a window or stays in one.                *)
LEMMA NextNumber ==
    ASSUME NEW a \in Nat, NEW S \in Nat \ {0}
    PROVE  /\ (a + 1) % S # 0 => (a + 1) \div S = a \div S
           /\ (a + 1) % S = 0 => (a + 1) \div S = a \div S + 1
<1>. DEFINE q == a \div S
            r == a % S
<1>1. q \in Nat /\ r \in 0 .. S - 1 /\ a = S * q + r
  BY DivisionFacts
<1>. HIDE DEF q, r
<1>2. CASE r = S - 1
  <2>1. a + 1 = S * (q + 1) + 0
    <3>1. S * (q + 1) = S * q + S
      BY <1>1
    <3>. QED
      BY <1>1, <1>2, <3>1
  <2>2. (a + 1) \div S = q + 1 /\ (a + 1) % S = 0
    BY <1>1, <2>1, DivisionUnique
  <2>. QED
    BY <2>2 DEF q
<1>3. CASE r # S - 1
  <2>1. r + 1 \in 0 .. S - 1 /\ r + 1 # 0 /\ a + 1 = S * q + (r + 1)
    BY <1>1, <1>3
  <2>2. (a + 1) \div S = q /\ (a + 1) % S = r + 1
    BY <1>1, <2>1, DivisionUnique
  <2>. QED
    BY <2>1, <2>2 DEF q
<1>. QED
  BY <1>2, <1>3

(* A command that may be sent leaves no unacknowledged one too far behind.  *)
LEMMA SpanKept ==
    ASSUME Lists, WindowAccounting, InFlightSpan, attempted + 1 \in Ids,
           ~ IsWindowBlocked(attempted + 1)
    PROVE  \A i \in Unacknowledged \cup {attempted + 1} :
              i \div WindowSize + FreeWindows - 2 >= (attempted + 1) \div WindowSize
<1>. DEFINE a == attempted
            b == (a + 1) \div WindowSize
<1>1. WindowSize \in Nat \ {0} /\ FreeWindows \in Nat /\ FreeWindows >= 2
  BY SequenceAssumption
<1>2. a \in Nat /\ a + 1 \in Nat
  BY ListFacts
<1>3. b \in Nat /\ a \div WindowSize \in Nat
  BY <1>1, <1>2, QuotientType
<1>4. SUFFICES ASSUME NEW i \in Unacknowledged
               PROVE  i \div WindowSize + FreeWindows - 2 >= b
  <2>. HIDE DEF b
  <2>1. b + FreeWindows - 2 >= b
    BY <1>1, <1>3
  <2>. QED
    BY <1>4, <2>1 DEF b
<1>5. i \in Nat /\ i \div WindowSize \in Nat
  <2>1. i \in Nat
    BY ListFacts DEF Ids
  <2>. QED
    BY <1>1, <2>1, QuotientType
<1>. DEFINE j == i \div WindowSize
<1>6. j \in Nat /\ j + FreeWindows - 2 >= a \div WindowSize
  BY <1>5 DEF InFlightSpan
<1>7. CASE (a + 1) % WindowSize # 0
  <2>1. b = a \div WindowSize
    BY <1>1, <1>2, <1>7, NextNumber
  <2>. QED
    BY <1>6, <2>1
<1>8. CASE (a + 1) % WindowSize = 0
  <2>1. b = a \div WindowSize + 1
    BY <1>1, <1>2, <1>8, NextNumber
  <2>. SUFFICES ASSUME j + FreeWindows = b + 1
                PROVE  FALSE
    <3>. HIDE DEF j, b
    <3>1. j + FreeWindows = b + 1 \/ j + FreeWindows - 2 >= b
      BY <1>1, <1>3, <1>6, <2>1
    <3>. QED
      BY <3>1 DEF j, b
  <2>2. SlotOf(a + 1) = b % Windows /\ Wire(a + 1) % WindowSize = 0
    BY <1>2, <1>8, WindowOfWire DEF SlotOf
  <2>3. SlotOf(i) = j % Windows /\ SlotOf(i) \in WindowNum
    BY <1>5, WindowOfWire DEF SlotOf
  <2>4. ((b % Windows) + (FreeWindows + 1)) % Windows = j % Windows
    BY <1>3, <1>6, WindowBehind
  <2>5. SlotOf(i) \in GuardWindows(SlotOf(a + 1))
    <3>1. FreeWindows + 1 \in 0 .. FreeWindows + 1
      BY <1>1
    <3>. HIDE DEF b, j
    <3>. QED
      BY <2>2, <2>3, <2>4, <3>1 DEF GuardWindows
  <2>6. SlotOf(i) \in usedReliableWindows
    <3>1. Cardinality(At(Unacknowledged, SlotOf(i))) > 0
      BY ListFacts, CountRemoved
    <3>2. reliableWindows[SlotOf(i)] > 0
      BY <2>3, <3>1 DEF WindowAccounting, At
    <3>. QED
      BY <2>3, <3>2 DEF WindowAccounting
  <2>. QED
    BY <2>2, <2>5, <2>6 DEF IsWindowBlocked
<1>. QED
  BY <1>7, <1>8

(* What an acknowledgement that matches a command does.                     *)
LEMMA Acknowledged ==
    ASSUME Lists, NEW seq \in SeqNum, Acknowledge(seq)
    PROVE  \E i \in Unacknowledged, wasSent \in BOOLEAN :
              /\ RemoveCommand(i, wasSent)
              /\ Wire(i) = seq
              /\ wasSent => i \in sentReliableCommands
              /\ ~ wasSent => i \in expired /\ i \notin sentReliableCommands
<1>1. CASE \E i \in Carrying(sentReliableCommands, seq) : RemoveCommand(i, TRUE)
  BY <1>1 DEF Carrying, Unacknowledged
<1>2. CASE \E i \in Carrying(expired, seq) : RemoveCommand(i, FALSE)
  BY <1>2 DEF Carrying, Unacknowledged, Lists
<1>. QED
  BY <1>1, <1>2 DEF Acknowledge

(* Every step keeps the part about the windows and the data in transit.     *)
LEMMA CountersKept ==
    ASSUME Lists, Counters, SenderNext
    PROVE  Counters'
<1>. USE ListFacts
<1>0. \A i \in Ids : SlotOf(i) \in WindowNum
  BY WindowOfWire DEF SlotOf, Ids
<1>1. ASSUME NEW n \in FragmentCounts, SendPacket(n)
      PROVE  Counters'
  BY <1>1 DEF SendPacket, Counters, WindowAccounting, TransitAccounting, InFlightSpan,
              Unacknowledged
<1>2. CASE SendNew
  <2>. DEFINE i == attempted + 1
              v == SlotOf(i)
  <2>1. /\ i \in Ids /\ i \notin Unacknowledged /\ i \notin sentReliableCommands
        /\ ~ IsWindowBlocked(i)
    BY <1>2 DEF SendNew, Unacknowledged, Ids
  <2>2. v \in WindowNum
    BY <1>0, <2>1
  <2>3. /\ usedReliableWindows' = usedReliableWindows \cup {v}
        /\ reliableWindows' = [reliableWindows EXCEPT ![v] = @ + 1]
        /\ sentReliableCommands' = sentReliableCommands \cup {i}
        /\ reliableDataInTransit' = reliableDataInTransit + 1
        /\ attempted' = i
        /\ expired' = expired
        /\ ~ IsTransitBlocked
    BY <1>2 DEF SendNew
  <2>4. Unacknowledged' = Unacknowledged \cup {i}
    BY <2>3 DEF Unacknowledged
  <2>5. InFlightSpan'
    BY <2>1, <2>3, <2>4, SpanKept DEF InFlightSpan, Counters
  <2>. HIDE DEF i
  <2>6. \A w \in WindowNum :
           Cardinality(At(Unacknowledged \cup {i}, w))
              = IF v = w THEN Cardinality(At(Unacknowledged, w)) + 1
                         ELSE Cardinality(At(Unacknowledged, w))
    BY <2>1, CountAdded
  <2>. HIDE DEF v
  <2>7. /\ reliableWindows' \in [WindowNum -> Nat]
        /\ usedReliableWindows' \subseteq WindowNum
    BY <2>2, <2>3 DEF Counters
  <2>8. \A w \in WindowNum : reliableWindows'[w] = Cardinality(At(Unacknowledged', w))
    BY <2>2, <2>3, <2>4, <2>6 DEF Counters, WindowAccounting, At
  <2>9. usedReliableWindows' = {w \in WindowNum : reliableWindows'[w] > 0}
    BY <2>2, <2>3 DEF Counters, WindowAccounting
  <2>10. reliableDataInTransit' \in Nat /\ TransitAccounting'
    <3>1. Cardinality(sentReliableCommands \cup {i}) = Cardinality(sentReliableCommands) + 1
      BY <2>1, FS_AddElement
    <3>2. InTransitLimit \in Nat
      BY SenderAssumption
    <3>. QED
      BY <2>3, <3>1, <3>2 DEF Counters, TransitAccounting, IsTransitBlocked
  <2>. QED
    BY <2>5, <2>7, <2>8, <2>9, <2>10 DEF Counters, WindowAccounting, At
<1>3. ASSUME NEW i \in Ids, Resend(i)
      PROVE  Counters'
  <2>1. Unacknowledged' = Unacknowledged
    BY <1>3 DEF Resend, Unacknowledged
  <2>2. Cardinality(sentReliableCommands \cup {i}) = Cardinality(sentReliableCommands) + 1
    BY <1>3, FS_AddElement DEF Resend, Lists
  <2>3. InTransitLimit \in Nat
    BY SenderAssumption
  <2>4. reliableDataInTransit' \in Nat /\ TransitAccounting'
    BY <1>3, <2>2, <2>3 DEF Counters, TransitAccounting, IsTransitBlocked, Resend
  <2>. QED
    BY <1>3, <2>1, <2>4 DEF Resend, Counters, WindowAccounting, InFlightSpan
<1>4. ASSUME NEW i \in Ids, Expire(i)
      PROVE  Counters'
  <2>1. Unacknowledged' = Unacknowledged
    BY <1>4 DEF Expire, Unacknowledged
  <2>2. /\ Cardinality(sentReliableCommands \ {i}) = Cardinality(sentReliableCommands) - 1
        /\ IsFiniteSet(sentReliableCommands \ {i})
    BY <1>4, FS_RemoveElement DEF Expire
  <2>3. Cardinality(sentReliableCommands \ {i}) \in Nat
    BY <2>2, FS_CardinalityType
  <2>4. InTransitLimit \in Nat
    BY SenderAssumption
  <2>5. reliableDataInTransit' \in Nat /\ TransitAccounting'
    BY <1>4, <2>2, <2>3, <2>4 DEF Counters, TransitAccounting, Expire
  <2>. QED
    BY <1>4, <2>1, <2>5 DEF Expire, Counters, WindowAccounting, InFlightSpan
<1>5. ASSUME NEW seq \in SeqNum, Acknowledge(seq)
      PROVE  Counters'
  <2>1. PICK i \in Unacknowledged, wasSent \in BOOLEAN :
           /\ RemoveCommand(i, wasSent)
           /\ wasSent => i \in sentReliableCommands
           /\ ~ wasSent => i \in expired /\ i \notin sentReliableCommands
    BY <1>5, Acknowledged
  <2>. DEFINE v == SlotOf(i)
  <2>2. v \in WindowNum
    BY <1>0
  <2>3. \A w \in WindowNum :
           /\ v = w => Cardinality(At(Unacknowledged, w)) > 0
           /\ Cardinality(At(Unacknowledged \ {i}, w))
                 = IF v = w THEN Cardinality(At(Unacknowledged, w)) - 1
                            ELSE Cardinality(At(Unacknowledged, w))
    BY CountRemoved
  <2>4. reliableWindows[v] > 0
    BY <2>2, <2>3 DEF Counters, WindowAccounting, At
  <2>5. /\ reliableWindows' = [reliableWindows EXCEPT ![v] = @ - 1]
        /\ usedReliableWindows' = IF reliableWindows[v] = 1
                                    THEN usedReliableWindows \ {v} ELSE usedReliableWindows
        /\ sentReliableCommands' = sentReliableCommands \ {i}
        /\ expired' = expired \ {i}
        /\ reliableDataInTransit' = reliableDataInTransit - (IF wasSent THEN 1 ELSE 0)
        /\ attempted' = attempted
    BY <2>1, <2>4 DEF RemoveCommand
  <2>6. Unacknowledged' = Unacknowledged \ {i}
    BY <2>5 DEF Unacknowledged
  <2>7. InFlightSpan'
    BY <2>5, <2>6 DEF InFlightSpan, Counters
  <2>. HIDE DEF v
  <2>8. /\ reliableWindows' \in [WindowNum -> Nat]
        /\ usedReliableWindows' \subseteq WindowNum
    BY <2>2, <2>4, <2>5 DEF Counters
  <2>9. \A w \in WindowNum : reliableWindows'[w] = Cardinality(At(Unacknowledged', w))
    BY <2>2, <2>3, <2>5, <2>6 DEF Counters, WindowAccounting, At
  <2>10. usedReliableWindows' = {w \in WindowNum : reliableWindows'[w] > 0}
    BY <2>2, <2>4, <2>5 DEF Counters, WindowAccounting
  <2>11. reliableDataInTransit' \in Nat /\ TransitAccounting'
    <3>1. InTransitLimit \in Nat
      BY SenderAssumption
    <3>2. CASE wasSent
      <4>1. /\ Cardinality(sentReliableCommands \ {i}) = Cardinality(sentReliableCommands) - 1
            /\ IsFiniteSet(sentReliableCommands \ {i})
        BY <2>1, <3>2, FS_RemoveElement
      <4>2. Cardinality(sentReliableCommands \ {i}) \in Nat
        BY <4>1, FS_CardinalityType
      <4>. QED
        BY <2>5, <3>1, <3>2, <4>1, <4>2 DEF Counters, TransitAccounting
    <3>3. CASE ~ wasSent
      <4>1. sentReliableCommands' = sentReliableCommands
        BY <2>1, <2>5, <3>3
      <4>2. reliableDataInTransit' = reliableDataInTransit - 0
        BY <2>5, <3>3
      <4>3. reliableDataInTransit' = reliableDataInTransit
        BY <4>2 DEF Counters
      <4>. QED
        BY <4>1, <4>3 DEF Counters, TransitAccounting
    <3>. QED
      BY <3>2, <3>3
  <2>. QED
    BY <2>7, <2>8, <2>9, <2>10, <2>11 DEF Counters, WindowAccounting, At
<1>. QED
  BY <1>1, <1>2, <1>3, <1>4, <1>5 DEF SenderNext

-----------------------------------------------------------------------------
(* The packets.                                                             *)

Packets ==
    /\ packets \in Seq(PacketRecords)
    /\ ReferencesCounted
    /\ CallbackNotEarly

(* The references to a packet after one of its commands left the lists.     *)
LEMMA ReferenceRemoved ==
    ASSUME NEW U, IsFiniteSet(U), NEW i \in U, NEW f, NEW p
    PROVE  /\ Cardinality(References(U, f, p)) \in Nat
           /\ f[i] = p => Cardinality(References(U, f, p)) > 0
           /\ Cardinality(References(U \ {i}, f, p))
                 = IF f[i] = p THEN Cardinality(References(U, f, p)) - 1
                               ELSE Cardinality(References(U, f, p))
<1>1. IsFiniteSet(References(U, f, p))
  BY FS_Subset DEF References
<1>2. Cardinality(References(U, f, p)) \in Nat
  BY <1>1, FS_CardinalityType
<1>3. CASE f[i] = p
  <2>1. /\ i \in References(U, f, p)
        /\ References(U \ {i}, f, p) = References(U, f, p) \ {i}
    BY <1>3 DEF References
  <2>2. /\ Cardinality(References(U, f, p) \ {i}) = Cardinality(References(U, f, p)) - 1
        /\ IsFiniteSet(References(U, f, p) \ {i})
    BY <1>1, <2>1, FS_RemoveElement
  <2>3. Cardinality(References(U, f, p) \ {i}) \in Nat
    BY <2>2, FS_CardinalityType
  <2>4. Cardinality(References(U, f, p)) > 0
    BY <1>2, <2>2, <2>3
  <2>. QED
    BY <1>2, <1>3, <2>1, <2>2, <2>4
<1>4. CASE f[i] # p
  <2>1. References(U \ {i}, f, p) = References(U, f, p)
    BY <1>4 DEF References
  <2>. QED
    BY <1>2, <1>4, <2>1
<1>. QED
  BY <1>3, <1>4

(* A packet that loses a reference.                                         *)
LEMMA ReleasedFacts ==
    ASSUME NEW packet \in PacketRecords, NEW wasSent \in BOOLEAN,
           packet.referenceCount > 0,
           packet.remainingFragments >= packet.referenceCount
    PROVE  /\ Released(packet, wasSent) \in PacketRecords
           /\ Released(packet, wasSent).referenceCount = packet.referenceCount - 1
           /\ Released(packet, wasSent).remainingFragments
                 >= Released(packet, wasSent).referenceCount
<1>. DEFINE n == packet.referenceCount - 1
            r == IF packet.referenceCount = 1 THEN 0
                 ELSE IF wasSent THEN packet.remainingFragments - 1
                 ELSE packet.remainingFragments
<1>1. Released(packet, wasSent)
         = [packet EXCEPT !.referenceCount = n, !.remainingFragments = r]
  BY DEF Released, PacketRecords
<1>2. packet.referenceCount \in Nat /\ packet.remainingFragments \in Nat
  BY DEF PacketRecords
<1>3. n \in Nat /\ r \in Nat /\ r >= n
  <2>1. CASE packet.referenceCount = 1
    BY <1>2, <2>1
  <2>2. CASE packet.referenceCount # 1 /\ wasSent
    <3>1. r = packet.remainingFragments - 1
      BY <2>2
    <3>. HIDE DEF r
    <3>. QED
      BY <1>2, <2>2, <3>1
  <2>3. CASE packet.referenceCount # 1 /\ ~ wasSent
    <3>1. r = packet.remainingFragments
      BY <2>3
    <3>. HIDE DEF r
    <3>. QED
      BY <1>2, <2>3, <3>1
  <2>. QED
    BY <2>1, <2>2, <2>3
<1>4. n = packet.referenceCount - 1
  OBVIOUS
<1>. HIDE DEF n, r
<1>. QED
  BY <1>1, <1>3, <1>4 DEF PacketRecords

(* Every step keeps the part about the packets' counters.                   *)
LEMMA PacketsKept ==
    ASSUME Lists, Packets, SenderNext
    PROVE  Packets'
<1>. USE ListFacts
<1>1. ASSUME NEW n \in FragmentCounts, SendPacket(n)
      PROVE  Packets'
  <2>. DEFINE m == Len(packets)
              l == Len(commands)
              s == Span(n)
              new == l + 1 .. l + s
              more == [k \in 1 .. s |-> m + 1]
              packet == NewPacket(n)
  <2>1. s \in Nat /\ n \in Nat
    BY SenderAssumption DEF Span
  <2>2. packet \in PacketRecords /\ packet.referenceCount = s /\ packet.remainingFragments = s
    <3>1. l + 1 \in Nat \ {0}
      OBVIOUS
    <3>. QED
      BY <2>1, <3>1 DEF NewPacket, PacketRecords
  <2>3. /\ packets' = Append(packets, packet)
        /\ commands' = commands \o more
        /\ UNCHANGED <<attempted, expired, sentReliableCommands>>
    BY <1>1 DEF SendPacket
  <2>. HIDE DEF packet
  <2>4. /\ packets' \in Seq(PacketRecords)
        /\ Len(packets') = m + 1
        /\ packets'[m + 1] = packet
        /\ \A p \in 1 .. m : packets'[p] = packets[p]
    BY <2>2, <2>3, AppendProperties DEF Packets
  <2>5. commands \in Seq(Nat) /\ more \in Seq(Nat) /\ Len(more) = s
    <3>1. more \in Seq(Nat) /\ Len(more) = s
      BY <2>1
    <3>2. 1 .. m \subseteq Nat
      OBVIOUS
    <3>3. commands \in Seq(Nat)
      BY <3>2, SeqMonotonic DEF Lists
    <3>. QED
      BY <3>1, <3>3
  <2>6. /\ Len(commands') = l + s
        /\ \A i \in 1 .. l : commands'[i] = commands[i]
        /\ \A i \in new : commands'[i] = m + 1
    <3>0. commands \in Seq(Nat) /\ more \in Seq(Nat) /\ Len(commands) = l /\ Len(more) = s
      BY <2>5
    <3>1. /\ Len(commands') = l + s
          /\ \A i \in 1 .. l + s :
                commands'[i] = IF i <= l THEN commands[i] ELSE more[i - l]
      <4>1. commands' = commands \o more
        BY <2>3
      <4>. HIDE DEF l, s, more
      <4>2. /\ Len(commands \o more) = l + s
            /\ \A i \in 1 .. l + s :
                  (commands \o more)[i] = IF i <= l THEN commands[i] ELSE more[i - l]
        BY ONLY <3>0, ConcatProperties
      <4>. QED
        BY ONLY <4>1, <4>2
    <3>2. \A i \in new : i - l \in 1 .. s /\ ~ (i <= l) /\ i \in 1 .. l + s
      BY <2>1
    <3>3. \A i \in 1 .. l : i <= l /\ i \in 1 .. l + s
      BY <2>1
    <3>. QED
      BY <3>1, <3>2, <3>3
  <2>7. Outgoing' = Outgoing \cup new
    <3>1. attempted \in 0 .. l
      BY DEF Lists
    <3>2. attempted + 1 .. l + s = (attempted + 1 .. l) \cup (l + 1 .. l + s)
      BY <2>1, <3>1
    <3>. QED
      BY <2>3, <2>6, <3>2 DEF Outgoing, Unacknowledged
  <2>8. \A i \in Outgoing : i \in 1 .. l /\ commands'[i] = commands[i] /\ commands[i] \in 1 .. m
    BY <2>6 DEF Ids
  <2>9. \A p \in 1 .. m :
           {i \in Outgoing' : commands'[i] = p} = {i \in Outgoing : commands[i] = p}
    BY <2>6, <2>7, <2>8
  <2>10. {i \in Outgoing' : commands'[i] = m + 1} = new
    BY <2>6, <2>7, <2>8
  <2>11. Cardinality(new) = s
    <3>. DEFINE first == l + 1
                last == l + s
    <3>1. first \in Int /\ last \in Int
      BY <2>1
    <3>2. last - first + 1 = s /\ (first > last => s = 0)
      BY <2>1
    <3>. HIDE DEF first, last
    <3>3. Cardinality(first .. last) = IF first > last THEN 0 ELSE last - first + 1
      BY <3>1, FS_Interval
    <3>4. Cardinality(first .. last) = s
      BY <2>1, <3>2, <3>3
    <3>. QED
      BY <3>4 DEF first, last
  <2>. HIDE DEF s, new
  <2>12. \A p \in 1 .. m :
            /\ packets[p].referenceCount = Cardinality({i \in Outgoing : commands[i] = p})
            /\ packets[p].remainingFragments >= packets[p].referenceCount
    BY DEF Packets, ReferencesCounted, CallbackNotEarly
  <2>13. ASSUME NEW p \in 1 .. m + 1
         PROVE  /\ packets'[p].referenceCount = Cardinality({i \in Outgoing' : commands'[i] = p})
                /\ packets'[p].remainingFragments >= packets'[p].referenceCount
    <3>1. CASE p = m + 1
      <4>1. {i \in Outgoing' : commands'[i] = p} = new /\ packets'[p] = packet
        BY <2>4, <2>10, <3>1
      <4>2. Cardinality({i \in Outgoing' : commands'[i] = p}) = s
        BY <2>11, <4>1
      <4>3. packets'[p].referenceCount = s /\ packets'[p].remainingFragments = s
        BY <2>2, <4>1
      <4>4. s >= s
        BY <2>1
      <4>. QED
        BY <4>2, <4>3, <4>4
    <3>2. CASE p # m + 1
      <4>1. p \in 1 .. m
        BY <3>2
      <4>. QED
        BY <2>4, <2>9, <2>12, <4>1
    <3>. QED
      BY <3>1, <3>2
  <2>14. DOMAIN packets' = 1 .. m + 1
    BY <2>4
  <2>. QED
    BY <2>4, <2>13, <2>14 DEF Packets, ReferencesCounted, CallbackNotEarly
<1>2. ASSUME Outgoing' = Outgoing, UNCHANGED <<packets, commands>>
      PROVE  Packets'
  BY <1>2 DEF Packets, ReferencesCounted, CallbackNotEarly
<1>3. CASE SendNew
  <2>1. Outgoing' = Outgoing
    <3>1. attempted + 1 .. Len(commands)
             = {attempted + 1} \cup (attempted + 1 + 1 .. Len(commands))
      BY <1>3 DEF SendNew, Ids
    <3>. QED
      BY <1>3, <3>1 DEF SendNew, Outgoing, Unacknowledged
  <2>. QED
    BY <1>2, <1>3, <2>1 DEF SendNew
<1>4. ASSUME NEW i \in Ids, Resend(i)
      PROVE  Packets'
  BY <1>2, <1>4 DEF Resend, Outgoing, Unacknowledged
<1>5. ASSUME NEW i \in Ids, Expire(i)
      PROVE  Packets'
  BY <1>2, <1>5 DEF Expire, Outgoing, Unacknowledged
<1>6. ASSUME NEW seq \in SeqNum, Acknowledge(seq)
      PROVE  Packets'
  <2>1. PICK i \in Unacknowledged, wasSent \in BOOLEAN : RemoveCommand(i, wasSent)
    BY <1>6, Acknowledged
  <2>. DEFINE q == commands[i]
  <2>2. i \in Outgoing /\ q \in 1 .. Len(packets) /\ q \in DOMAIN packets
    BY DEF Outgoing
  <2>3. Outgoing' = Outgoing \ {i} /\ commands' = commands
    <3>1. i \notin attempted + 1 .. Len(commands)
      OBVIOUS
    <3>. QED
      BY <2>1, <3>1 DEF RemoveCommand, Outgoing, Unacknowledged
  <2>4. \A p : /\ Cardinality(References(Outgoing, commands, p)) \in Nat
               /\ q = p => Cardinality(References(Outgoing, commands, p)) > 0
               /\ Cardinality(References(Outgoing \ {i}, commands, p))
                     = IF q = p THEN Cardinality(References(Outgoing, commands, p)) - 1
                                ELSE Cardinality(References(Outgoing, commands, p))
    BY <2>2, ReferenceRemoved
  <2>5. \A p \in DOMAIN packets :
           /\ packets[p] \in PacketRecords
           /\ packets[p].referenceCount = Cardinality(References(Outgoing, commands, p))
           /\ packets[p].remainingFragments >= packets[p].referenceCount
    BY DEF Packets, ReferencesCounted, CallbackNotEarly, References
  <2>6. /\ Released(packets[q], wasSent) \in PacketRecords
        /\ Released(packets[q], wasSent).referenceCount = packets[q].referenceCount - 1
        /\ Released(packets[q], wasSent).remainingFragments
              >= Released(packets[q], wasSent).referenceCount
    <3>1. packets[q] \in PacketRecords /\ wasSent \in BOOLEAN
      BY <2>1, <2>2, <2>5
    <3>2. /\ packets[q].referenceCount > 0
          /\ packets[q].remainingFragments >= packets[q].referenceCount
      BY <2>2, <2>4, <2>5
    <3>. QED
      BY <3>1, <3>2, ReleasedFacts
  <2>7. packets' = [packets EXCEPT ![q] = Released(packets[q], wasSent)]
    BY <2>1 DEF RemoveCommand
  <2>. HIDE DEF q
  <2>8. packets' \in Seq(PacketRecords) /\ DOMAIN packets' = DOMAIN packets
    <3>1. packets \in Seq(PacketRecords)
      BY DEF Packets
    <3>2. packets' \in Seq(PacketRecords)
      BY <2>2, <2>6, <2>7, <3>1, ExceptSeq
    <3>. QED
      BY <2>7, <3>2
  <2>9. ASSUME NEW p \in DOMAIN packets
        PROVE  /\ packets'[p].referenceCount = Cardinality(References(Outgoing \ {i}, commands, p))
               /\ packets'[p].remainingFragments >= packets'[p].referenceCount
    <3>1. CASE p = q
      <4>1. packets'[p] = Released(packets[q], wasSent)
        BY <2>7, <3>1
      <4>. QED
        BY <2>4, <2>5, <2>6, <3>1, <4>1
    <3>2. CASE p # q
      <4>1. packets'[p] = packets[p]
        BY <2>7, <3>2
      <4>. QED
        BY <2>4, <2>5, <3>2, <4>1
    <3>. QED
      BY <3>1, <3>2
  <2>. QED
    BY <2>3, <2>8, <2>9 DEF Packets, ReferencesCounted, CallbackNotEarly, References
<1>. QED
  BY <1>1, <1>3, <1>4, <1>5, <1>6 DEF SenderNext

-----------------------------------------------------------------------------
(* The invariant, and what follows from it.                                 *)

SenderInvariant == Lists /\ Counters /\ Packets

(* A channel without commands satisfies the invariant.                      *)
LEMMA Initially == SenderInit => SenderInvariant
<1>. SUFFICES ASSUME SenderInit PROVE SenderInvariant
  OBVIOUS
<1>1. /\ packets = <<>> /\ commands = <<>> /\ attempted = 0
      /\ expired = {} /\ sentReliableCommands = {}
      /\ reliableWindows = [w \in WindowNum |-> 0]
      /\ usedReliableWindows = {} /\ reliableDataInTransit = 0
  BY DEF SenderInit
<1>2. Lists
  BY <1>1 DEF Lists
<1>3. Unacknowledged = {} /\ Cardinality({}) = 0
  BY <1>1, FS_EmptySet DEF Unacknowledged
<1>4. Counters
  <2>1. WindowAccounting
    <3>1. \A w \in WindowNum : {i \in Unacknowledged : SlotOf(i) = w} = {}
      BY <1>3
    <3>. QED
      BY <1>1, <1>3, <3>1 DEF WindowAccounting
  <2>2. TransitAccounting
    BY <1>1, <1>3, SenderAssumption DEF TransitAccounting
  <2>3. InFlightSpan
    BY <1>3 DEF InFlightSpan
  <2>. QED
    BY <1>1, <2>1, <2>2, <2>3 DEF Counters
<1>5. Packets
  BY <1>1 DEF Packets, ReferencesCounted, CallbackNotEarly
<1>. QED
  BY <1>2, <1>4, <1>5 DEF SenderInvariant

(* Every step keeps the invariant.                                          *)
LEMMA Stepwise == SenderInvariant /\ [SenderNext]_senderVars => SenderInvariant'
<1>. SUFFICES ASSUME SenderInvariant, [SenderNext]_senderVars
              PROVE  SenderInvariant'
  OBVIOUS
<1>1. CASE SenderNext
  <2>1. Packets'
    BY <1>1, PacketsKept DEF SenderInvariant
  <2>2. Lists'
    BY <1>1, <2>1, ListsKept DEF SenderInvariant, Packets
  <2>3. Counters'
    BY <1>1, CountersKept DEF SenderInvariant
  <2>. QED
    BY <2>1, <2>2, <2>3 DEF SenderInvariant
<1>2. CASE UNCHANGED senderVars
  BY <1>2 DEF senderVars, SenderInvariant, Lists, Counters, Packets, WindowAccounting,
              TransitAccounting, InFlightSpan, ReferencesCounted, CallbackNotEarly,
              Unacknowledged, Outgoing
<1>. QED
  BY <1>1, <1>2

(* The inductive invariant of the sender holds through every order of       *)
(* sends, timeouts, resends and acknowledgements.                           *)
THEOREM Invariant == SenderSpec => []SenderInvariant
BY Initially, Stepwise, PTL DEF SenderSpec

(* Every variable of the sender keeps its type, and a command that was sent *)
(* is on exactly one of the two lists until it is acknowledged.             *)
THEOREM Typing == SenderSpec => []SenderTypeOK
<1>1. SenderInvariant => SenderTypeOK
  BY DEF SenderInvariant, Lists, Counters, SenderTypeOK
<1>. QED
  BY <1>1, Invariant, PTL

(* channel->reliableWindows and usedReliableWindows count the commands not  *)
(* acknowledged, exactly, so that no window stays used with nothing in it.  *)
THEOREM WindowsExact == SenderSpec => []WindowAccounting
<1>1. SenderInvariant => WindowAccounting
  BY DEF SenderInvariant, Counters
<1>. QED
  BY <1>1, Invariant, PTL

(* peer->reliableDataInTransit is what sentReliableCommands carries, and    *)
(* stays within the limit.                                                  *)
THEOREM TransitExact == SenderSpec => []TransitAccounting
<1>1. SenderInvariant => TransitAccounting
  BY DEF SenderInvariant, Counters
<1>. QED
  BY <1>1, Invariant, PTL

(* The counters of a channel neither leak nor go below what is there, for   *)
(* windows of any size and number and any limit.                            *)
THEOREM CountersRight == SenderSpec => []CountersExact
BY WindowsExact, TransitExact, PTL DEF CountersExact

(* Everything unacknowledged lies in the last FreeWindows - 1 windows.      *)
THEOREM SpanBounded == SenderSpec => []InFlightSpan
<1>1. SenderInvariant => InFlightSpan
  BY DEF SenderInvariant, Counters
<1>. QED
  BY <1>1, Invariant, PTL

(* A packet is destroyed when the last command that carries it leaves the   *)
(* lists, and not before.                                                   *)
THEOREM ReferencesExact == SenderSpec => []ReferencesCounted
<1>1. SenderInvariant => ReferencesCounted
  BY DEF SenderInvariant, Packets
<1>. QED
  BY <1>1, Invariant, PTL

(* The acknowledge callback does not come before the last acknowledgement.  *)
THEOREM CallbackInTime == SenderSpec => []CallbackNotEarly
<1>1. SenderInvariant => CallbackNotEarly
  BY DEF SenderInvariant, Packets
<1>. QED
  BY <1>1, Invariant, PTL

(* A packet is freed with its last command, and reported as acknowledged no *)
(* earlier than that, for packets of any number of fragments.               *)
THEOREM PacketsRight == SenderSpec => []PacketsExact
BY ReferencesExact, CallbackInTime, PTL DEF PacketsExact

-----------------------------------------------------------------------------
(* Acknowledgements are not ambiguous.                                      *)

(* Two commands with the same 16-bit number are a whole circle apart at     *)
(* least.                                                                   *)
LEMMA SameNumber ==
    ASSUME NEW i \in Nat, NEW j \in Nat, i < j, Wire(i) = Wire(j)
    PROVE  j >= i + Circle
<1>. DEFINE q == i \div Circle
            k == j \div Circle
            r == i % Circle
<1>1. Circle \in Nat \ {0}
  BY CircleFacts
<1>2. q \in Nat /\ r \in 0 .. Circle - 1 /\ i = Circle * q + r
  BY <1>1, DivisionFacts
<1>3. k \in Nat /\ j = Circle * k + r
  BY <1>1, DivisionFacts DEF Wire
<1>. HIDE DEF q, k, r
<1>4. Circle * q < Circle * ((k - 1) + 1)
  BY <1>1, <1>2, <1>3
<1>5. q <= k - 1
  BY <1>1, <1>2, <1>3, <1>4, ProductOrder
<1>. DEFINE d == k - 1 - q
<1>6. d \in Nat /\ Circle * d >= 0
  BY <1>1, <1>2, <1>3, <1>5
<1>7. Circle * k = Circle * q + Circle + Circle * d
  BY <1>1, <1>2, <1>3
<1>. HIDE DEF d
<1>. QED
  BY <1>1, <1>2, <1>3, <1>6, <1>7

(* The number in an ACKNOWLEDGE names one unacknowledged command at most,   *)
(* however often the 16 bits have wrapped: a late acknowledgement cannot    *)
(* remove another command than the one it is for.                           *)
THEOREM AcknowledgementsUnambiguous == SenderSpec => []NumbersUnambiguous
<1>1. ASSUME Lists, InFlightSpan, NEW i \in Unacknowledged, NEW j \in Unacknowledged,
             Wire(i) = Wire(j), i < j
      PROVE  FALSE
  <2>. DEFINE S == WindowSize
              a == attempted
              qi == i \div S
              ri == i % S
              qa == a \div S
              ra == a % S
  <2>1. S \in Nat \ {0} /\ FreeWindows \in Nat /\ Windows = 2 * FreeWindows
        /\ FreeWindows >= 2 /\ Circle = S * Windows
    BY SequenceAssumption, CircleFacts
  <2>2. i \in Nat /\ j \in Nat /\ a \in Nat /\ j <= a
    BY <1>1, ListFacts DEF Ids
  <2>3. j >= i + Circle
    BY <1>1, <2>2, SameNumber
  <2>4. qi + FreeWindows - 2 >= qa
    BY <1>1 DEF InFlightSpan
  <2>5. qi \in Nat /\ ri \in 0 .. S - 1 /\ i = S * qi + ri
    BY <2>1, <2>2, DivisionFacts
  <2>6. qa \in Nat /\ ra \in 0 .. S - 1 /\ a = S * qa + ra
    BY <2>1, <2>2, DivisionFacts
  <2>. HIDE DEF qi, ri, qa, ra, S, a
  <2>7. S * (qi + Windows) < S * (qa + 1)
    <3>1. S * (qi + Windows) = S * qi + Circle
      BY <2>1, <2>5
    <3>2. S * (qa + 1) = S * qa + S
      BY <2>1, <2>6
    <3>. QED
      BY <2>1, <2>2, <2>3, <2>5, <2>6, <3>1, <3>2
  <2>8. qi + Windows <= qa
    BY <2>1, <2>5, <2>6, <2>7, ProductOrder
  <2>. QED
    BY <2>1, <2>4, <2>5, <2>6, <2>8
<1>2. SenderInvariant => NumbersUnambiguous
  <2>. SUFFICES ASSUME Lists, InFlightSpan, NEW i \in Unacknowledged, NEW j \in Unacknowledged,
                       Wire(i) = Wire(j)
                PROVE  i = j
    BY DEF SenderInvariant, Counters, NumbersUnambiguous
  <2>1. i \in Nat /\ j \in Nat
    BY ListFacts DEF Ids
  <2>2. i < j \/ j < i \/ i = j
    BY <2>1
  <2>. QED
    BY <1>1, <2>2
<1>. QED
  BY <1>2, Invariant, PTL
=============================================================================
