------------------------ MODULE ENetUnreliableProofs ------------------------
(***************************************************************************)
(* Theorems of a channel that carries packets of all kinds, for windows of *)
(* any size and any number, and packets of any number of fragments.        *)
(***************************************************************************)
EXTENDS ENetUnreliable, ENetSequenceProofs

-----------------------------------------------------------------------------
(* Unsequenced packets and the window of their numbers.                     *)

(* The half of the circle that counts as new.                               *)
Half == FreeUnsequencedWindows * UnsequencedWindowSize

(* The sizes, and that a circle is twice its half.                          *)
LEMMA GroupFacts ==
    /\ UnsequencedWindowSize \in Nat \ {0}
    /\ FreeUnsequencedWindows \in Nat \ {0}
    /\ Half \in Nat \ {0}
    /\ GroupCircle = 2 * Half
    /\ GroupCircle \in Nat \ {0}
    /\ GroupLifetime \in 0 .. Half
BY UnsequencedAssumption DEF GroupCircle, Half

(* The first number of the window that packet i lies in.                    *)
Base(i) == i - Index(i)

(* The windows of the circle begin where the windows of the line do, and    *)
(* packet i is in the same place in both.                                   *)
LEMMA GroupOfWindow ==
    ASSUME NEW i \in Nat
    PROVE  /\ Group(i) \in 0 .. GroupCircle - 1
           /\ Index(Group(i)) = Index(i)
           /\ Group(i) - Index(Group(i)) = Group(Base(i))
<1>. DEFINE S == UnsequencedWindowSize
            W == 2 * FreeUnsequencedWindows
            q == i \div GroupCircle
            r == i % GroupCircle
            d == r \div S
            e == r % S
<1>1. /\ S \in Nat \ {0} /\ W \in Nat \ {0}
      /\ GroupCircle = S * W /\ GroupCircle \in Nat \ {0}
  BY UnsequencedAssumption DEF GroupCircle
<1>2. q \in Nat /\ r \in 0 .. GroupCircle - 1 /\ i = GroupCircle * q + r
  BY <1>1, DivisionFacts
<1>. HIDE DEF q, r
<1>3. d \in Nat /\ e \in 0 .. S - 1 /\ r = S * d + e
  <2>1. r \in Nat
    BY <1>1, <1>2
  <2>. HIDE DEF S
  <2>. QED
    BY <1>1, <2>1, DivisionFacts
<1>. HIDE DEF d, e
<1>. HIDE DEF S, W
<1>4. i = S * (W * q + d) + e
  <2>1. GroupCircle * q = S * (W * q)
    BY <1>1, <1>2
  <2>2. S * (W * q + d) = S * (W * q) + S * d
    BY <1>1, <1>2, <1>3
  <2>. QED
    BY <1>1, <1>2, <1>3, <2>1, <2>2
<1>5. W * q + d \in Nat
  BY <1>1, <1>2, <1>3
<1>6. i % S = e
  BY <1>1, <1>3, <1>4, <1>5, DivisionUnique
<1>7. i - e = GroupCircle * q + (r - e)
  BY <1>1, <1>2, <1>3
<1>8. r - e \in 0 .. GroupCircle - 1
  <2>1. S * d \in Nat
    BY <1>1, <1>3
  <2>. QED
    BY <1>1, <1>2, <1>3, <2>1
<1>9. i - e \in Nat
  <2>1. GroupCircle * q \in Nat
    BY <1>1, <1>2
  <2>. QED
    BY <1>7, <1>8, <2>1
<1>10. (i - e) % GroupCircle = r - e
  <2>. DEFINE x == i - e
              y == r - e
  <2>1. x \in Nat /\ y \in 0 .. GroupCircle - 1 /\ x = GroupCircle * q + y
    BY <1>7, <1>8, <1>9
  <2>. HIDE DEF x, y
  <2>2. x % GroupCircle = y
    BY <1>1, <1>2, <2>1, DivisionUnique
  <2>. QED
    BY <2>2 DEF x, y
<1>. QED
  BY <1>2, <1>6, <1>10 DEF Group, Index, Base, S, r, e

(* A window begins with a number, and has the window's size of them.        *)
LEMMA BaseFacts ==
    ASSUME NEW i \in Nat
    PROVE  /\ Base(i) \in Nat
           /\ Base(i) <= i
           /\ i < Base(i) + UnsequencedWindowSize
           /\ Index(i) = i - Base(i)
           /\ Index(i) \in 0 .. UnsequencedWindowSize - 1
<1>. DEFINE S == UnsequencedWindowSize
            k == i \div S
            e == i % S
<1>1. S \in Nat \ {0}
  BY GroupFacts
<1>. HIDE DEF S
<1>2. k \in Nat /\ e \in 0 .. S - 1 /\ i = S * k + e
  BY <1>1, DivisionFacts
<1>. HIDE DEF k, e
<1>3. S * k \in Nat
  BY <1>1, <1>2
<1>. QED
  BY <1>1, <1>2, <1>3 DEF Base, Index, S, e

(* Of two windows, one lies wholly before the other.                        *)
LEMMA WindowsApart ==
    ASSUME NEW i \in Nat, NEW j \in Nat, Base(i) <= j
    PROVE  /\ Base(i) <= Base(j)
           /\ j < Base(i) + UnsequencedWindowSize => Base(j) = Base(i)
<1>. DEFINE S == UnsequencedWindowSize
            a == i \div S
            b == j \div S
<1>1. S \in Nat \ {0}
  BY GroupFacts
<1>. HIDE DEF S
<1>2. a \in Nat /\ b \in Nat /\ i = S * a + (i % S) /\ j = S * b + (j % S)
      /\ i % S \in 0 .. S - 1 /\ j % S \in 0 .. S - 1
  BY <1>1, DivisionFacts
<1>. HIDE DEF a, b
<1>3. Base(i) = S * a /\ Base(j) = S * b
  <2>1. S * a \in Int /\ S * b \in Int
    BY <1>1, <1>2
  <2>2. Base(i) = i - (i % S) /\ Base(j) = j - (j % S)
    BY DEF Base, Index, S
  <2>. DEFINE x == i % S
              y == j % S
              u == S * a
              v == S * b
  <2>3. i = u + x /\ j = v + y /\ x \in Nat /\ y \in Nat /\ u \in Int /\ v \in Int
    BY <1>1, <1>2, <2>1
  <2>. HIDE DEF x, y, u, v
  <2>4. i - x = u /\ j - y = v
    BY <2>3
  <2>. QED
    BY <2>2, <2>4 DEF x, y, u, v
<1>4. S * a < S * (b + 1)
  BY <1>1, <1>2, <1>3
<1>5. a <= b
  BY <1>1, <1>2, <1>4, ProductOrder
<1>6. S * a <= S * b
  <2>1. b - a \in Nat /\ S * (b - a) \in Nat
    BY <1>1, <1>2, <1>5
  <2>2. S * b = S * a + S * (b - a)
    BY <1>1, <1>2
  <2>. QED
    BY <1>1, <1>2, <2>1, <2>2
<1>7. ASSUME j < S * a + S PROVE b = a
  <2>1. S * b < S * (a + 1)
    BY <1>1, <1>2, <1>7
  <2>. QED
    BY <1>1, <1>2, <1>5, <2>1, ProductOrder
<1>. QED
  BY <1>3, <1>6, <1>7 DEF S

(* A packet at most half a circle behind the present window is old.         *)
LEMMA BehindIsOld ==
    ASSUME NEW b \in Nat, incomingUnsequencedGroup = Group(b),
           NEW i \in Nat, i < b, b - i <= Half
    PROVE  IsOldGroup(Group(i))
<1>. DEFINE C == GroupCircle
            H == Half
            q == b \div C
            r == b % C
<1>1. C \in Nat \ {0} /\ H \in Nat \ {0} /\ C = 2 * H
  BY GroupFacts
<1>. HIDE DEF C, H
<1>2. q \in Nat /\ r \in 0 .. C - 1 /\ b = C * q + r
  BY <1>1, DivisionFacts
<1>. HIDE DEF q, r
<1>3. C * q \in Nat
  BY <1>1, <1>2
<1>4. CASE r >= b - i
  <2>1. i = C * q + (r - (b - i)) /\ r - (b - i) \in 0 .. C - 1
    BY <1>1, <1>2, <1>3, <1>4
  <2>2. i % C = r - (b - i)
    <3>. DEFINE y == r - (b - i)
    <3>1. y \in 0 .. C - 1 /\ i = C * q + y
      BY <2>1
    <3>. HIDE DEF y
    <3>2. i % C = y
      BY <1>1, <1>2, <3>1, DivisionUnique
    <3>. QED
      BY <3>2 DEF y
  <2>3. i % C < r /\ (i % C) + C >= r + H
    BY <1>1, <1>2, <1>3, <2>2 DEF H
  <2>. QED
    BY <2>3 DEF IsOldGroup, Group, C, r, H, Half
<1>5. CASE r < b - i
  <2>1. q # 0
    BY <1>1, <1>2, <1>5
  <2>2. q - 1 \in Nat /\ C * q = C * (q - 1) + C
    BY <1>1, <1>2, <2>1
  <2>3. C * (q - 1) \in Nat
    BY <1>1, <2>2
  <2>4. i = C * (q - 1) + (r - (b - i) + C) /\ r - (b - i) + C \in 0 .. C - 1
    BY <1>1, <1>2, <1>3, <1>5, <2>2, <2>3 DEF H
  <2>5. i % C = r - (b - i) + C
    <3>. DEFINE y == r - (b - i) + C
                p == q - 1
    <3>1. y \in 0 .. C - 1 /\ p \in Nat /\ i = C * p + y
      BY <2>2, <2>4
    <3>. HIDE DEF y, p
    <3>2. i % C = y
      BY <1>1, <3>1, DivisionUnique
    <3>. QED
      BY <3>2 DEF y
  <2>6. ~ (i % C < r) /\ i % C >= r + H
    BY <1>1, <1>2, <2>5 DEF H
  <2>. QED
    BY <2>6 DEF IsOldGroup, Group, C, r, H, Half
<1>. QED
  BY <1>1, <1>2, <1>4, <1>5

-----------------------------------------------------------------------------

(* The strengthening.  The present window is that of some number b, and     *)
(* begins no later than the last packet sent; nothing after it was          *)
(* accepted, and what was accepted of it has its bit set.                   *)
WindowOfPacket(b) ==
    /\ Base(b) <= outgoingUnsequencedGroup
    /\ incomingUnsequencedGroup = Group(Base(b))
    /\ \A i \in accepted :
          /\ i < Base(b) + UnsequencedWindowSize
          /\ i >= Base(b) => Index(i) \in unsequencedWindow

WindowInv == UnsequencedTypeOK /\ \E b \in Nat : WindowOfPacket(b)

(* The window begins as that of the number that is to come first.           *)
LEMMA WindowInit ==
    ASSUME NEW first \in Nat, UnsequencedInit(first)
    PROVE  WindowInv
<1>1. /\ Group(first) \in 0 .. GroupCircle - 1
      /\ Index(Group(first)) = Index(first)
      /\ Group(first) - Index(Group(first)) = Group(Base(first))
  BY GroupOfWindow
<1>2. /\ Base(first) \in Nat /\ Base(first) <= first
      /\ Index(first) \in 0 .. UnsequencedWindowSize - 1
  BY BaseFacts
<1>3. incomingUnsequencedGroup = Group(Base(first))
  BY <1>1 DEF UnsequencedInit
<1>4. WindowOfPacket(first)
  BY <1>2, <1>3 DEF UnsequencedInit, WindowOfPacket
<1>5. UnsequencedTypeOK
  <2>1. Group(Base(first)) \in 0 .. GroupCircle - 1
    BY <1>2, GroupOfWindow
  <2>. QED
    BY <1>2, <1>3, <2>1 DEF UnsequencedInit, UnsequencedTypeOK
<1>. QED
  BY <1>4, <1>5 DEF WindowInv

(* Receiving packet i moves the window to that of i, which is never before  *)
(* the present one.                                                         *)
LEMMA WindowReceive ==
    ASSUME WindowInv,
           NEW i \in 1 .. outgoingUnsequencedGroup, NEW stored \in BOOLEAN,
           DeliverUnsequenced(i, stored)
    PROVE  WindowInv'
<1>. USE DEF UnsequencedTypeOK
<1>1. PICK b \in Nat : WindowOfPacket(b)
  BY DEF WindowInv
<1>2. /\ UnsequencedTypeOK
      /\ i \in Nat /\ i <= outgoingUnsequencedGroup
      /\ i + GroupLifetime >= outgoingUnsequencedGroup
      /\ ReceiveUnsequenced(i, stored)
  BY DEF WindowInv, DeliverUnsequenced, IsAlive
<1>3. ~ IsOldGroup(Group(i)) /\ MarkGroup(Group(i), stored)
      /\ outgoingUnsequencedGroup' = outgoingUnsequencedGroup
      /\ accepted' = IF stored THEN accepted \cup {i} ELSE accepted
  BY <1>2 DEF ReceiveUnsequenced
<1>4. Base(b) \in Nat /\ Base(i) \in Nat /\ Base(i) <= i
      /\ i < Base(i) + UnsequencedWindowSize
      /\ Index(i) \in 0 .. UnsequencedWindowSize - 1
      /\ UnsequencedWindowSize \in Nat
  BY <1>2, BaseFacts, GroupFacts
<1>5. Base(b) <= i
  <2>1. SUFFICES ASSUME i < Base(b) PROVE FALSE
    BY <1>2, <1>4
  <2>2. Base(b) - i <= Half
    BY <1>1, <1>2, <1>4, GroupFacts DEF WindowOfPacket
  <2>. QED
    BY <1>1, <1>2, <1>3, <1>4, <2>1, <2>2, BehindIsOld DEF WindowOfPacket
<1>6. Base(b) <= Base(i)
      /\ (i < Base(b) + UnsequencedWindowSize => Base(i) = Base(b))
  BY <1>2, <1>5, WindowsApart
<1>7. /\ Group(i) \in 0 .. GroupCircle - 1
      /\ Index(Group(i)) = Index(i)
      /\ Group(i) - Index(Group(i)) = Group(Base(i))
  BY <1>2, GroupOfWindow
<1>8. incomingUnsequencedGroup' = Group(Base(i))
  BY <1>3, <1>7 DEF MarkGroup
<1>9. UnsequencedTypeOK'
  <2>1. Group(Base(i)) \in 0 .. GroupCircle - 1
    BY <1>4, GroupOfWindow
  <2>2. unsequencedWindow' \subseteq 0 .. UnsequencedWindowSize - 1
    BY <1>2, <1>3, <1>4, <1>7 DEF MarkGroup
  <2>3. accepted' \subseteq 1 .. outgoingUnsequencedGroup'
    BY <1>2, <1>3
  <2>. QED
    BY <1>2, <1>3, <1>8, <2>1, <2>2, <2>3
<1>10. ASSUME NEW j \in accepted'
       PROVE  /\ j < Base(i) + UnsequencedWindowSize
              /\ j >= Base(i) => Index(j) \in unsequencedWindow'
  <2>1. CASE j \in accepted
    <3>1. j \in Nat /\ j < Base(b) + UnsequencedWindowSize
          /\ (j >= Base(b) => Index(j) \in unsequencedWindow)
      BY <1>1, <1>2, <2>1 DEF WindowOfPacket
    <3>2. j < Base(i) + UnsequencedWindowSize
      BY <1>4, <1>6, <3>1
    <3>3. ASSUME j >= Base(i) PROVE Index(j) \in unsequencedWindow'
      <4>1. j >= Base(b) /\ Base(i) <= j
        BY <1>4, <1>6, <3>1, <3>3
      <4>2. Base(i) = Base(b)
        <5>1. Base(j) = Base(i)
          BY <1>2, <3>1, <3>2, <4>1, WindowsApart
        <5>2. Base(j) = Base(b)
          BY <3>1, <4>1, WindowsApart
        <5>. QED
          BY <5>1, <5>2
      <4>3. InPresentWindow(Group(i))
        BY <1>1, <1>7, <4>2 DEF InPresentWindow, WindowOfPacket
      <4>. QED
        BY <1>3, <3>1, <4>1, <4>3 DEF MarkGroup
    <3>. QED
      BY <3>2, <3>3
  <2>2. CASE j = i /\ stored
    BY <1>3, <1>4, <1>7, <2>2 DEF MarkGroup
  <2>. QED
    BY <1>3, <2>1, <2>2
<1>11. WindowOfPacket(i)'
  BY <1>2, <1>3, <1>4, <1>8, <1>10 DEF WindowOfPacket, Base, Index, Group
<1>. QED
  BY <1>2, <1>9, <1>11 DEF WindowInv

(* Sending leaves the window alone, receiving moves it forward.             *)
LEMMA WindowStep == WindowInv /\ [UnsequencedNext]_unsequencedVars => WindowInv'
<1>. SUFFICES ASSUME WindowInv, [UnsequencedNext]_unsequencedVars PROVE WindowInv'
  OBVIOUS
<1>1. CASE SendUnsequenced
  <2>1. PICK b \in Nat : WindowOfPacket(b)
    BY DEF WindowInv
  <2>2. WindowOfPacket(b)'
    <3>1. Base(b) \in Nat
      BY BaseFacts
    <3>. QED
      BY <1>1, <2>1, <3>1
      DEF WindowOfPacket, SendUnsequenced, WindowInv, UnsequencedTypeOK, Base, Index, Group
  <2>3. UnsequencedTypeOK'
    BY <1>1 DEF SendUnsequenced, WindowInv, UnsequencedTypeOK
  <2>. QED
    BY <2>2, <2>3 DEF WindowInv
<1>2. ASSUME NEW i \in 1 .. outgoingUnsequencedGroup, NEW stored \in BOOLEAN,
             DeliverUnsequenced(i, stored)
      PROVE  WindowInv'
  BY <1>2, WindowReceive
<1>3. CASE UNCHANGED unsequencedVars
  BY <1>3 DEF unsequencedVars, WindowInv, UnsequencedTypeOK, WindowOfPacket, Base, Index, Group
<1>. QED
  BY <1>1, <1>2, <1>3 DEF UnsequencedNext

(* What lies before the window is old, what lies in it is marked.           *)
LEMMA WindowOnce == WindowInv => AcceptedOnce
<1>. SUFFICES ASSUME WindowInv, NEW i \in accepted, IsAlive(i)
              PROVE  IsOldGroup(Group(i)) \/ IsRepeated(Group(i))
  BY DEF AcceptedOnce
<1>1. PICK b \in Nat : WindowOfPacket(b)
  BY DEF WindowInv
<1>2. i \in Nat /\ i + GroupLifetime >= outgoingUnsequencedGroup
      /\ outgoingUnsequencedGroup \in Nat /\ Base(b) \in Nat
  BY BaseFacts DEF WindowInv, UnsequencedTypeOK, IsAlive
<1>3. CASE i < Base(b)
  <2>1. Base(b) - i <= Half
    BY <1>1, <1>2, GroupFacts DEF WindowOfPacket
  <2>. QED
    BY <1>1, <1>2, <1>3, <2>1, BehindIsOld DEF WindowOfPacket
<1>4. CASE i >= Base(b)
  <2>1. Base(i) = Base(b)
    BY <1>1, <1>2, <1>4, WindowsApart DEF WindowOfPacket
  <2>2. Index(Group(i)) = Index(i) /\ Group(i) - Index(Group(i)) = Group(Base(i))
    BY <1>2, GroupOfWindow
  <2>. QED
    BY <1>1, <1>4, <2>1, <2>2 DEF WindowOfPacket, IsRepeated, InPresentWindow
<1>. QED
  BY <1>2, <1>3, <1>4

-----------------------------------------------------------------------------

(* The numbers and bits stay in their range: what incomingUnsequencedGroup  *)
(* and unsequencedWindow hold after every packet and every wrap.            *)
THEOREM UnsequencedTypes == UnsequencedSpec => []UnsequencedTypeOK
<1>1. UnsequencedInit(0) => WindowInv
  BY WindowInit
<1>2. WindowInv => UnsequencedTypeOK
  BY DEF WindowInv
<1>. QED
  BY <1>1, <1>2, WindowStep, PTL DEF UnsequencedSpec

(* enet_protocol_handle_send_unsequenced never takes a packet twice, if no  *)
(* copy is more than half a circle late: 32768 packets with the constants   *)
(* of enet.h.                                                               *)
THEOREM UnsequencedAcceptedOnce == UnsequencedSpec => []AcceptedOnce
<1>1. UnsequencedInit(0) => WindowInv
  BY WindowInit
<1>. QED
  BY <1>1, WindowStep, WindowOnce, PTL DEF UnsequencedSpec

-----------------------------------------------------------------------------
(* Parts of lists.                                                          *)

(* There are n numbers up to n.                                             *)
LEMMA CountUpto ==
    ASSUME NEW n \in Nat
    PROVE  IsFiniteSet(1 .. n) /\ Cardinality(1 .. n) = n
BY FS_Interval

(* Ascending lists a finite set of numbers in their order.                  *)
LEMMA AscendingFacts ==
    ASSUME NEW S, S \subseteq Nat, IsFiniteSet(S)
    PROVE  /\ Cardinality(S) \in Nat
           /\ Ascending(S) \in [1 .. Cardinality(S) -> S]
           /\ \A j, k \in 1 .. Cardinality(S) : j < k => Ascending(S)[j] < Ascending(S)[k]
           /\ \A s \in S : \E j \in 1 .. Cardinality(S) : Ascending(S)[j] = s
           /\ \A j \in 1 .. Cardinality(S) :
                 Cardinality({m \in S : m <= Ascending(S)[j]}) = j
           /\ \A s \in S, j \in 1 .. Cardinality(S) :
                 Cardinality({m \in S : m <= s}) = j => Ascending(S)[j] = s
<1>. DEFINE N == Cardinality(S)
            Upto(n) == {m \in S : m <= n}
            Rank(n) == Cardinality(Upto(n))
            f == [n \in S |-> Rank(n)]
<1>1. N \in Nat
  BY FS_CardinalityType
<1>2. ASSUME NEW n \in S
      PROVE  IsFiniteSet(Upto(n)) /\ Rank(n) \in 1 .. N
  <2>1. Upto(n) \in SUBSET S
    OBVIOUS
  <2>2. n \in Upto(n)
    OBVIOUS
  <2>. HIDE DEF Upto
  <2>3. IsFiniteSet(Upto(n)) /\ Cardinality(Upto(n)) <= N
    BY <2>1, FS_Subset
  <2>4. Cardinality(Upto(n)) \in Nat /\ Cardinality(Upto(n)) # 0
    BY <2>2, <2>3, FS_CardinalityType, FS_EmptySet
  <2>. QED
    BY <1>1, <2>3, <2>4
<1>3. ASSUME NEW n \in S, NEW m \in S, n < m
      PROVE  Rank(n) < Rank(m)
  <2>1. Upto(n) \in SUBSET Upto(m)
    <3>1. n \in Nat /\ m \in Nat /\ \A x \in S : x \in Nat
      OBVIOUS
    <3>2. \A x \in S : x <= n => x <= m
      BY <1>3, <3>1
    <3>. QED
      BY <3>2
  <2>2. m \in Upto(m) /\ m \notin Upto(n)
    BY <1>3
  <2>3. IsFiniteSet(Upto(m)) /\ Rank(m) \in 1 .. N /\ Rank(n) \in 1 .. N
    BY <1>2
  <2>. HIDE DEF Upto
  <2>4. Rank(n) <= Rank(m) /\ Rank(n) # Rank(m)
    BY <2>1, <2>2, <2>3, FS_Subset
  <2>. QED
    BY <1>1, <2>3, <2>4
<1>. HIDE DEF Rank, N
<1>4. \A n, m \in S : Rank(n) = Rank(m) => n = m
  <2>. SUFFICES ASSUME NEW n \in S, NEW m \in S, Rank(n) = Rank(m), n # m PROVE FALSE
    OBVIOUS
  <2>1. n < m \/ m < n
    OBVIOUS
  <2>2. Rank(n) \in 1 .. N
    BY <1>2
  <2>. QED
    BY <1>1, <1>3, <2>1, <2>2
<1>5. \A j \in 1 .. N : \E n \in S : Rank(n) = j
  <2>1. f \in Injection(S, 1 .. N)
    BY <1>2, <1>4 DEF Injection, IsInjective
  <2>2. IsFiniteSet(1 .. N) /\ Cardinality(1 .. N) = N
    BY <1>1, FS_Interval
  <2>. HIDE DEF f
  <2>3. f \in Surjection(S, 1 .. N)
    BY <2>1, <2>2, FS_Injection DEF N
  <2>. QED
    BY <2>3 DEF Surjection, f
<1>6. ASSUME NEW j \in 1 .. N
      PROVE  Ascending(S)[j] \in S /\ Rank(Ascending(S)[j]) = j
  <2>1. Ascending(S)[j] = CHOOSE n \in S : Rank(n) = j
    BY DEF Ascending, N, Rank
  <2>. QED
    BY <1>5, <2>1
<1>7. Ascending(S) \in [1 .. N -> S]
  <2>1. Ascending(S) = [j \in 1 .. N |-> CHOOSE n \in S : Rank(n) = j]
    BY DEF Ascending, N, Rank
  <2>. QED
    BY <1>5, <2>1
<1>8. ASSUME NEW j \in 1 .. N, NEW k \in 1 .. N, j < k
      PROVE  Ascending(S)[j] < Ascending(S)[k]
  <2>. DEFINE a == Ascending(S)[j]
              b == Ascending(S)[k]
  <2>1. a \in S /\ b \in S /\ Rank(a) = j /\ Rank(b) = k
    BY <1>6
  <2>. HIDE DEF a, b
  <2>2. ~ (b < a) /\ a # b
    BY <1>1, <1>3, <1>8, <2>1
  <2>3. a < b
    BY <2>1, <2>2
  <2>. QED
    BY <2>3 DEF a, b
<1>9. ASSUME NEW s \in S, NEW j \in 1 .. N, Rank(s) = j
      PROVE  Ascending(S)[j] = s
  BY <1>4, <1>6, <1>9
<1>10. ASSUME NEW s \in S PROVE \E j \in 1 .. N : Ascending(S)[j] = s
  BY <1>2, <1>9
<1>. QED
  BY <1>1, <1>6, <1>7, <1>8, <1>9, <1>10 DEF N, Rank

(* What lies before all others of a set comes first in its order.           *)
LEMMA AscendingPrefix ==
    ASSUME NEW T, T \subseteq Nat, IsFiniteSet(T), NEW S \in SUBSET T,
           \A s \in S, t \in T \ S : s < t
    PROVE  /\ IsFiniteSet(S)
           /\ Cardinality(S) <= Cardinality(T)
           /\ \A j \in 1 .. Cardinality(S) : Ascending(T)[j] = Ascending(S)[j]
<1>1. IsFiniteSet(S) /\ Cardinality(S) <= Cardinality(T)
  <2>1. IsFiniteSet(T) /\ S \in SUBSET T
    OBVIOUS
  <2>. QED
    BY ONLY <2>1, FS_Subset
<1>2. Cardinality(S) \in Nat /\ Cardinality(T) \in Nat
  BY <1>1, FS_CardinalityType
<1>3. ASSUME NEW j \in 1 .. Cardinality(S) PROVE Ascending(T)[j] = Ascending(S)[j]
  <2>. DEFINE s == Ascending(S)[j]
  <2>1. s \in S /\ Cardinality({m \in S : m <= s}) = j
    BY <1>1, AscendingFacts
  <2>. HIDE DEF s
  <2>2. {m \in T : m <= s} = {m \in S : m <= s}
    <3>1. s \in Nat /\ \A t \in T : t \in Nat
      BY <2>1
    <3>2. \A t \in T : t <= s => t \in S
      BY <2>1, <3>1
    <3>. QED
      BY <3>2
  <2>3. j \in 1 .. Cardinality(T) /\ s \in T
    BY <1>1, <1>2, <2>1
  <2>4. Cardinality({m \in T : m <= s}) = j => Ascending(T)[j] = s
    BY <2>3, AscendingFacts
  <2>. QED
    BY <2>1, <2>2, <2>4 DEF s
<1>. QED
  BY <1>1, <1>3

(* Pick keeps the order of the list.                                        *)
LEMMA PickFacts ==
    ASSUME NEW T, NEW list \in Seq(T), NEW S \in SUBSET (1 .. Len(list))
    PROVE  /\ IsFiniteSet(S)
           /\ Cardinality(S) \in Nat
           /\ Pick(list, S) \in Seq(T)
           /\ Len(Pick(list, S)) = Cardinality(S)
           /\ \A j \in 1 .. Cardinality(S) :
                 /\ Ascending(S)[j] \in S
                 /\ Pick(list, S)[j] = list[Ascending(S)[j]]
           /\ \A j, k \in 1 .. Cardinality(S) :
                 j < k => Ascending(S)[j] < Ascending(S)[k]
           /\ \A s \in S : \E j \in 1 .. Cardinality(S) : Ascending(S)[j] = s
<1>1. Len(list) \in Nat
  BY LenProperties
<1>2. IsFiniteSet(S) /\ S \subseteq Nat
  <2>1. IsFiniteSet(1 .. Len(list))
    BY <1>1, FS_Interval
  <2>2. IsFiniteSet(S)
    BY <2>1, FS_Subset
  <2>. QED
    BY <2>2
<1>3. /\ Cardinality(S) \in Nat
      /\ Ascending(S) \in [1 .. Cardinality(S) -> S]
      /\ \A j, k \in 1 .. Cardinality(S) : j < k => Ascending(S)[j] < Ascending(S)[k]
      /\ \A s \in S : \E j \in 1 .. Cardinality(S) : Ascending(S)[j] = s
  BY <1>2, AscendingFacts
<1>. DEFINE N == Cardinality(S)
            a == Ascending(S)
<1>4. Pick(list, S) = [j \in 1 .. N |-> list[a[j]]]
  BY <1>3 DEF Pick
<1>. HIDE DEF N, a
<1>5. \A j \in 1 .. N : list[a[j]] \in T
  BY <1>1, <1>3, ElementOfSeq DEF N, a
<1>6. N \in Nat
  BY <1>3 DEF N
<1>7. Pick(list, S) \in Seq(T) /\ Len(Pick(list, S)) = N
  BY <1>4, <1>5, <1>6
<1>8. \A j \in 1 .. N : a[j] \in S /\ Pick(list, S)[j] = list[a[j]]
  BY <1>3, <1>4 DEF N, a
<1>. QED
  BY <1>2, <1>3, <1>7, <1>8 DEF N, a

-----------------------------------------------------------------------------
(* The space that packets take.                                             *)

(* The space of the packets at some positions of a list.                    *)
Large(list) == {k \in DOMAIN list : Size(list[k]) # 1}

SpaceIn(list, S) == Cardinality(S) + (Fragments - 1) * Cardinality(S \cap Large(list))

(* The space is a number, and that of the whole list is the list's.         *)
LEMMA SpaceFacts ==
    ASSUME NEW list \in Seq(Nat), NEW S \in SUBSET (1 .. Len(list))
    PROVE  /\ IsFiniteSet(S)
           /\ SpaceIn(list, S) \in Nat
           /\ SpaceOf(list) = SpaceIn(list, 1 .. Len(list))
           /\ SpaceOf(list) \in Nat
<1>1. Len(list) \in Nat /\ DOMAIN list = 1 .. Len(list)
  BY LenProperties
<1>2. IsFiniteSet(1 .. Len(list)) /\ Cardinality(1 .. Len(list)) = Len(list)
  BY <1>1, CountUpto
<1>3. ASSUME NEW U \in SUBSET (1 .. Len(list))
      PROVE  IsFiniteSet(U) /\ SpaceIn(list, U) \in Nat
  <2>1. IsFiniteSet(U)
    BY <1>2, FS_Subset
  <2>2. IsFiniteSet(U \cap Large(list))
    <3>. DEFINE V == U \cap Large(list)
    <3>1. V \in SUBSET (1 .. Len(list))
      OBVIOUS
    <3>. HIDE DEF V
    <3>2. IsFiniteSet(V)
      BY <1>2, <3>1, FS_Subset
    <3>. QED
      BY <3>2 DEF V
  <2>3. Cardinality(U) \in Nat /\ Cardinality(U \cap Large(list)) \in Nat
    BY <2>1, <2>2, FS_CardinalityType
  <2>. DEFINE a == Cardinality(U)
              b == Cardinality(U \cap Large(list))
  <2>4. Fragments - 1 \in Nat
    BY UnreliableAssumption
  <2>5. SpaceIn(list, U) = a + (Fragments - 1) * b
    BY DEF SpaceIn
  <2>6. a \in Nat /\ b \in Nat
    BY <2>3
  <2>. HIDE DEF a, b
  <2>7. a + (Fragments - 1) * b \in Nat
    BY <2>4, <2>6
  <2>. QED
    BY <2>1, <2>5, <2>7
<1>4. SpaceOf(list) = SpaceIn(list, 1 .. Len(list))
  <2>1. (1 .. Len(list)) \cap Large(list) = {k \in DOMAIN list : Size(list[k]) # 1}
    BY <1>1 DEF Large
  <2>. QED
    BY <1>2, <2>1 DEF SpaceOf, SpaceIn
<1>. QED
  BY <1>3, <1>4

(* Disjoint positions add up.                                               *)
LEMMA SpaceAdds ==
    ASSUME NEW list \in Seq(Nat),
           NEW S \in SUBSET (1 .. Len(list)), NEW T \in SUBSET (1 .. Len(list)),
           S \cap T = {}
    PROVE  SpaceIn(list, S \cup T) = SpaceIn(list, S) + SpaceIn(list, T)
<1>. DEFINE L == Large(list)
<1>1. ASSUME NEW U \in SUBSET (1 .. Len(list)), NEW V \in SUBSET (1 .. Len(list)),
             U \cap V = {}
      PROVE  /\ Cardinality(U) \in Nat /\ Cardinality(V) \in Nat
             /\ Cardinality(U \cup V) = Cardinality(U) + Cardinality(V)
  <2>1. IsFiniteSet(U) /\ IsFiniteSet(V)
    BY SpaceFacts
  <2>2. Cardinality(U) \in Nat /\ Cardinality(V) \in Nat
    BY <2>1, FS_CardinalityType
  <2>3. Cardinality(U \cup V) = Cardinality(U) + Cardinality(V) - Cardinality(U \cap V)
    BY <2>1, FS_Union
  <2>4. Cardinality(U \cap V) = 0
    BY <1>1, FS_EmptySet
  <2>. QED
    BY <2>2, <2>3, <2>4
<1>. DEFINE a == Cardinality(S)
            b == Cardinality(T)
            c == Cardinality(S \cap L)
            d == Cardinality(T \cap L)
<1>2. a \in Nat /\ b \in Nat /\ Cardinality(S \cup T) = a + b
  BY <1>1
<1>3. c \in Nat /\ d \in Nat /\ Cardinality((S \cup T) \cap L) = c + d
  <2>. DEFINE U == S \cap L
              V == T \cap L
  <2>1. U \in SUBSET (1 .. Len(list)) /\ V \in SUBSET (1 .. Len(list)) /\ U \cap V = {}
    OBVIOUS
  <2>2. (S \cup T) \cap L = U \cup V
    OBVIOUS
  <2>. HIDE DEF U, V, L
  <2>3. /\ Cardinality(U) \in Nat /\ Cardinality(V) \in Nat
        /\ Cardinality(U \cup V) = Cardinality(U) + Cardinality(V)
    BY <1>1, <2>1
  <2>. QED
    BY <2>2, <2>3 DEF U, V
<1>4. /\ SpaceIn(list, S) = a + (Fragments - 1) * c
      /\ SpaceIn(list, T) = b + (Fragments - 1) * d
      /\ SpaceIn(list, S \cup T) = (a + b) + (Fragments - 1) * (c + d)
  BY <1>2, <1>3 DEF SpaceIn
<1>5. Fragments \in Nat
  BY UnreliableAssumption
<1>. HIDE DEF a, b, c, d
<1>. QED
  BY <1>2, <1>3, <1>4, <1>5

(* A list whose packets are those at some positions of another, in any      *)
(* order, takes the space of those positions.                               *)
LEMMA SpaceImage ==
    ASSUME NEW list \in Seq(Nat), NEW part \in Seq(Nat),
           NEW f \in Injection(1 .. Len(part), 1 .. Len(list)),
           \A k \in 1 .. Len(part) : part[k] = list[f[k]],
           NEW S, S = {f[k] : k \in 1 .. Len(part)}
    PROVE  SpaceOf(part) = SpaceIn(list, S)
<1>. DEFINE P == 1 .. Len(part)
            D == {k \in P : Size(part[k]) # 1}
            E == S \cap Large(list)
            g == [k \in D |-> f[k]]
<1>1. Len(part) \in Nat /\ DOMAIN part = P /\ DOMAIN list = 1 .. Len(list)
  BY LenProperties
<1>2. /\ f \in [P -> 1 .. Len(list)]
      /\ \A j, k \in P : f[j] = f[k] => j = k
  BY DEF Injection, IsInjective
<1>3. IsFiniteSet(P) /\ Cardinality(P) = Len(part)
  BY <1>1, CountUpto
<1>4. Cardinality(S) = Len(part)
  <2>1. f \in [P -> S]
    BY <1>2
  <2>2. f \in Bijection(P, S)
    BY <1>2, <2>1 DEF Bijection, Injection, Surjection, IsInjective
  <2>. HIDE DEF P
  <2>. QED
    BY <1>3, <2>2, FS_Bijection DEF ExistsBijection
<1>5. Cardinality(E) = Cardinality(D)
  <2>1. IsFiniteSet(D)
    <3>1. D \in SUBSET P
      OBVIOUS
    <3>. HIDE DEF D, P
    <3>. QED
      BY <1>3, <3>1, FS_Subset
  <2>2. g \in Bijection(D, E)
    <3>1. \A k \in D : f[k] \in E
      BY <1>1, <1>2 DEF Large
    <3>2. \A e \in E : \E k \in D : f[k] = e
      BY <1>1, <1>2 DEF Large
    <3>3. \A j, k \in D : g[j] = g[k] => j = k
      BY <1>2
    <3>. HIDE DEF D, E
    <3>. QED
      BY <3>1, <3>2, <3>3 DEF Bijection, Injection, Surjection, IsInjective
  <2>. HIDE DEF D, E, g
  <2>. QED
    BY <2>1, <2>2, FS_Bijection DEF ExistsBijection
<1>. QED
  BY <1>1, <1>4, <1>5 DEF SpaceOf, SpaceIn

(* Joined lists take the space of both.                                     *)
LEMMA SpaceConcat ==
    ASSUME NEW s \in Seq(Nat), NEW t \in Seq(Nat)
    PROVE  SpaceOf(s \o t) = SpaceOf(s) + SpaceOf(t)
<1>. DEFINE list == s \o t
            m == Len(s)
            n == Len(t)
            f == [k \in 1 .. m |-> k]
            g == [k \in 1 .. n |-> m + k]
            S == {f[k] : k \in 1 .. m}
            T == {g[k] : k \in 1 .. n}
<1>1. m \in Nat /\ n \in Nat
  BY LenProperties
<1>2. /\ list \in Seq(Nat) /\ Len(list) = m + n
      /\ \A i \in 1 .. m + n : list[i] = IF i <= m THEN s[i] ELSE t[i - m]
  BY ConcatProperties
<1>. HIDE DEF list, m, n
<1>3. f \in Injection(1 .. m, 1 .. Len(list)) /\ g \in Injection(1 .. n, 1 .. Len(list))
  BY <1>1, <1>2 DEF Injection, IsInjective
<1>4. /\ \A k \in 1 .. m : s[k] = list[f[k]]
      /\ \A k \in 1 .. n : t[k] = list[g[k]]
  BY <1>1, <1>2
<1>5. /\ S \in SUBSET (1 .. Len(list)) /\ T \in SUBSET (1 .. Len(list))
      /\ S \cap T = {}
  BY <1>1, <1>2
<1>6. S \cup T = 1 .. Len(list)
  <2>1. ASSUME NEW i \in 1 .. Len(list) PROVE i \in S \/ i \in T
    <3>1. CASE i <= m
      <4>1. i \in 1 .. m /\ f[i] = i
        BY <1>1, <1>2, <3>1
      <4>. QED
        BY <4>1
    <3>2. CASE i > m
      <4>1. i - m \in 1 .. n /\ g[i - m] = i
        BY <1>1, <1>2, <3>2
      <4>. QED
        BY <4>1
    <3>. QED
      BY <1>1, <1>2, <3>1, <3>2
  <2>. QED
    BY <1>5, <2>1
<1>7. SpaceOf(s) = SpaceIn(list, S)
  <2>1. PICK h, R : h = f /\ R = S
    OBVIOUS
  <2>2. /\ s \in Seq(Nat) /\ list \in Seq(Nat)
        /\ h \in Injection(1 .. Len(s), 1 .. Len(list))
        /\ \A k \in 1 .. Len(s) : s[k] = list[h[k]]
        /\ R = {h[k] : k \in 1 .. Len(s)}
    BY <1>2, <1>3, <1>4, <2>1 DEF m
  <2>3. SpaceOf(s) = SpaceIn(list, R)
    BY ONLY <2>2, SpaceImage
  <2>. QED
    BY <2>1, <2>3
<1>8. SpaceOf(t) = SpaceIn(list, T)
  <2>1. PICK h, R : h = g /\ R = T
    OBVIOUS
  <2>2. /\ t \in Seq(Nat) /\ list \in Seq(Nat)
        /\ h \in Injection(1 .. Len(t), 1 .. Len(list))
        /\ \A k \in 1 .. Len(t) : t[k] = list[h[k]]
        /\ R = {h[k] : k \in 1 .. Len(t)}
    BY <1>2, <1>3, <1>4, <2>1 DEF n
  <2>3. SpaceOf(t) = SpaceIn(list, R)
    BY ONLY <2>2, SpaceImage
  <2>. QED
    BY <2>1, <2>3
<1>9. SpaceOf(list) = SpaceIn(list, S \cup T)
  <2>. HIDE DEF S, T
  <2>. QED
    BY <1>2, <1>5, <1>6, SpaceFacts
<1>. HIDE DEF S, T
<1>10. SpaceIn(list, S \cup T) = SpaceIn(list, S) + SpaceIn(list, T)
  BY <1>2, <1>5, SpaceAdds
<1>. QED
  BY <1>7, <1>8, <1>9, <1>10 DEF list

(* One packet takes its size.                                               *)
LEMMA SpaceOne ==
    ASSUME NEW p \in Nat
    PROVE  SpaceOf(<<p>>) = Size(p) /\ Size(p) \in Nat \ {0}
<1>. DEFINE L == {k \in DOMAIN <<p>> : Size(<<p>>[k]) # 1}
<1>1. Len(<<p>>) = 1 /\ DOMAIN <<p>> = {1} /\ <<p>>[1] = p
  OBVIOUS
<1>2. Fragments \in Nat /\ Fragments > 1
  BY UnreliableAssumption
<1>3. CASE packets[p].kind = "fragments"
  <2>1. Size(p) = Fragments /\ Fragments # 1
    BY <1>2, <1>3 DEF Size
  <2>2. L = {1}
    BY <1>1, <2>1
  <2>3. Cardinality(L) = 1
    BY <2>2, FS_Singleton
  <2>. QED
    BY <1>1, <1>2, <2>1, <2>3 DEF SpaceOf
<1>4. CASE packets[p].kind # "fragments"
  <2>1. Size(p) = 1
    BY <1>4 DEF Size
  <2>2. L = {}
    BY <1>1, <2>1
  <2>3. Cardinality(L) = 0
    BY <2>2, FS_EmptySet
  <2>. QED
    BY <1>1, <1>2, <2>1, <2>3 DEF SpaceOf
<1>. QED
  BY <1>3, <1>4

-----------------------------------------------------------------------------
(* The pass of enet_peer_dispatch_incoming_unreliable_commands.             *)

AllKinds == {"reliable", "unreliable", "fragments", "unsequenced"}

PacketRecords ==
    [kind : AllKinds, reliable : Nat, unreliable : Nat, group : Nat]

EntryRecords ==
    [kind : AllKinds, reliable : Nat, unreliable : Nat,
     missing : SUBSET Nat, packet : Nat, from : SUBSET Nat]

ChannelRecords ==
    [incomingReliableSequenceNumber : Nat, incomingUnreliableSequenceNumber : Nat,
     reliable : SUBSET Nat, unreliable : Seq(EntryRecords),
     dispatched : Seq(Nat), totalWaitingData : Nat]

(* Where the pass ends, what it dispatches, up to where it drops, what it   *)
(* drops, and what stays.                                                   *)
EndOfPass(ch) ==
    LET future == SelectInSeq(ch.unreliable, LAMBDA e : IsFuture(ch, e))
    IN  IF future = 0 THEN Len(ch.unreliable) ELSE future - 1

Present(ch) == {k \in 1 .. EndOfPass(ch) : IsPresent(ch, ch.unreliable[k])}

Ready(ch) == {k \in Present(ch) : ch.unreliable[k].missing = {}}

Partial(ch) == Present(ch) \ Ready(ch)

Limit(ch) ==
    CASE EndOfPass(ch) \in Partial(ch) /\ EndOfPass(ch) - 1 \in Partial(ch)
            -> EndOfPass(ch) - 1
      [] EndOfPass(ch) \in Partial(ch) /\ EndOfPass(ch) - 1 \notin Partial(ch)
            -> EndOfPass(ch)
      [] OTHER -> EndOfPass(ch) + 1

Dropped(ch, keep) ==
    {k \in 1 .. Limit(ch) - 1 : k \notin Ready(ch) /\ ch.unreliable[k].packet # keep}

Kept(ch, keep) == (1 .. Len(ch.unreliable)) \ (Ready(ch) \cup Dropped(ch, keep))

ReadySequenced(ch) == {k \in Ready(ch) : ~ IsUnsequenced(ch.unreliable[k])}

(* The pass ends at the end of the list or before the first entry that      *)
(* waits for a reliable packet.                                             *)
LEMMA PassFacts ==
    ASSUME NEW ch \in ChannelRecords
    PROVE  /\ Len(ch.unreliable) \in Nat
           /\ DOMAIN ch.unreliable = 1 .. Len(ch.unreliable)
           /\ EndOfPass(ch) \in 0 .. Len(ch.unreliable)
           /\ \A k \in 1 .. EndOfPass(ch) : ~ IsFuture(ch, ch.unreliable[k])
           /\ EndOfPass(ch) # Len(ch.unreliable)
                 => IsFuture(ch, ch.unreliable[EndOfPass(ch) + 1])
           /\ Limit(ch) \in 0 .. EndOfPass(ch) + 1
           /\ Present(ch) \in SUBSET (1 .. Len(ch.unreliable))
           /\ Ready(ch) \in SUBSET (1 .. Len(ch.unreliable))
           /\ \A keep : /\ Dropped(ch, keep) \in SUBSET (1 .. Len(ch.unreliable))
                        /\ Dropped(ch, keep) \cap Ready(ch) = {}
<1>. DEFINE list == ch.unreliable
            I == {i \in 1 .. Len(list) : IsFuture(ch, list[i])}
            future == SelectInSeq(list, LAMBDA e : IsFuture(ch, e))
            last == EndOfPass(ch)
<1>1. list \in Seq(EntryRecords)
  BY DEF ChannelRecords
<1>2. Len(list) \in Nat /\ DOMAIN list = 1 .. Len(list)
  BY <1>1, LenProperties
<1>3. future = IF I # {} THEN Min(I) ELSE 0
  BY DEF SelectInSeq
<1>4. last = IF future = 0 THEN Len(list) ELSE future - 1
  BY DEF EndOfPass
<1>5. /\ last \in 0 .. Len(list)
      /\ \A k \in 1 .. last : ~ IsFuture(ch, list[k])
      /\ last # Len(list) => IsFuture(ch, list[last + 1])
  <2>1. CASE I = {}
    <3>1. last = Len(list)
      BY <1>3, <1>4, <2>1
    <3>2. \A k \in 1 .. Len(list) : ~ IsFuture(ch, list[k])
      BY <2>1
    <3>. HIDE DEF last, list
    <3>. QED
      BY <1>2, <3>1, <3>2
  <2>2. CASE I # {}
    <3>1. \E m \in I : \A x \in I : m <= x
      <4>1. I \subseteq Nat
        BY <1>2
      <4>. HIDE DEF I
      <4>. QED
        BY <2>2, <4>1, LeastNumber
    <3>2. Min(I) \in I /\ \A x \in I : Min(I) <= x
      <4>. HIDE DEF I
      <4>. QED
        BY <3>1 DEF Min
    <3>. DEFINE m == Min(I)
    <3>3. m \in 1 .. Len(list) /\ IsFuture(ch, list[m])
          /\ \A k \in 1 .. Len(list) : IsFuture(ch, list[k]) => m <= k
      BY <3>2
    <3>4. future = m
      BY <1>3, <2>2
    <3>. HIDE DEF m, future, list
    <3>5. last = m - 1
      BY <1>2, <1>4, <3>3, <3>4
    <3>. HIDE DEF last
    <3>. QED
      BY <1>2, <3>3, <3>5
  <2>. QED
    BY <2>1, <2>2
<1>. HIDE DEF last, list, I, future
<1>6. last \in 0 .. Len(list)
  BY ONLY <1>5, Zenon
<1>7. Len(list) \in Nat /\ last \in Nat /\ last <= Len(list)
  BY ONLY <1>2, <1>6
<1>8. Present(ch) \in SUBSET (1 .. Len(list)) /\ Ready(ch) \in SUBSET (1 .. Len(list))
  <2>1. 1 .. last \in SUBSET (1 .. Len(list))
    BY <1>7
  <2>. QED
    BY <2>1 DEF Present, Ready, last
<1>9. Limit(ch) \in 0 .. last + 1
  <2>1. last \in Nat
    BY <1>7
  <2>2. last \in Partial(ch) => last # 0
    BY <2>1 DEF Partial, Present, last
  <2>3. Limit(ch) = CASE last \in Partial(ch) /\ last - 1 \in Partial(ch) -> last - 1
                      [] last \in Partial(ch) /\ last - 1 \notin Partial(ch) -> last
                      [] OTHER -> last + 1
    BY DEF Limit, last
  <2>4. \/ Limit(ch) = last - 1 /\ last # 0
        \/ Limit(ch) = last
        \/ Limit(ch) = last + 1
    BY <2>2, <2>3
  <2>. QED
    BY <2>1, <2>4
<1>10. ASSUME NEW keep
      PROVE  /\ Dropped(ch, keep) \in SUBSET (1 .. Len(list))
             /\ Dropped(ch, keep) \cap Ready(ch) = {}
  <2>1. 1 .. Limit(ch) - 1 \in SUBSET (1 .. Len(list))
    BY <1>7, <1>9
  <2>. QED
    BY <2>1 DEF Dropped
<1>. QED
  BY <1>2, <1>5, <1>8, <1>9, <1>10 DEF last, list

(* What the pass does to each part of the channel.                          *)
LEMMA DispatchFields ==
    ASSUME NEW ch \in ChannelRecords, NEW keep,
           NEW d, d = DispatchUnreliable(ch, keep)
    PROVE  /\ d.incomingReliableSequenceNumber = ch.incomingReliableSequenceNumber
           /\ d.incomingUnreliableSequenceNumber =
                 IF ReadySequenced(ch) = {} THEN ch.incomingUnreliableSequenceNumber
                 ELSE ch.unreliable[Max(ReadySequenced(ch))].unreliable
           /\ d.reliable = ch.reliable
           /\ d.unreliable = Pick(ch.unreliable, Kept(ch, keep))
           /\ d.dispatched = ch.dispatched \o PacketsOf(Pick(ch.unreliable, Ready(ch)))
           /\ d.totalWaitingData =
                 WithoutDropped(ch.totalWaitingData, Pick(ch.unreliable, Dropped(ch, keep)))
           /\ /\ d.incomingUnreliableSequenceNumber \in Nat
              /\ d.unreliable \in Seq(EntryRecords)
              /\ d.dispatched \in Seq(Nat)
              /\ d.totalWaitingData \in Nat
              => d \in ChannelRecords
<1>. DEFINE kept == Kept(ch, keep)
            newList == Pick(ch.unreliable, kept)
            newDispatched == ch.dispatched \o PacketsOf(Pick(ch.unreliable, Ready(ch)))
            newUnreliable ==
                 IF ReadySequenced(ch) = {} THEN ch.incomingUnreliableSequenceNumber
                 ELSE ch.unreliable[Max(ReadySequenced(ch))].unreliable
            newWaiting ==
                 WithoutDropped(ch.totalWaitingData, Pick(ch.unreliable, Dropped(ch, keep)))
<1>1. DOMAIN ch.unreliable = 1 .. Len(ch.unreliable)
  BY PassFacts
<1>2. d = [ch EXCEPT !.unreliable = newList,
                     !.dispatched = newDispatched,
                     !.incomingUnreliableSequenceNumber = newUnreliable,
                     !.totalWaitingData = newWaiting]
  BY <1>1 DEF DispatchUnreliable, EndOfPass, Present, Ready, Partial, Limit, Dropped,
              Kept, ReadySequenced
<1>. HIDE DEF newList, newDispatched, newUnreliable, newWaiting
<1>3. /\ d.incomingReliableSequenceNumber = ch.incomingReliableSequenceNumber
      /\ d.incomingUnreliableSequenceNumber = newUnreliable
      /\ d.reliable = ch.reliable
      /\ d.unreliable = newList
      /\ d.dispatched = newDispatched
      /\ d.totalWaitingData = newWaiting
  BY <1>2 DEF ChannelRecords
<1>4. d = [ch EXCEPT !.unreliable = d.unreliable,
                     !.dispatched = d.dispatched,
                     !.incomingUnreliableSequenceNumber =
                          d.incomingUnreliableSequenceNumber,
                     !.totalWaitingData = d.totalWaitingData]
  BY <1>2, <1>3
<1>5. ASSUME /\ d.incomingUnreliableSequenceNumber \in Nat
             /\ d.unreliable \in Seq(EntryRecords)
             /\ d.dispatched \in Seq(Nat)
             /\ d.totalWaitingData \in Nat
      PROVE  d \in ChannelRecords
  BY <1>4, <1>5 DEF ChannelRecords
<1>. QED
  BY <1>3, <1>5 DEF newList, newDispatched, newUnreliable, newWaiting

(* The lesser of two numbers.                                               *)
LEMMA MinOfTwo ==
    ASSUME NEW a \in Nat, NEW b \in Nat
    PROVE  Min({a, b}) = IF a <= b THEN a ELSE b
BY DEF Min

(* The greatest of some positions is one of them.                           *)
LEMMA MaxOfSome ==
    ASSUME NEW n \in Nat, NEW S \in SUBSET (1 .. n), S # {}
    PROVE  Max(S) \in S /\ \A x \in S : x <= Max(S)
<1>1. S \subseteq Nat /\ \A x \in S : x <= n
  OBVIOUS
<1>2. \E m \in S : \A x \in S : x <= m
  BY <1>1, GreatestNumber
<1>3. \E m \in S : \A x \in S : m >= x
  BY <1>1, <1>2
<1>4. Max(S) \in S /\ \A x \in S : Max(S) >= x
  BY <1>3 DEF Max
<1>. QED
  BY <1>1, <1>4

(* The packets of the entries, one for each.                                *)
LEMMA PacketsFacts ==
    ASSUME NEW list \in Seq(EntryRecords)
    PROVE  /\ PacketsOf(list) \in Seq(Nat)
           /\ Len(PacketsOf(list)) = Len(list)
           /\ \A k \in 1 .. Len(list) : PacketsOf(list)[k] = list[k].packet
<1>1. Len(list) \in Nat /\ DOMAIN list = 1 .. Len(list)
  BY LenProperties
<1>2. \A k \in 1 .. Len(list) : list[k].packet \in Nat
  <2>1. \A k \in 1 .. Len(list) : list[k] \in EntryRecords
    BY ElementOfSeq
  <2>. QED
    BY <2>1 DEF EntryRecords
<1>. DEFINE n == Len(list)
<1>3. PacketsOf(list) = [k \in 1 .. n |-> list[k].packet]
  BY <1>1 DEF PacketsOf
<1>. HIDE DEF n
<1>4. n \in Nat /\ \A k \in 1 .. n : list[k].packet \in Nat
  BY <1>1, <1>2 DEF n
<1>5. PacketsOf(list) \in Seq(Nat) /\ Len(PacketsOf(list)) = n
  BY <1>3, <1>4
<1>6. \A k \in 1 .. n : PacketsOf(list)[k] = list[k].packet
  BY <1>3
<1>. QED
  BY <1>5, <1>6 DEF n

(* Some of the entries take the space of their positions.                   *)
LEMMA SpacePicked ==
    ASSUME NEW list \in Seq(EntryRecords), NEW S \in SUBSET (1 .. Len(list))
    PROVE  /\ Pick(list, S) \in Seq(EntryRecords)
           /\ PacketsOf(Pick(list, S)) \in Seq(Nat)
           /\ SpaceOf(PacketsOf(Pick(list, S))) = SpaceIn(PacketsOf(list), S)
           /\ SpaceOf(PacketsOf(Pick(list, S))) \in Nat
<1>. DEFINE all == PacketsOf(list)
            picked == Pick(list, S)
            part == PacketsOf(picked)
            n == Cardinality(S)
            f == Ascending(S)
<1>1. /\ n \in Nat
      /\ picked \in Seq(EntryRecords) /\ Len(picked) = n
      /\ \A j \in 1 .. n : f[j] \in S /\ picked[j] = list[f[j]]
      /\ \A j, k \in 1 .. n : j < k => f[j] < f[k]
      /\ \A s \in S : \E j \in 1 .. n : f[j] = s
  BY PickFacts
<1>2. S \subseteq Nat /\ IsFiniteSet(S)
  BY PickFacts
<1>3. f \in [1 .. n -> S]
  BY <1>2, AscendingFacts
<1>4. /\ all \in Seq(Nat) /\ Len(all) = Len(list)
      /\ \A k \in 1 .. Len(list) : all[k] = list[k].packet
  <2>1. list \in Seq(EntryRecords)
    OBVIOUS
  <2>. QED
    BY ONLY <2>1, PacketsFacts
<1>5. /\ part \in Seq(Nat) /\ Len(part) = n
      /\ \A k \in 1 .. n : part[k] = picked[k].packet
  <2>1. PICK s : s = picked
    OBVIOUS
  <2>2. s \in Seq(EntryRecords)
    BY <1>1, <2>1
  <2>3. /\ PacketsOf(s) \in Seq(Nat) /\ Len(PacketsOf(s)) = Len(s)
        /\ \A k \in 1 .. Len(s) : PacketsOf(s)[k] = s[k].packet
    BY ONLY <2>2, PacketsFacts
  <2>. HIDE DEF picked, n
  <2>. QED
    BY <1>1, <2>1, <2>3
<1>. HIDE DEF all, picked, part, n, f
<1>6. ASSUME NEW k \in 1 .. n PROVE part[k] = all[f[k]]
  <2>1. PICK i : i = f[k]
    OBVIOUS
  <2>2. i \in 1 .. Len(list) /\ picked[k] = list[i]
    BY <1>1, <2>1
  <2>3. part[k] = list[i].packet /\ all[i] = list[i].packet
    BY <1>4, <1>5, <2>2
  <2>. QED
    BY <2>1, <2>3
<1>7. f \in Injection(1 .. n, 1 .. Len(all))
  <2>1. \A j, k \in 1 .. n : f[j] = f[k] => j = k
    <3>. SUFFICES ASSUME NEW j \in 1 .. n, NEW k \in 1 .. n, f[j] = f[k], j # k
                  PROVE  FALSE
      OBVIOUS
    <3>1. j < k \/ k < j
      BY <1>1
    <3>2. f[j] \in Nat /\ f[k] \in Nat
      BY <1>2, <1>3
    <3>3. f[j] < f[k] \/ f[k] < f[j]
      BY <1>1, <3>1
    <3>. QED
      BY <3>2, <3>3
  <2>2. f \in [1 .. n -> 1 .. Len(all)]
    BY <1>3, <1>4
  <2>. QED
    BY <2>1, <2>2 DEF Injection, IsInjective
<1>8. S = {f[k] : k \in 1 .. n}
  BY <1>1
<1>9. SpaceOf(part) = SpaceIn(all, S)
  BY <1>4, <1>5, <1>6, <1>7, <1>8, SpaceImage
<1>10. SpaceOf(part) \in Nat
  BY <1>4, <1>9, SpaceFacts
<1>. QED
  BY <1>1, <1>5, <1>9, <1>10 DEF all, picked, part

(* The pass leaves everything of its type.                                  *)
LEMMA DispatchTypes ==
    ASSUME NEW ch \in ChannelRecords, NEW keep
    PROVE  DispatchUnreliable(ch, keep) \in ChannelRecords
<1>. DEFINE list == ch.unreliable
<1>1. PICK d : d = DispatchUnreliable(ch, keep)
  OBVIOUS
<1>2. /\ d.incomingReliableSequenceNumber = ch.incomingReliableSequenceNumber
      /\ d.incomingUnreliableSequenceNumber =
            IF ReadySequenced(ch) = {} THEN ch.incomingUnreliableSequenceNumber
            ELSE list[Max(ReadySequenced(ch))].unreliable
      /\ d.reliable = ch.reliable
      /\ d.unreliable = Pick(list, Kept(ch, keep))
      /\ d.dispatched = ch.dispatched \o PacketsOf(Pick(list, Ready(ch)))
      /\ d.totalWaitingData =
            WithoutDropped(ch.totalWaitingData, Pick(list, Dropped(ch, keep)))
  BY <1>1, DispatchFields
<1>3. /\ list \in Seq(EntryRecords) /\ Len(list) \in Nat
      /\ Ready(ch) \in SUBSET (1 .. Len(list))
      /\ Dropped(ch, keep) \in SUBSET (1 .. Len(list))
      /\ Kept(ch, keep) \in SUBSET (1 .. Len(list))
      /\ ReadySequenced(ch) \in SUBSET (1 .. Len(list))
  BY PassFacts DEF ChannelRecords, Kept, ReadySequenced
<1>4. d.incomingUnreliableSequenceNumber \in Nat
  <2>1. CASE ReadySequenced(ch) = {}
    BY <1>2, <2>1 DEF ChannelRecords
  <2>2. CASE ReadySequenced(ch) # {}
    <3>1. Max(ReadySequenced(ch)) \in 1 .. Len(list)
      BY <1>3, <2>2, MaxOfSome
    <3>2. list[Max(ReadySequenced(ch))] \in EntryRecords
      BY <1>3, <3>1, ElementOfSeq
    <3>. QED
      BY <1>2, <2>2, <3>2 DEF EntryRecords
  <2>. QED
    BY <2>1, <2>2
<1>5. d.unreliable \in Seq(EntryRecords)
  BY <1>2, <1>3, SpacePicked
<1>6. d.dispatched \in Seq(Nat)
  <2>1. ch.dispatched \in Seq(Nat)
    BY DEF ChannelRecords
  <2>2. PacketsOf(Pick(list, Ready(ch))) \in Seq(Nat)
    BY <1>3, SpacePicked
  <2>. QED
    BY <1>2, <2>1, <2>2, ConcatProperties
<1>7. d.totalWaitingData \in Nat
  <2>. DEFINE w == ch.totalWaitingData
              s == SpaceOf(PacketsOf(Pick(list, Dropped(ch, keep))))
  <2>1. w \in Nat
    BY DEF ChannelRecords
  <2>2. s \in Nat
    BY <1>3, SpacePicked
  <2>3. d.totalWaitingData = w - Min({w, s})
    BY <1>2 DEF WithoutDropped
  <2>. HIDE DEF w, s
  <2>. QED
    BY <2>1, <2>2, <2>3, MinOfTwo
<1>. QED
  BY <1>1, <1>4, <1>5, <1>6, <1>7, DispatchFields

-----------------------------------------------------------------------------
(* The count of waiting data.                                               *)

Waits(ch) ==
    ch.totalWaitingData =
        SpaceOf(PacketsOf(ch.unreliable)) + Cardinality(ch.reliable)
            + SpaceOf(ch.dispatched)

(* The space of an entry is added wherever it is put in.                    *)
LEMMA SpaceInserted ==
    ASSUME NEW list \in Seq(EntryRecords), NEW t \in 0 .. Len(list),
           NEW e \in EntryRecords
    PROVE  /\ InsertAt(list, t + 1, e) \in Seq(EntryRecords)
           /\ SpaceOf(PacketsOf(InsertAt(list, t + 1, e))) =
                 SpaceOf(PacketsOf(list)) + Size(e.packet)
<1>. DEFINE n == Len(list)
            more == InsertAt(list, t + 1, e)
            all == PacketsOf(more)
            old == PacketsOf(list)
            new == <<e.packet>>
            f == [k \in 1 .. n |-> IF k <= t THEN k ELSE k + 1]
            g == [k \in 1 .. 1 |-> t + 1]
            S == {f[k] : k \in 1 .. n}
            T == {t + 1}
<1>1. n \in Nat /\ t \in 0 .. n
  BY LenProperties
<1>2. /\ more \in Seq(EntryRecords) /\ Len(more) = n + 1
      /\ \A k \in 1 .. n + 1 :
            more[k] = IF k <= t THEN list[k] ELSE IF k = t + 1 THEN e ELSE list[k - 1]
  <2>1. PICK R : R = EntryRecords
    OBVIOUS
  <2>2. list \in Seq(R) /\ t \in 0 .. Len(list) /\ e \in R
    BY <2>1
  <2>3. /\ more \in Seq(R) /\ Len(more) = Len(list) + 1
        /\ \A k \in 1 .. Len(list) + 1 :
              more[k] = IF k <= t THEN list[k] ELSE IF k = t + 1 THEN e ELSE list[k - 1]
    BY ONLY <2>2, Inserted
  <2>. QED
    BY ONLY <2>1, <2>3
<1>3. /\ old \in Seq(Nat) /\ Len(old) = n
      /\ \A k \in 1 .. n : old[k] = list[k].packet
  <2>1. list \in Seq(EntryRecords)
    OBVIOUS
  <2>. QED
    BY ONLY <2>1, PacketsFacts
<1>. HIDE DEF more, old, n
<1>4. /\ all \in Seq(Nat) /\ Len(all) = n + 1
      /\ \A k \in 1 .. n + 1 : all[k] = more[k].packet
  <2>1. /\ PacketsOf(more) \in Seq(Nat)
        /\ Len(PacketsOf(more)) = Len(more)
        /\ \A k \in 1 .. Len(more) : PacketsOf(more)[k] = more[k].packet
    BY <1>2, PacketsFacts
  <2>. QED
    BY <1>2, <2>1
<1>5. e.packet \in Nat /\ new \in Seq(Nat) /\ Len(new) = 1 /\ new[1] = e.packet
  <2>1. e.packet \in Nat
    BY DEF EntryRecords
  <2>. DEFINE p == e.packet
  <2>. HIDE DEF p
  <2>2. <<p>> \in Seq(Nat) /\ Len(<<p>>) = 1 /\ <<p>>[1] = p
    BY <2>1 DEF p
  <2>. QED
    BY <2>1, <2>2 DEF p
<1>. HIDE DEF all, new
<1>6. /\ \A k \in 1 .. n : f[k] \in 1 .. n + 1 /\ f[k] # t + 1
      /\ \A j, k \in 1 .. n : f[j] = f[k] => j = k
  BY <1>1
<1>7. \A k \in 1 .. n : old[k] = all[f[k]]
  <2>. SUFFICES ASSUME NEW k \in 1 .. n PROVE old[k] = all[f[k]]
    OBVIOUS
  <2>1. CASE k <= t
    <3>1. f[k] = k /\ k \in 1 .. n + 1
      BY <1>1, <2>1
    <3>2. more[k] = list[k]
      BY <1>2, <2>1, <3>1
    <3>. QED
      BY <1>3, <1>4, <3>1, <3>2
  <2>2. CASE k > t
    <3>1. f[k] = k + 1 /\ k + 1 \in 1 .. n + 1 /\ ~ (k + 1 <= t) /\ k + 1 # t + 1
          /\ (k + 1) - 1 = k
      BY <1>1, <2>2
    <3>2. more[k + 1] = list[k]
      BY <1>2, <3>1
    <3>. QED
      BY <1>3, <1>4, <3>1, <3>2
  <2>. QED
    BY <1>1, <2>1, <2>2
<1>8. new[1] = all[t + 1]
  <2>1. t + 1 \in 1 .. n + 1 /\ ~ (t + 1 <= t)
    BY <1>1
  <2>. QED
    BY <1>2, <1>4, <1>5, <2>1
<1>9. S \cup T = 1 .. n + 1
  <2>1. ASSUME NEW i \in 1 .. n + 1, i # t + 1 PROVE \E k \in 1 .. n : f[k] = i
    <3>1. CASE i <= t
      <4>1. i \in 1 .. n /\ f[i] = i
        BY <1>1, <3>1
      <4>. QED
        BY <4>1
    <3>2. CASE i > t
      <4>1. i - 1 \in 1 .. n /\ f[i - 1] = i
        BY <1>1, <2>1, <3>2
      <4>. QED
        BY <4>1
    <3>. QED
      BY <1>1, <3>1, <3>2
  <2>2. t + 1 \in 1 .. n + 1
    BY <1>1
  <2>. QED
    BY <1>6, <2>1, <2>2
<1>10. S \in SUBSET (1 .. Len(all)) /\ T \in SUBSET (1 .. Len(all)) /\ S \cap T = {}
  <2>1. t + 1 \in 1 .. n + 1
    BY <1>1
  <2>. QED
    BY <1>4, <1>6, <2>1
<1>11. SpaceOf(old) = SpaceIn(all, S)
  <2>1. f \in Injection(1 .. Len(old), 1 .. Len(all))
    <3>1. f \in [1 .. n -> 1 .. n + 1]
      BY <1>1
    <3>. HIDE DEF f
    <3>. QED
      BY <1>3, <1>4, <1>6, <3>1 DEF Injection, IsInjective
  <2>2. S = {f[k] : k \in 1 .. Len(old)}
    BY <1>3
  <2>3. \A k \in 1 .. Len(old) : old[k] = all[f[k]]
    BY <1>3, <1>7
  <2>. HIDE DEF f, S
  <2>. QED
    BY <1>3, <1>4, <2>1, <2>2, <2>3, SpaceImage
<1>12. SpaceOf(new) = SpaceIn(all, T)
  <2>1. g \in Injection(1 .. Len(new), 1 .. Len(all))
    <3>1. t + 1 \in 1 .. Len(all)
      BY <1>10
    <3>2. g \in [1 .. 1 -> 1 .. Len(all)]
      BY <3>1
    <3>3. \A j, k \in 1 .. 1 : g[j] = g[k] => j = k
      OBVIOUS
    <3>. HIDE DEF g
    <3>. QED
      BY <1>5, <3>2, <3>3 DEF Injection, IsInjective
  <2>2. T = {g[k] : k \in 1 .. Len(new)}
    <3>1. \A k \in 1 .. 1 : g[k] = t + 1
      OBVIOUS
    <3>2. 1 \in 1 .. 1
      OBVIOUS
    <3>. HIDE DEF g
    <3>. QED
      BY <1>5, <3>1, <3>2
  <2>3. \A k \in 1 .. Len(new) : new[k] = all[g[k]]
    <3>1. \A k \in 1 .. 1 : k = 1 /\ g[k] = t + 1
      OBVIOUS
    <3>. HIDE DEF g
    <3>. QED
      BY <1>5, <1>8, <3>1
  <2>. HIDE DEF g, T
  <2>4. /\ all \in Seq(Nat) /\ new \in Seq(Nat)
    BY <1>4, <1>5
  <2>. QED
    BY ONLY <2>1, <2>2, <2>3, <2>4, SpaceImage
<1>. HIDE DEF S, T, f
<1>13. SpaceOf(all) = SpaceIn(all, S \cup T)
  BY <1>4, <1>9, <1>10, SpaceFacts
<1>14. SpaceIn(all, S \cup T) = SpaceIn(all, S) + SpaceIn(all, T)
  BY <1>4, <1>10, SpaceAdds
<1>15. SpaceOf(new) = Size(e.packet)
  BY <1>5, SpaceOne DEF new
<1>. QED
  BY <1>2, <1>11, <1>12, <1>13, <1>14, <1>15 DEF all, old, more

(* The pass gives back the space of what it drops, and no other.            *)
LEMMA DispatchWaits ==
    ASSUME NEW ch \in ChannelRecords, NEW keep, IsFiniteSet(ch.reliable), Waits(ch)
    PROVE  Waits(DispatchUnreliable(ch, keep))
<1>. DEFINE list == ch.unreliable
            all == PacketsOf(list)
            kept == Kept(ch, keep)
            ready == Ready(ch)
            dropped == Dropped(ch, keep)
            w == ch.totalWaitingData
            c == Cardinality(ch.reliable)
            s == SpaceOf(ch.dispatched)
            new == PacketsOf(Pick(list, ready))
<1>1. PICK d : d = DispatchUnreliable(ch, keep)
  OBVIOUS
<1>2. /\ d.reliable = ch.reliable
      /\ d.unreliable = Pick(list, kept)
      /\ d.dispatched = ch.dispatched \o new
      /\ d.totalWaitingData = WithoutDropped(w, Pick(list, dropped))
  BY <1>1, DispatchFields
<1>3. list \in Seq(EntryRecords) /\ w \in Nat /\ ch.dispatched \in Seq(Nat)
  BY DEF ChannelRecords
<1>4. /\ kept \in SUBSET (1 .. Len(list)) /\ ready \in SUBSET (1 .. Len(list))
      /\ dropped \in SUBSET (1 .. Len(list)) /\ ready \cap dropped = {}
      /\ kept \cap (ready \cup dropped) = {}
      /\ kept \cup (ready \cup dropped) = 1 .. Len(list)
  BY PassFacts DEF Kept
<1>5. all \in Seq(Nat) /\ Len(all) = Len(list)
  BY <1>3, PacketsFacts
<1>6. c \in Nat
  BY FS_CardinalityType
<1>7. s \in Nat
  BY <1>3, SpaceFacts
<1>8. w = SpaceOf(all) + c + s
  BY DEF Waits
<1>. HIDE DEF kept, ready, dropped, w, c, s, list
<1>9. /\ SpaceOf(PacketsOf(Pick(list, kept))) = SpaceIn(all, kept)
      /\ SpaceOf(PacketsOf(Pick(list, dropped))) = SpaceIn(all, dropped)
      /\ new \in Seq(Nat) /\ SpaceOf(new) = SpaceIn(all, ready)
  BY <1>3, <1>4, SpacePicked
<1>10. SpaceIn(all, kept) \in Nat /\ SpaceIn(all, ready) \in Nat /\ SpaceIn(all, dropped) \in Nat
  BY <1>3, <1>4, <1>9, SpacePicked
<1>. HIDE DEF all, new
<1>11. SpaceOf(all) = SpaceIn(all, kept) + (SpaceIn(all, ready) + SpaceIn(all, dropped))
  <2>1. SpaceIn(all, ready \cup dropped) = SpaceIn(all, ready) + SpaceIn(all, dropped)
    BY <1>4, <1>5, SpaceAdds
  <2>. DEFINE T == ready \cup dropped
  <2>2. T \in SUBSET (1 .. Len(all)) /\ kept \in SUBSET (1 .. Len(all))
        /\ kept \cap T = {} /\ kept \cup T = 1 .. Len(all)
    BY <1>4, <1>5
  <2>3. SpaceIn(all, T) = SpaceIn(all, ready) + SpaceIn(all, dropped)
    BY <2>1
  <2>. HIDE DEF T
  <2>4. SpaceIn(all, kept \cup T) = SpaceIn(all, kept) + SpaceIn(all, T)
    BY <1>5, <2>2, SpaceAdds
  <2>5. SpaceOf(all) = SpaceIn(all, 1 .. Len(all))
    BY <1>5, <2>2, SpaceFacts
  <2>. QED
    BY <2>2, <2>3, <2>4, <2>5
<1>12. SpaceOf(d.dispatched) = s + SpaceIn(all, ready)
  BY <1>2, <1>3, <1>9, SpaceConcat DEF s
<1>13. SpaceOf(PacketsOf(d.unreliable)) = SpaceIn(all, kept)
  BY <1>2, <1>9
<1>14. Cardinality(d.reliable) = c
  BY <1>2 DEF c
<1>. DEFINE x == SpaceIn(all, dropped)
            y == SpaceIn(all, ready)
            z == SpaceIn(all, kept)
<1>15. d.totalWaitingData = w - Min({w, x})
  BY <1>2, <1>9 DEF WithoutDropped
<1>16. x \in Nat /\ y \in Nat /\ z \in Nat /\ w = z + (y + x) + c + s
  BY <1>8, <1>10, <1>11
<1>. HIDE DEF x, y, z
<1>17. w \in Nat /\ x <= w
  BY <1>3, <1>6, <1>7, <1>16
<1>18. Min({w, x}) = x
  BY <1>16, <1>17, MinOfTwo
<1>19. d.totalWaitingData = z + c + (s + y)
  BY <1>6, <1>7, <1>15, <1>16, <1>18
<1>20. Waits(d)
  BY <1>12, <1>13, <1>14, <1>19 DEF Waits, y, z
<1>. QED
  BY <1>1, <1>20

-----------------------------------------------------------------------------
(* The invariant.                                                           *)

Window(i) == i \div WindowSize

(* What was sent.  The numbers of the packets that are not unsequenced go   *)
(* up with each packet: the reliable number, or else the unreliable one,    *)
(* which only a reliable packet has as 0.                                   *)
SentRight ==
    /\ packets \in Seq(PacketRecords)
    /\ outgoingReliableSequenceNumber \in Nat
    /\ outgoingUnreliableSequenceNumber \in 0 .. UnreliableLimit
    /\ \A p \in 1 .. Len(packets) :
          /\ packets[p].kind = "unsequenced"
                => packets[p].group \in 1 .. outgoingUnsequencedGroup
          /\ packets[p].kind # "unsequenced" =>
                /\ packets[p].kind = "reliable" <=> packets[p].unreliable = 0
                /\ packets[p].reliable <= outgoingReliableSequenceNumber
                /\ packets[p].reliable = outgoingReliableSequenceNumber
                      => packets[p].unreliable <= outgoingUnreliableSequenceNumber
    /\ \A p, q \in 1 .. Len(packets) :
          /\ p < q
          /\ packets[p].kind # "unsequenced"
          /\ packets[q].kind # "unsequenced"
          => \/ packets[p].reliable < packets[q].reliable
             \/ /\ packets[p].reliable = packets[q].reliable
                /\ packets[p].unreliable < packets[q].unreliable

(* An entry has the numbers of its packet, and fragments of no other.       *)
EntryRight(e) ==
    /\ e.packet \in 1 .. Len(packets)
    /\ e.kind = packets[e.packet].kind
    /\ e.reliable = Wire(packets[e.packet].reliable)
    /\ e.unreliable = packets[e.packet].unreliable
    /\ e.kind # "reliable"
    /\ e.kind = "unsequenced" => e.missing = {}
    /\ e.from \subseteq {e.packet}

(* The packet was not passed by, or only just, and is in the window.        *)
InReach(ch, p) ==
    /\ ch.incomingReliableSequenceNumber
          <= packets[p].reliable + (FreeWindows - 1) * WindowSize
    /\ Window(packets[p].reliable)
          <= Window(ch.incomingReliableSequenceNumber) + FreeWindows - 2
    /\ packets[p].reliable = ch.incomingReliableSequenceNumber
          => packets[p].unreliable > ch.incomingUnreliableSequenceNumber

(* The list before the pass: in order, but for an unsequenced packet at the *)
(* front.                                                                   *)
ListReady(ch, keep) ==
    /\ \A k \in 1 .. Len(ch.unreliable) :
          LET e == ch.unreliable[k]
          IN  /\ EntryRight(e)
              /\ e.kind # "unsequenced" => InReach(ch, e.packet)
              /\ e.packet = keep /\ e.kind # "unsequenced"
                    => packets[e.packet].reliable >= ch.incomingReliableSequenceNumber
              /\ keep # 0 /\ e.missing = {} /\ IsPresent(ch, e) => e.packet = keep
    /\ \A j, k \in 1 .. Len(ch.unreliable) :
          j < k => /\ ch.unreliable[k].kind # "unsequenced"
                   /\ ch.unreliable[j].kind # "unsequenced"
                         => ch.unreliable[j].packet < ch.unreliable[k].packet

(* The list after the pass: nothing was passed by, and nothing is ready.    *)
ListRight(ch) ==
    /\ ListReady(ch, 0)
    /\ \A k \in 1 .. Len(ch.unreliable) :
          LET e == ch.unreliable[k]
          IN  /\ e.kind # "unsequenced"
              /\ packets[e.packet].reliable >= ch.incomingReliableSequenceNumber
              /\ packets[e.packet].reliable = ch.incomingReliableSequenceNumber
                    => e.missing # {}

(* The reliable packets that came early.                                    *)
ReliableRight(ch) ==
    \A p \in ch.reliable :
       /\ p \in 1 .. Len(packets)
       /\ packets[p].kind = "reliable"
       /\ packets[p].reliable > ch.incomingReliableSequenceNumber
       /\ packets[p].reliable
             <= ch.incomingReliableSequenceNumber + (FreeWindows - 1) * WindowSize

(* What was delivered: in order, nothing beyond the present numbers, and    *)
(* every reliable packet up to them.                                        *)
DeliveredAs(ch, list) ==
    /\ list \in Seq(1 .. Len(packets))
    /\ \A k \in 1 .. Len(list) :
          packets[list[k]].kind # "unsequenced" =>
             /\ packets[list[k]].reliable <= ch.incomingReliableSequenceNumber
             /\ packets[list[k]].reliable = ch.incomingReliableSequenceNumber
                   => packets[list[k]].unreliable <= ch.incomingUnreliableSequenceNumber
    /\ \A j, k \in 1 .. Len(list) :
          /\ j < k
          /\ packets[list[j]].kind # "unsequenced"
          /\ packets[list[k]].kind # "unsequenced"
          => list[j] < list[k]
    /\ \A q \in 1 .. Len(packets) :
          /\ packets[q].kind = "reliable"
          /\ packets[q].reliable <= ch.incomingReliableSequenceNumber
          => \E k \in 1 .. Len(list) : list[k] = q

DeliveredRight(ch) == DeliveredAs(ch, received \o ch.dispatched)

(* The receiver is behind the sender, by no more than it may.               *)
Behind(ch) ==
    /\ ch.incomingReliableSequenceNumber <= outgoingReliableSequenceNumber
    /\ outgoingReliableSequenceNumber <= ch.incomingReliableSequenceNumber + Backlog

Good(ch) ==
    /\ ch \in ChannelRecords
    /\ ListRight(ch)
    /\ ReliableRight(ch)
    /\ DeliveredRight(ch)
    /\ Behind(ch)
    /\ Waits(ch)

ReadyFor(ch, keep) ==
    /\ ch \in ChannelRecords
    /\ ListReady(ch, keep)
    /\ ReliableRight(ch)
    /\ DeliveredRight(ch)
    /\ Behind(ch)
    /\ Waits(ch)

ChannelInv ==
    /\ SentRight
    /\ WindowInv
    /\ state \in {"CONNECTED", "DISCONNECT_LATER"}
    /\ received \in Seq(Nat)
    /\ Good(channel)

-----------------------------------------------------------------------------

(* The sizes of the windows.                                                *)
LEMMA Sizes ==
    /\ WindowSize \in Nat \ {0} /\ FreeWindows \in Nat /\ FreeWindows >= 2
    /\ Windows \in Nat /\ Windows = 2 * FreeWindows
    /\ Circle \in Nat \ {0}
    /\ \A i \in Nat : Window(i) \in Nat /\ Wire(i) \in Nat
BY SequenceAssumption, CircleFacts, QuotientType, RemainderType DEF Window, Wire

(* The numbers of packets that are not unsequenced order them.              *)
LEMMA PacketOrder ==
    ASSUME SentRight, NEW p \in 1 .. Len(packets), NEW q \in 1 .. Len(packets),
           packets[p].kind # "unsequenced", packets[q].kind # "unsequenced"
    PROVE  /\ packets[p].reliable \in Nat /\ packets[q].reliable \in Nat
           /\ packets[p].unreliable \in Nat /\ packets[q].unreliable \in Nat
           /\ p < q <=> \/ packets[p].reliable < packets[q].reliable
                        \/ /\ packets[p].reliable = packets[q].reliable
                           /\ packets[p].unreliable < packets[q].unreliable
           /\ p = q <=> /\ packets[p].reliable = packets[q].reliable
                        /\ packets[p].unreliable = packets[q].unreliable
<1>1. packets[p] \in PacketRecords /\ packets[q] \in PacketRecords
  BY ElementOfSeq DEF SentRight
<1>. DEFINE r == packets[p].reliable
            s == packets[q].reliable
            u == packets[p].unreliable
            v == packets[q].unreliable
<1>2. r \in Nat /\ s \in Nat /\ u \in Nat /\ v \in Nat
  BY <1>1 DEF PacketRecords
<1>3. ASSUME NEW i \in 1 .. Len(packets), NEW j \in 1 .. Len(packets), i < j,
             packets[i].kind # "unsequenced", packets[j].kind # "unsequenced"
      PROVE  \/ packets[i].reliable < packets[j].reliable
             \/ /\ packets[i].reliable = packets[j].reliable
                /\ packets[i].unreliable < packets[j].unreliable
  BY <1>3 DEF SentRight
<1>4. p < q => (r < s \/ (r = s /\ u < v))
  BY <1>3
<1>5. q < p => (s < r \/ (s = r /\ v < u))
  BY <1>3
<1>6. p = q => r = s /\ u = v
  OBVIOUS
<1>. HIDE DEF r, s, u, v
<1>7. p \in Nat /\ q \in Nat
  <2>1. Len(packets) \in Nat
    BY LenProperties DEF SentRight
  <2>. QED
    BY <2>1
<1>8. /\ p < q <=> r < s \/ (r = s /\ u < v)
      /\ p = q <=> r = s /\ u = v
  BY <1>2, <1>4, <1>5, <1>6, <1>7
<1>. QED
  BY <1>2, <1>8 DEF r, s, u, v

(* Numbers within reach of the last one in order, seen on the circle.       *)
LEMMA ReachOnCircle ==
    ASSUME NEW inc \in Nat, NEW r \in Nat,
           inc <= r + (FreeWindows - 1) * WindowSize,
           Window(r) <= Window(inc) + FreeWindows - 2
    PROVE  /\ Wire(r) = Wire(inc) <=> r = inc
           /\ Wire(r) # Wire(inc) /\ InReceiveWindow(Wire(r), Wire(inc)) <=> r > inc
<1>. DEFINE F == FreeWindows
            S == WindowSize
            a == Window(r)
            b == Window(inc)
            x == Wire(r)
            y == Wire(inc)
            A == WindowsAhead(x, y)
<1>1. /\ S \in Nat \ {0} /\ F \in Nat /\ F >= 2 /\ Windows = 2 * F
      /\ a \in Nat /\ b \in Nat /\ x \in Nat /\ y \in Nat /\ Circle \in Nat \ {0}
  BY Sizes
<1>2. CASE r < inc
  <2>1. inc <= r + S * (F - 1) /\ F - 1 \in Int
    BY <1>1
  <2>2. b <= a + (F - 1)
    <3>. DEFINE k == F - 1
    <3>1. k \in Int /\ inc <= r + S * k
      BY <2>1
    <3>. HIDE DEF k
    <3>2. inc \div S <= r \div S + k
      BY <1>1, <3>1, QuotientBound
    <3>. QED
      BY <3>2 DEF k, Window
  <2>3. b - a < Windows
    BY <1>1, <2>2
  <2>4. A = Windows - (b - a)
    BY <1>2, <2>3, BehindOnCircle DEF Window
  <2>5. A > F - 2 /\ A # 0
    BY <1>1, <2>2, <2>4
  <2>6. ~ InReceiveWindow(x, y)
    BY <1>1, <2>5 DEF InReceiveWindow
  <2>7. x # y
    <3>1. WindowsAhead(y, y) = 0
      <4>1. WindowOf(y) \in Int
        BY <1>1, QuotientType DEF WindowOf
      <4>. QED
        BY <1>1, <4>1 DEF WindowsAhead
    <3>. QED
      BY <2>5, <3>1
  <2>. QED
    BY <1>2, <2>6, <2>7
<1>3. CASE r >= inc
  <2>1. inc <= r /\ a - b < Windows
    BY <1>1, <1>3
  <2>2. r < inc + Circle
    BY <2>1, WithinCircle DEF Window
  <2>3. b <= a
    BY <1>1, <2>1, QuotientOrder DEF Window
  <2>4. A = a - b
    BY <2>1, AheadOnCircle DEF Window
  <2>5. InReceiveWindow(x, y)
    BY <1>1, <2>3, <2>4 DEF InReceiveWindow
  <2>6. \/ x = y + (r - inc)
        \/ x = y + (r - inc) - Circle
    BY <2>1, <2>2, Rounds
  <2>7. x = y <=> r = inc
    BY <1>1, <1>3, <2>2, <2>6
  <2>. QED
    BY <1>3, <2>5, <2>7
<1>. QED
  BY <1>2, <1>3

(* What IsPresent and IsFuture say of an entry within reach.                *)
LEMMA EntryCases ==
    ASSUME SentRight, NEW ch \in ChannelRecords, NEW e, EntryRight(e),
           e.kind # "unsequenced", InReach(ch, e.packet)
    PROVE  /\ IsPresent(ch, e) <=>
                 packets[e.packet].reliable = ch.incomingReliableSequenceNumber
           /\ IsFuture(ch, e) <=>
                 packets[e.packet].reliable > ch.incomingReliableSequenceNumber
<1>. DEFINE r == packets[e.packet].reliable
            inc == ch.incomingReliableSequenceNumber
<1>1. r \in Nat
  <2>1. packets[e.packet] \in PacketRecords
    BY ElementOfSeq DEF SentRight, EntryRight
  <2>. QED
    BY <2>1 DEF PacketRecords
<1>2. inc \in Nat
  BY DEF ChannelRecords
<1>3. inc <= r + (FreeWindows - 1) * WindowSize /\ Window(r) <= Window(inc) + FreeWindows - 2
  BY DEF InReach
<1>4. e.reliable = Wire(r) /\ Incoming(ch) = Wire(inc) /\ ~ IsUnsequenced(e)
  BY DEF EntryRight, Incoming, IsUnsequenced
<1>. HIDE DEF r, inc
<1>5. /\ Wire(r) = Wire(inc) <=> r = inc
      /\ Wire(r) # Wire(inc) /\ InReceiveWindow(Wire(r), Wire(inc)) <=> r > inc
  BY <1>1, <1>2, <1>3, ReachOnCircle
<1>6. /\ IsPresent(ch, e) <=> r = inc
      /\ IsFuture(ch, e) <=> r > inc
  BY <1>4, <1>5 DEF IsPresent, IsFuture
<1>. QED
  BY <1>6 DEF r, inc

(* The entries of the list before the pass.                                 *)
LEMMA EntryFacts ==
    ASSUME SentRight, NEW ch \in ChannelRecords, NEW keep, ListReady(ch, keep),
           NEW k \in 1 .. Len(ch.unreliable),
           NEW e, e = ch.unreliable[k]
    PROVE  /\ e \in EntryRecords
           /\ EntryRight(e)
           /\ e.packet \in 1 .. Len(packets)
           /\ packets[e.packet] \in PacketRecords
           /\ e.kind = packets[e.packet].kind
           /\ e.kind # "unsequenced" => InReach(ch, e.packet)
           /\ e.packet = keep /\ e.kind # "unsequenced"
                 => packets[e.packet].reliable >= ch.incomingReliableSequenceNumber
           /\ keep # 0 /\ e.missing = {} /\ IsPresent(ch, e) => e.packet = keep
<1>1. ch.unreliable \in Seq(EntryRecords)
  BY DEF ChannelRecords
<1>2. e \in EntryRecords
  BY <1>1, ElementOfSeq
<1>3. /\ EntryRight(e)
      /\ e.kind # "unsequenced" => InReach(ch, e.packet)
      /\ e.packet = keep /\ e.kind # "unsequenced"
            => packets[e.packet].reliable >= ch.incomingReliableSequenceNumber
      /\ keep # 0 /\ e.missing = {} /\ IsPresent(ch, e) => e.packet = keep
  BY DEF ListReady
<1>4. e.packet \in 1 .. Len(packets) /\ e.kind = packets[e.packet].kind
  BY <1>3 DEF EntryRight
<1>5. packets[e.packet] \in PacketRecords
  BY <1>4, ElementOfSeq DEF SentRight
<1>. QED
  BY <1>2, <1>3, <1>4, <1>5

(* Their order is that of the numbers.                                      *)
LEMMA EntryOrder ==
    ASSUME SentRight, NEW ch \in ChannelRecords, NEW keep, ListReady(ch, keep),
           NEW j \in 1 .. Len(ch.unreliable), NEW k \in 1 .. Len(ch.unreliable), j < k,
           NEW d, d = ch.unreliable[j], NEW e, e = ch.unreliable[k]
    PROVE  /\ e.kind # "unsequenced"
           /\ d.kind # "unsequenced" =>
                 /\ d.packet < e.packet
                 /\ \/ packets[d.packet].reliable < packets[e.packet].reliable
                    \/ /\ packets[d.packet].reliable = packets[e.packet].reliable
                       /\ packets[d.packet].unreliable < packets[e.packet].unreliable
<1>1. /\ e.kind # "unsequenced"
      /\ d.kind # "unsequenced" => d.packet < e.packet
  BY DEF ListReady
<1>2. /\ d.packet \in 1 .. Len(packets) /\ e.packet \in 1 .. Len(packets)
      /\ d.kind = packets[d.packet].kind /\ e.kind = packets[e.packet].kind
  BY EntryFacts
<1>3. ASSUME d.kind # "unsequenced"
      PROVE  \/ packets[d.packet].reliable < packets[e.packet].reliable
             \/ /\ packets[d.packet].reliable = packets[e.packet].reliable
                /\ packets[d.packet].unreliable < packets[e.packet].unreliable
  <2>. DEFINE p == d.packet
              q == e.packet
  <2>1. /\ p \in 1 .. Len(packets) /\ q \in 1 .. Len(packets) /\ p < q
        /\ packets[p].kind # "unsequenced" /\ packets[q].kind # "unsequenced"
    BY <1>1, <1>2, <1>3
  <2>. HIDE DEF p, q
  <2>2. \/ packets[p].reliable < packets[q].reliable
        \/ /\ packets[p].reliable = packets[q].reliable
           /\ packets[p].unreliable < packets[q].unreliable
    BY <2>1, PacketOrder
  <2>. QED
    BY <2>2 DEF p, q
<1>. QED
  BY <1>1, <1>3

(* Where the entries are: those that wait are behind the pass, and what was *)
(* passed by is not among the present.                                      *)
LEMMA PassOrder ==
    ASSUME SentRight, NEW ch \in ChannelRecords, NEW keep, ListReady(ch, keep),
           NEW k \in 1 .. Len(ch.unreliable),
           NEW e, e = ch.unreliable[k]
    PROVE  /\ e.kind = "unsequenced" => k \in Ready(ch)
           /\ e.kind # "unsequenced" =>
                 /\ packets[e.packet].reliable > ch.incomingReliableSequenceNumber
                       <=> k > EndOfPass(ch)
                 /\ packets[e.packet].reliable = ch.incomingReliableSequenceNumber
                       <=> k \in Present(ch)
<1>. DEFINE list == ch.unreliable
            n == Len(list)
            last == EndOfPass(ch)
            inc == ch.incomingReliableSequenceNumber
            R(i) == packets[list[i].packet].reliable
<1>1. inc \in Nat
  BY DEF ChannelRecords
<1>2. /\ last \in 0 .. n
      /\ \A i \in 1 .. last : ~ IsFuture(ch, list[i])
      /\ last # n => IsFuture(ch, list[last + 1])
  BY PassFacts
<1>3. n \in Nat /\ last \in Nat /\ last <= n
  <2>1. n \in Nat
    BY PassFacts
  <2>. HIDE DEF n, last
  <2>. QED
    BY <1>2, <2>1
<1>. HIDE DEF n, last
<1>4. ASSUME NEW i \in 1 .. n
      PROVE  /\ R(i) \in Nat
             /\ list[i].kind = "unsequenced" => IsPresent(ch, list[i]) /\ ~ IsFuture(ch, list[i])
             /\ list[i].kind # "unsequenced" =>
                   /\ IsPresent(ch, list[i]) <=> R(i) = inc
                   /\ IsFuture(ch, list[i]) <=> R(i) > inc
  <2>1. PICK d : d = list[i]
    OBVIOUS
  <2>2. /\ EntryRight(d) /\ packets[d.packet] \in PacketRecords
        /\ d.kind # "unsequenced" => InReach(ch, d.packet)
    BY <2>1, EntryFacts DEF n
  <2>3. packets[d.packet].reliable \in Nat
    BY <2>2 DEF PacketRecords
  <2>4. d.kind = "unsequenced" => IsPresent(ch, d) /\ ~ IsFuture(ch, d)
    BY DEF IsPresent, IsFuture, IsUnsequenced
  <2>5. d.kind # "unsequenced" =>
           /\ IsPresent(ch, d) <=> packets[d.packet].reliable = inc
           /\ IsFuture(ch, d) <=> packets[d.packet].reliable > inc
    BY <2>2, EntryCases
  <2>. HIDE DEF inc
  <2>. QED
    BY <2>1, <2>3, <2>4, <2>5
<1>5. ASSUME NEW i \in 1 .. n, i > last
      PROVE  list[i].kind # "unsequenced" /\ R(i) > inc
  <2>1. last # n /\ last + 1 \in 1 .. n /\ last + 1 <= i
    BY <1>3, <1>5
  <2>2. IsFuture(ch, list[last + 1])
    BY <1>2, <2>1
  <2>3. list[last + 1].kind # "unsequenced" /\ R(last + 1) > inc
    BY <1>4, <2>1, <2>2
  <2>4. CASE i = last + 1
    BY <2>3, <2>4
  <2>5. CASE last + 1 < i
    <3>1. PICK d, f : d = list[last + 1] /\ f = list[i]
      OBVIOUS
    <3>2. /\ f.kind # "unsequenced"
          /\ \/ packets[d.packet].reliable < packets[f.packet].reliable
             \/ packets[d.packet].reliable = packets[f.packet].reliable
      BY <2>1, <2>3, <2>5, <3>1, EntryOrder DEF n
    <3>3. R(last + 1) <= R(i)
      BY <1>4, <2>1, <3>1, <3>2
    <3>4. R(i) \in Nat /\ R(last + 1) \in Nat
      BY <1>4, <2>1
    <3>. QED
      BY <1>1, <2>3, <3>1, <3>2, <3>3, <3>4
  <2>. QED
    BY <1>3, <1>5, <2>1, <2>4, <2>5
<1>6. k \in 1 .. n /\ list[k] = e
  BY DEF n
<1>7. k \in Nat /\ (k <= last => k \in 1 .. last)
  BY <1>3, <1>6
<1>8. ASSUME e.kind = "unsequenced" PROVE k \in Ready(ch)
  <2>1. k <= last
    BY <1>3, <1>5, <1>6, <1>7, <1>8
  <2>2. k \in Present(ch)
    BY <1>4, <1>6, <1>7, <1>8, <2>1 DEF Present, last
  <2>3. e.missing = {}
    BY <1>8, EntryFacts DEF EntryRight
  <2>. QED
    BY <2>2, <2>3 DEF Ready
<1>9. ASSUME e.kind # "unsequenced"
      PROVE  /\ packets[e.packet].reliable > inc <=> k > last
             /\ packets[e.packet].reliable = inc <=> k \in Present(ch)
  <2>. DEFINE r == packets[e.packet].reliable
  <2>1. /\ r \in Nat
        /\ IsPresent(ch, e) <=> r = inc
        /\ IsFuture(ch, e) <=> r > inc
    BY <1>4, <1>6, <1>9
  <2>2. k > last => r > inc
    BY <1>5, <1>6
  <2>3. k <= last => ~ IsFuture(ch, e)
    BY <1>2, <1>6, <1>7
  <2>4. k \in Present(ch) <=> k <= last /\ IsPresent(ch, e)
    BY <1>3, <1>6, <1>7 DEF Present, last
  <2>. HIDE DEF r, inc
  <2>. QED
    BY <1>1, <1>3, <1>7, <2>1, <2>2, <2>3, <2>4 DEF r
<1>. QED
  BY <1>8, <1>9 DEF last

(* What stays on the list after the pass was not passed by, and is not      *)
(* complete if it is present; it is behind what was dispatched last.        *)
LEMMA PassKeeps ==
    ASSUME SentRight, NEW ch \in ChannelRecords, NEW keep, ListReady(ch, keep),
           NEW k \in Kept(ch, keep),
           NEW e, e = ch.unreliable[k]
    PROVE  /\ k \in 1 .. Len(ch.unreliable)
           /\ e.kind # "unsequenced"
           /\ packets[e.packet].reliable >= ch.incomingReliableSequenceNumber
           /\ packets[e.packet].reliable = ch.incomingReliableSequenceNumber =>
                 /\ e.missing # {}
                 /\ \A m \in ReadySequenced(ch) : m < k
<1>. DEFINE n == Len(ch.unreliable)
            last == EndOfPass(ch)
            inc == ch.incomingReliableSequenceNumber
            r == packets[e.packet].reliable
<1>1. k \in 1 .. n /\ k \notin Ready(ch) /\ k \notin Dropped(ch, keep)
  BY DEF Kept
<1>2. /\ EntryRight(e) /\ e.packet \in 1 .. Len(packets)
      /\ packets[e.packet] \in PacketRecords
      /\ e.packet = keep /\ e.kind # "unsequenced" => r >= inc
  BY <1>1, EntryFacts
<1>3. /\ e.kind # "unsequenced"
      /\ r > inc <=> k > last
      /\ r = inc <=> k \in Present(ch)
  BY <1>1, PassOrder
<1>4. r \in Nat /\ inc \in Nat
  BY <1>2 DEF PacketRecords, ChannelRecords
<1>5. n \in Nat /\ last \in Nat
  <2>1. n \in Nat /\ last \in 0 .. n
    BY PassFacts
  <2>. HIDE DEF n, last
  <2>. QED
    BY <2>1
<1>. HIDE DEF n, last, inc, r
<1>6. k \in Nat
  BY <1>1, <1>5
<1>7. ASSUME k <= last, k \notin Partial(ch) PROVE e.packet = keep
  <2>1. k \notin Present(ch)
    BY <1>1, <1>7 DEF Partial
  <2>2. k < Limit(ch)
    <3>1. CASE last \in Partial(ch) /\ last - 1 \in Partial(ch)
      <4>1. Limit(ch) = last - 1
        BY <3>1 DEF Limit, last
      <4>2. k # last /\ k # last - 1
        BY <1>7, <3>1
      <4>. QED
        BY <1>5, <1>6, <1>7, <4>1, <4>2
    <3>2. CASE last \in Partial(ch) /\ last - 1 \notin Partial(ch)
      <4>1. Limit(ch) = last
        BY <3>2 DEF Limit, last
      <4>2. k # last
        BY <1>7, <3>2
      <4>. QED
        BY <1>5, <1>6, <1>7, <4>1, <4>2
    <3>3. CASE last \notin Partial(ch)
      <4>1. Limit(ch) = last + 1
        BY <3>3 DEF Limit, last
      <4>. QED
        BY <1>5, <1>6, <1>7, <4>1
    <3>. QED
      BY <3>1, <3>2, <3>3
  <2>3. k \in 1 .. Limit(ch) - 1
    <3>1. Limit(ch) \in 0 .. last + 1
      BY PassFacts DEF last
    <3>. QED
      BY <1>1, <1>5, <2>2, <3>1
  <2>. QED
    BY <1>1, <2>3 DEF Dropped
<1>8. r >= inc
  <2>1. CASE k > last
    BY <1>3, <1>4, <2>1
  <2>2. CASE k <= last /\ k \in Partial(ch)
    BY <1>3, <1>4, <2>2 DEF Partial
  <2>3. CASE k <= last /\ k \notin Partial(ch)
    BY <1>2, <1>3, <1>7, <2>3
  <2>. QED
    BY <1>5, <1>6, <2>1, <2>2, <2>3
<1>9. ASSUME r = inc
      PROVE  e.missing # {} /\ \A m \in ReadySequenced(ch) : m < k
  <2>1. k \in Present(ch) /\ k \in Partial(ch) /\ k <= last
    BY <1>1, <1>3, <1>4, <1>5, <1>6, <1>9 DEF Partial
  <2>2. e.missing # {}
    BY <1>1, <2>1 DEF Ready
  <2>3. ASSUME NEW m \in ReadySequenced(ch) PROVE m < k
    <3>1. /\ m \in Ready(ch) /\ m \in 1 .. n /\ m \in Present(ch)
          /\ m \notin Partial(ch)
      BY PassFacts DEF ReadySequenced, Ready, Partial, n
    <3>2. m <= last /\ m \in Nat /\ m # k
      <4>1. m \in 1 .. last
        BY <3>1 DEF Present, last
      <4>. QED
        BY <1>1, <1>5, <3>1, <4>1
    <3>3. SUFFICES ASSUME k < m PROVE FALSE
      BY <1>6, <3>2
    <3>4. ~ (k < Limit(ch)) \/ e.packet = keep
      <4>1. Limit(ch) \in 0 .. last + 1
        BY PassFacts DEF last
      <4>2. k < Limit(ch) => k \in 1 .. Limit(ch) - 1
        BY <1>1, <1>5, <4>1
      <4>. QED
        BY <1>1, <4>2 DEF Dropped
    <3>5. CASE ~ (k < Limit(ch))
      <4>1. CASE last \in Partial(ch) /\ last - 1 \in Partial(ch)
        <5>1. Limit(ch) = last - 1
          BY <4>1 DEF Limit, last
        <5>2. m # last /\ m # last - 1
          BY <3>1, <4>1
        <5>. QED
          BY <1>5, <1>6, <3>2, <3>3, <3>5, <5>1, <5>2
      <4>2. CASE last \in Partial(ch) /\ last - 1 \notin Partial(ch)
        <5>1. Limit(ch) = last
          BY <4>2 DEF Limit, last
        <5>. QED
          BY <1>5, <1>6, <3>2, <3>3, <3>5, <5>1
      <4>3. CASE last \notin Partial(ch)
        <5>1. Limit(ch) = last + 1
          BY <4>3 DEF Limit, last
        <5>. QED
          BY <1>5, <1>6, <2>1, <3>5, <5>1
      <4>. QED
        BY <4>1, <4>2, <4>3
    <3>6. CASE e.packet = keep
      <4>1. PICK d : d = ch.unreliable[m]
        OBVIOUS
      <4>2. keep # 0
        <5>1. Len(packets) \in Nat
          BY LenProperties DEF SentRight
        <5>. QED
          BY <1>2, <3>6, <5>1
      <4>3. d.missing = {} /\ IsPresent(ch, d) /\ d.kind # "unsequenced"
        BY <3>1, <4>1 DEF Ready, Present, ReadySequenced, IsUnsequenced
      <4>4. d.packet = keep
        BY <3>1, <4>1, <4>2, <4>3, EntryFacts DEF n
      <4>5. e.packet < d.packet
        BY <1>1, <1>3, <3>1, <3>3, <4>1, EntryOrder DEF n
      <4>6. e.packet \in Nat
        BY <1>2
      <4>. QED
        BY <3>6, <4>4, <4>5, <4>6
    <3>. QED
      BY <3>4, <3>5, <3>6
  <2>. QED
    BY <2>2, <2>3
<1>. QED
  BY <1>1, <1>3, <1>8, <1>9 DEF n, r, inc

(* The number of the last unreliable packet after the pass is that of the   *)
(* last one the pass dispatched, or is left alone.                          *)
LEMMA PassLast ==
    ASSUME NEW ch \in ChannelRecords, NEW keep,
           NEW d, d = DispatchUnreliable(ch, keep)
    PROVE  \/ /\ ReadySequenced(ch) = {}
              /\ d.incomingUnreliableSequenceNumber = ch.incomingUnreliableSequenceNumber
           \/ \E m \in ReadySequenced(ch) :
                 /\ \A x \in ReadySequenced(ch) : x <= m
                 /\ d.incomingUnreliableSequenceNumber = ch.unreliable[m].unreliable
<1>1. d.incomingUnreliableSequenceNumber =
         IF ReadySequenced(ch) = {} THEN ch.incomingUnreliableSequenceNumber
         ELSE ch.unreliable[Max(ReadySequenced(ch))].unreliable
  BY DispatchFields
<1>2. CASE ReadySequenced(ch) = {}
  BY <1>1, <1>2
<1>3. CASE ReadySequenced(ch) # {}
  <2>1. ReadySequenced(ch) \in SUBSET (1 .. Len(ch.unreliable)) /\ Len(ch.unreliable) \in Nat
    BY PassFacts DEF ReadySequenced
  <2>. DEFINE S == ReadySequenced(ch)
              n == Len(ch.unreliable)
  <2>. HIDE DEF S, n
  <2>2. Max(S) \in S /\ \A x \in S : x <= Max(S)
    BY <1>3, <2>1, MaxOfSome DEF S, n
  <2>. QED
    BY <1>1, <1>3, <2>2 DEF S
<1>. QED
  BY <1>2, <1>3

(* The list is right after the pass.                                        *)
LEMMA DispatchList ==
    ASSUME SentRight, NEW ch \in ChannelRecords, NEW keep, ListReady(ch, keep)
    PROVE  ListRight(DispatchUnreliable(ch, keep))
<1>. DEFINE list == ch.unreliable
            kept == Kept(ch, keep)
            N == Cardinality(kept)
            a == Ascending(kept)
            inc == ch.incomingReliableSequenceNumber
<1>1. PICK d : d = DispatchUnreliable(ch, keep)
  OBVIOUS
<1>2. d.unreliable = Pick(list, kept) /\ d.incomingReliableSequenceNumber = inc
  BY <1>1, DispatchFields
<1>3. list \in Seq(EntryRecords) /\ kept \in SUBSET (1 .. Len(list))
  BY DEF ChannelRecords, Kept
<1>4. /\ N \in Nat /\ Len(d.unreliable) = N
      /\ \A j \in 1 .. N : a[j] \in kept /\ d.unreliable[j] = list[a[j]]
      /\ \A j, k \in 1 .. N : j < k => a[j] < a[k]
  <2>. HIDE DEF list, kept
  <2>1. /\ Cardinality(kept) \in Nat /\ Len(Pick(list, kept)) = Cardinality(kept)
        /\ \A j \in 1 .. Cardinality(kept) :
              /\ Ascending(kept)[j] \in kept
              /\ Pick(list, kept)[j] = list[Ascending(kept)[j]]
        /\ \A j, k \in 1 .. Cardinality(kept) :
              j < k => Ascending(kept)[j] < Ascending(kept)[k]
    BY <1>3, PickFacts
  <2>. QED
    BY <1>2, <2>1
<1>. HIDE DEF N, a
<1>5. ASSUME NEW j \in 1 .. N, NEW e, e = d.unreliable[j]
      PROVE  /\ EntryRight(e)
             /\ e.kind # "unsequenced"
             /\ InReach(d, e.packet)
             /\ packets[e.packet].reliable >= inc
             /\ packets[e.packet].reliable = inc => e.missing # {}
             /\ e.packet # 0
  <2>1. PICK k : k = a[j]
    OBVIOUS
  <2>2. k \in kept /\ e = list[k]
    BY <1>4, <1>5, <2>1
  <2>3. /\ k \in 1 .. Len(list) /\ e.kind # "unsequenced"
        /\ packets[e.packet].reliable >= inc
        /\ packets[e.packet].reliable = inc =>
              /\ e.missing # {}
              /\ \A m \in ReadySequenced(ch) : m < k
    BY <2>2, PassKeeps
  <2>4. /\ EntryRight(e) /\ InReach(ch, e.packet) /\ e.packet \in 1 .. Len(packets)
        /\ e \in EntryRecords /\ packets[e.packet] \in PacketRecords
    BY <2>2, <2>3, EntryFacts
  <2>5. ASSUME packets[e.packet].reliable = inc
        PROVE  packets[e.packet].unreliable > d.incomingUnreliableSequenceNumber
    <3>1. CASE d.incomingUnreliableSequenceNumber = ch.incomingUnreliableSequenceNumber
      BY <2>4, <2>5, <3>1 DEF InReach
    <3>2. CASE \E m \in ReadySequenced(ch) :
                  d.incomingUnreliableSequenceNumber = list[m].unreliable
      <4>1. PICK m \in ReadySequenced(ch) :
                    d.incomingUnreliableSequenceNumber = list[m].unreliable
        BY <3>2
      <4>2. PICK f : f = list[m]
        OBVIOUS
      <4>3. m \in 1 .. Len(list) /\ m < k /\ m \in Present(ch) /\ f.kind # "unsequenced"
        BY <2>3, <2>5, <4>2, PassFacts DEF ReadySequenced, Ready, IsUnsequenced
      <4>4. /\ EntryRight(f) /\ packets[f.packet].reliable = inc
            /\ packets[f.packet] \in PacketRecords
        BY <4>2, <4>3, PassOrder, EntryFacts
      <4>5. packets[f.packet].unreliable < packets[e.packet].unreliable
        <5>1. \/ packets[f.packet].reliable < packets[e.packet].reliable
              \/ /\ packets[f.packet].reliable = packets[e.packet].reliable
                 /\ packets[f.packet].unreliable < packets[e.packet].unreliable
          BY <2>2, <2>3, <4>2, <4>3, EntryOrder
        <5>2. inc \in Nat
          BY DEF ChannelRecords
        <5>. HIDE DEF inc
        <5>. QED
          BY <2>5, <4>4, <5>1, <5>2
      <4>6. d.incomingUnreliableSequenceNumber = packets[f.packet].unreliable
        BY <4>1, <4>2, <4>4 DEF EntryRight
      <4>7. packets[f.packet].unreliable \in Nat /\ packets[e.packet].unreliable \in Nat
        BY <2>4, <4>4 DEF PacketRecords
      <4>. QED
        BY <4>5, <4>6, <4>7
    <3>3. \/ d.incomingUnreliableSequenceNumber = ch.incomingUnreliableSequenceNumber
          \/ \E m \in ReadySequenced(ch) :
                d.incomingUnreliableSequenceNumber = list[m].unreliable
      BY <1>1, PassLast
    <3>. QED
      BY <3>1, <3>2, <3>3
  <2>6. InReach(d, e.packet)
    BY <1>2, <2>4, <2>5 DEF InReach
  <2>7. e.packet # 0
    <3>1. Len(packets) \in Nat
      BY LenProperties DEF SentRight
    <3>. QED
      BY <2>4, <3>1
  <2>. QED
    BY <2>3, <2>4, <2>6, <2>7
<1>6. ASSUME NEW j \in 1 .. N, NEW k \in 1 .. N, j < k
      PROVE  /\ d.unreliable[k].kind # "unsequenced"
             /\ d.unreliable[j].kind # "unsequenced"
                   => d.unreliable[j].packet < d.unreliable[k].packet
  <2>1. PICK e, f : e = d.unreliable[j] /\ f = d.unreliable[k]
    OBVIOUS
  <2>2. PICK x, y : x = a[j] /\ y = a[k]
    OBVIOUS
  <2>3. /\ x \in 1 .. Len(list) /\ y \in 1 .. Len(list) /\ x < y
        /\ e = list[x] /\ f = list[y]
    BY <1>3, <1>4, <1>6, <2>1, <2>2
  <2>4. f.kind # "unsequenced" /\ (e.kind # "unsequenced" => e.packet < f.packet)
    BY <2>3, EntryOrder
  <2>. QED
    BY <2>1, <2>4
<1>7. ListReady(d, 0)
  <2>1. ASSUME NEW k \in 1 .. Len(d.unreliable)
        PROVE  LET e == d.unreliable[k]
               IN  /\ EntryRight(e)
                   /\ e.kind # "unsequenced" => InReach(d, e.packet)
                   /\ e.packet = 0 /\ e.kind # "unsequenced"
                         => packets[e.packet].reliable >= d.incomingReliableSequenceNumber
                   /\ 0 # 0 /\ e.missing = {} /\ IsPresent(d, e) => e.packet = 0
    BY <1>4, <1>5
  <2>. QED
    BY <1>4, <1>6, <2>1 DEF ListReady
<1>8. ListRight(d)
  BY <1>2, <1>4, <1>5, <1>7 DEF ListRight
<1>. QED
  BY <1>1, <1>8

(* The entry that the pass is told to keep is still there, if it is not     *)
(* complete.                                                                *)
LEMMA DispatchKeeps ==
    ASSUME SentRight, NEW ch \in ChannelRecords, NEW keep, ListReady(ch, keep),
           NEW k \in 1 .. Len(ch.unreliable), ch.unreliable[k].packet = keep,
           ch.unreliable[k].missing # {}
    PROVE  \E j \in 1 .. Len(DispatchUnreliable(ch, keep).unreliable) :
              DispatchUnreliable(ch, keep).unreliable[j] = ch.unreliable[k]
<1>1. PICK d : d = DispatchUnreliable(ch, keep)
  OBVIOUS
<1>2. d.unreliable = Pick(ch.unreliable, Kept(ch, keep))
  <2>1. ch \in ChannelRecords
    OBVIOUS
  <2>. QED
    BY ONLY <1>1, <2>1, DispatchFields
<1>3. /\ ch.unreliable \in Seq(EntryRecords)
      /\ Kept(ch, keep) \in SUBSET (1 .. Len(ch.unreliable))
  BY DEF ChannelRecords, Kept
<1>4. k \in Kept(ch, keep)
  BY DEF Kept, Ready, Dropped
<1>5. \E j \in 1 .. Len(d.unreliable) : d.unreliable[j] = ch.unreliable[k]
  <2>1. PICK list, S, more :
           list = ch.unreliable /\ S = Kept(ch, keep) /\ more = d.unreliable
    OBVIOUS
  <2>2. /\ list \in Seq(EntryRecords) /\ S \in SUBSET (1 .. Len(list))
        /\ k \in S /\ more = Pick(list, S)
    BY <1>2, <1>3, <1>4, <2>1
  <2>3. \E j \in 1 .. Len(more) : more[j] = list[k]
    BY ONLY <2>2, PickFacts
  <2>. QED
    BY <2>1, <2>3
<1>. QED
  BY <1>1, <1>5

(* E takes what is delivered from the numbers of ch to those of d: in       *)
(* order, beyond the former and not beyond the latter, with every reliable  *)
(* packet between the two.                                                  *)
Continues(ch, d, E) ==
    /\ E \in Seq(1 .. Len(packets))
    /\ \/ ch.incomingReliableSequenceNumber < d.incomingReliableSequenceNumber
       \/ /\ ch.incomingReliableSequenceNumber = d.incomingReliableSequenceNumber
          /\ ch.incomingUnreliableSequenceNumber <= d.incomingUnreliableSequenceNumber
    /\ \A k \in 1 .. Len(E) :
          packets[E[k]].kind # "unsequenced" =>
             /\ packets[E[k]].reliable >= ch.incomingReliableSequenceNumber
             /\ packets[E[k]].reliable = ch.incomingReliableSequenceNumber
                   => packets[E[k]].unreliable > ch.incomingUnreliableSequenceNumber
             /\ packets[E[k]].reliable <= d.incomingReliableSequenceNumber
             /\ packets[E[k]].reliable = d.incomingReliableSequenceNumber
                   => packets[E[k]].unreliable <= d.incomingUnreliableSequenceNumber
    /\ \A j, k \in 1 .. Len(E) :
          /\ j < k
          /\ packets[E[j]].kind # "unsequenced"
          /\ packets[E[k]].kind # "unsequenced"
          => E[j] < E[k]
    /\ \A q \in 1 .. Len(packets) :
          /\ packets[q].kind = "reliable"
          /\ packets[q].reliable > ch.incomingReliableSequenceNumber
          /\ packets[q].reliable <= d.incomingReliableSequenceNumber
          => \E k \in 1 .. Len(E) : E[k] = q

(* What so continues the delivered packets is delivered rightly with them.  *)
LEMMA DeliveredMore ==
    ASSUME SentRight, NEW ch \in ChannelRecords, NEW d \in ChannelRecords,
           NEW D, DeliveredAs(ch, D), NEW E, Continues(ch, d, E)
    PROVE  DeliveredAs(d, D \o E)
<1>. DEFINE P == 1 .. Len(packets)
            F == D \o E
            m == Len(D)
            n == Len(E)
            inc == ch.incomingReliableSequenceNumber
            u == ch.incomingUnreliableSequenceNumber
            inc2 == d.incomingReliableSequenceNumber
            u2 == d.incomingUnreliableSequenceNumber
            R(p) == packets[p].reliable
            U(p) == packets[p].unreliable
            Seqd(p) == packets[p].kind # "unsequenced"
<1>1. inc \in Nat /\ u \in Nat /\ inc2 \in Nat /\ u2 \in Nat
  BY DEF ChannelRecords
<1>2. /\ D \in Seq(P)
      /\ \A k \in 1 .. m : Seqd(D[k]) => R(D[k]) <= inc /\ (R(D[k]) = inc => U(D[k]) <= u)
      /\ \A j, k \in 1 .. m : j < k /\ Seqd(D[j]) /\ Seqd(D[k]) => D[j] < D[k]
      /\ \A q \in P : packets[q].kind = "reliable" /\ R(q) <= inc
                         => \E k \in 1 .. m : D[k] = q
  BY DEF DeliveredAs
<1>3. m \in Nat /\ n \in Nat
  BY <1>2, LenProperties DEF Continues
<1>4. \A p \in P : R(p) \in Nat /\ U(p) \in Nat
  <2>1. \A p \in P : packets[p] \in PacketRecords
    BY ElementOfSeq DEF SentRight
  <2>. QED
    BY <2>1 DEF PacketRecords
<1>5. E \in Seq(P)
  BY DEF Continues
<1>6. inc < inc2 \/ (inc = inc2 /\ u <= u2)
  BY DEF Continues
<1>7. \A k \in 1 .. n : Seqd(E[k]) =>
         /\ R(E[k]) >= inc /\ (R(E[k]) = inc => U(E[k]) > u)
         /\ R(E[k]) <= inc2 /\ (R(E[k]) = inc2 => U(E[k]) <= u2)
  BY DEF Continues
<1>8. \A j, k \in 1 .. n : j < k /\ Seqd(E[j]) /\ Seqd(E[k]) => E[j] < E[k]
  BY DEF Continues
<1>9. \A q \in P : packets[q].kind = "reliable" /\ R(q) > inc /\ R(q) <= inc2
                      => \E k \in 1 .. n : E[k] = q
  BY DEF Continues
<1>10. \A p, q \in P : Seqd(p) /\ Seqd(q)
          /\ (R(p) < R(q) \/ (R(p) = R(q) /\ U(p) < U(q))) => p < q
  BY PacketOrder
<1>. HIDE DEF P, m, n, inc, u, inc2, u2, R, U, Seqd
<1>11. /\ F \in Seq(P) /\ Len(F) = m + n
       /\ \A i \in 1 .. m + n : F[i] = IF i <= m THEN D[i] ELSE E[i - m]
  BY ONLY <1>2, <1>5, ConcatProperties DEF m, n
<1>. HIDE DEF F
<1>12. /\ \A i \in 1 .. m : D[i] \in P
       /\ \A i \in 1 .. n : E[i] \in P
  BY <1>2, <1>5, ElementOfSeq DEF m, n
<1>13. ASSUME NEW k \in 1 .. m + n, Seqd(F[k])
       PROVE  R(F[k]) <= inc2 /\ (R(F[k]) = inc2 => U(F[k]) <= u2)
  <2>1. CASE k <= m
    <3>1. k \in 1 .. m /\ F[k] = D[k]
      BY <1>3, <1>11, <2>1
    <3>2. R(D[k]) <= inc /\ (R(D[k]) = inc => U(D[k]) <= u) /\ D[k] \in P
      BY <1>2, <1>12, <1>13, <3>1
    <3>3. R(D[k]) \in Nat /\ U(D[k]) \in Nat
      BY <1>4, <3>2
    <3>. QED
      BY <1>1, <1>6, <3>1, <3>2, <3>3
  <2>2. CASE k > m
    <3>1. k - m \in 1 .. n /\ F[k] = E[k - m]
      BY <1>3, <1>11, <2>2
    <3>. QED
      BY <1>7, <1>13, <3>1
  <2>. QED
    BY <1>3, <2>1, <2>2
<1>14. ASSUME NEW j \in 1 .. m + n, NEW k \in 1 .. m + n, j < k, Seqd(F[j]), Seqd(F[k])
       PROVE  F[j] < F[k]
  <2>1. CASE k <= m
    <3>1. j \in 1 .. m /\ k \in 1 .. m /\ F[j] = D[j] /\ F[k] = D[k]
      BY <1>3, <1>11, <1>14, <2>1
    <3>. QED
      BY <1>2, <1>14, <3>1
  <2>2. CASE j <= m /\ k > m
    <3>1. j \in 1 .. m /\ k - m \in 1 .. n /\ F[j] = D[j] /\ F[k] = E[k - m]
      BY <1>3, <1>11, <1>14, <2>2
    <3>2. PICK p, q : p = F[j] /\ q = F[k]
      OBVIOUS
    <3>3. p \in P /\ q \in P /\ Seqd(p) /\ Seqd(q)
      BY <1>12, <1>14, <3>1, <3>2
    <3>4. R(p) <= inc /\ (R(p) = inc => U(p) <= u)
      BY <1>2, <1>14, <3>1, <3>2
    <3>5. R(q) >= inc /\ (R(q) = inc => U(q) > u)
      BY <1>7, <1>14, <3>1, <3>2
    <3>6. R(p) \in Nat /\ U(p) \in Nat /\ R(q) \in Nat /\ U(q) \in Nat
      BY <1>4, <3>3
    <3>7. R(p) < R(q) \/ (R(p) = R(q) /\ U(p) < U(q))
      BY <1>1, <3>4, <3>5, <3>6
    <3>. QED
      BY <1>10, <3>2, <3>3, <3>7
  <2>3. CASE j > m
    <3>1. /\ j - m \in 1 .. n /\ k - m \in 1 .. n /\ j - m < k - m
          /\ F[j] = E[j - m] /\ F[k] = E[k - m]
      BY <1>3, <1>11, <1>14, <2>3
    <3>. QED
      BY <1>8, <1>14, <3>1
  <2>. QED
    BY <1>3, <1>14, <2>1, <2>2, <2>3
<1>15. ASSUME NEW q \in P, packets[q].kind = "reliable", R(q) <= inc2
       PROVE  \E k \in 1 .. m + n : F[k] = q
  <2>1. CASE R(q) <= inc
    <3>1. PICK k \in 1 .. m : D[k] = q
      BY <1>2, <1>15, <2>1
    <3>2. k \in 1 .. m + n /\ F[k] = q
      BY <1>3, <1>11, <3>1
    <3>. QED
      BY <3>2
  <2>2. CASE R(q) > inc
    <3>1. PICK k \in 1 .. n : E[k] = q
      BY <1>9, <1>15, <2>2
    <3>2. m + k \in 1 .. m + n /\ ~ (m + k <= m) /\ (m + k) - m = k
      BY <1>3
    <3>3. F[m + k] = q
      BY <1>11, <3>1, <3>2
    <3>. QED
      BY <3>2, <3>3
  <2>. QED
    BY <1>1, <1>4, <2>1, <2>2
<1>16. DeliveredAs(d, F)
  <2>1. F \in Seq(P) /\ Len(F) = m + n
    BY <1>11
  <2>. QED
    BY <1>13, <1>14, <1>15, <2>1 DEF DeliveredAs, P, R, U, Seqd, inc2, u2
<1>. QED
  BY <1>16 DEF F

(* What the pass dispatches is in order.                                    *)
LEMMA DispatchDelivers ==
    ASSUME SentRight, received \in Seq(Nat),
           NEW ch \in ChannelRecords, NEW keep, ListReady(ch, keep), DeliveredRight(ch)
    PROVE  DeliveredRight(DispatchUnreliable(ch, keep))
<1>. DEFINE list == ch.unreliable
            ready == Ready(ch)
            N == Cardinality(ready)
            a == Ascending(ready)
            E == PacketsOf(Pick(list, ready))
            D == received \o ch.dispatched
            inc == ch.incomingReliableSequenceNumber
            u == ch.incomingUnreliableSequenceNumber
<1>1. PICK d : d = DispatchUnreliable(ch, keep)
  OBVIOUS
<1>2. d.incomingReliableSequenceNumber = inc /\ d.dispatched = ch.dispatched \o E
      /\ d \in ChannelRecords
  BY <1>1, DispatchFields, DispatchTypes
<1>3. list \in Seq(EntryRecords) /\ ready \in SUBSET (1 .. Len(list))
      /\ ch.dispatched \in Seq(Nat) /\ inc \in Nat /\ u \in Nat
  BY PassFacts DEF ChannelRecords
<1>4. /\ N \in Nat /\ E \in Seq(Nat) /\ Len(E) = N
      /\ \A j \in 1 .. N : a[j] \in ready /\ E[j] = list[a[j]].packet
      /\ \A j, k \in 1 .. N : j < k => a[j] < a[k]
  <2>. HIDE DEF list, ready
  <2>1. /\ Cardinality(ready) \in Nat /\ Len(Pick(list, ready)) = Cardinality(ready)
        /\ Pick(list, ready) \in Seq(EntryRecords)
        /\ \A j \in 1 .. Cardinality(ready) :
              /\ Ascending(ready)[j] \in ready
              /\ Pick(list, ready)[j] = list[Ascending(ready)[j]]
        /\ \A j, k \in 1 .. Cardinality(ready) :
              j < k => Ascending(ready)[j] < Ascending(ready)[k]
    BY <1>3, PickFacts
  <2>2. /\ E \in Seq(Nat) /\ Len(E) = Len(Pick(list, ready))
        /\ \A k \in 1 .. Len(Pick(list, ready)) : E[k] = Pick(list, ready)[k].packet
    BY <2>1, PacketsFacts
  <2>. QED
    BY <2>1, <2>2
<1>. HIDE DEF N, a, E
<1>5. ASSUME NEW j \in 1 .. N
      PROVE  /\ E[j] \in 1 .. Len(packets)
             /\ a[j] \in 1 .. Len(list)
             /\ list[a[j]].packet = E[j]
             /\ list[a[j]].kind = packets[E[j]].kind
             /\ list[a[j]].unreliable = packets[E[j]].unreliable
             /\ packets[E[j]].unreliable \in Nat
             /\ packets[E[j]].kind # "unsequenced" =>
                   /\ packets[E[j]].reliable = inc
                   /\ packets[E[j]].unreliable > u
                   /\ a[j] \in ReadySequenced(ch)
  <2>1. PICK k, e : k = a[j] /\ e = list[k]
    OBVIOUS
  <2>2. k \in ready /\ k \in 1 .. Len(list) /\ E[j] = e.packet /\ k \in Present(ch)
    BY <1>3, <1>4, <2>1 DEF Ready
  <2>3. /\ EntryRight(e) /\ e.packet \in 1 .. Len(packets)
        /\ packets[e.packet] \in PacketRecords
        /\ e.kind = packets[e.packet].kind
        /\ e.kind # "unsequenced" => InReach(ch, e.packet)
    BY <2>1, <2>2, EntryFacts
  <2>4. e.kind # "unsequenced" => packets[e.packet].reliable = inc
    BY <2>1, <2>2, PassOrder
  <2>5. e.kind # "unsequenced" => packets[e.packet].unreliable > u
    BY <2>3, <2>4 DEF InReach
  <2>6. e.unreliable = packets[e.packet].unreliable /\ packets[e.packet].unreliable \in Nat
    BY <2>3 DEF EntryRight, PacketRecords
  <2>7. e.kind # "unsequenced" => k \in ReadySequenced(ch)
    BY <2>1, <2>2 DEF ReadySequenced, IsUnsequenced
  <2>. HIDE DEF inc, u, list
  <2>. QED
    BY <2>1, <2>2, <2>3, <2>4, <2>5, <2>6, <2>7
<1>6. E \in Seq(1 .. Len(packets))
  <2>1. \A j \in 1 .. Len(E) : E[j] \in 1 .. Len(packets)
    BY <1>4, <1>5
  <2>. QED
    BY <1>4, <2>1
<1>7. /\ \A j \in 1 .. N : packets[E[j]].kind # "unsequenced"
            => packets[E[j]].unreliable <= d.incomingUnreliableSequenceNumber
      /\ u <= d.incomingUnreliableSequenceNumber
  <2>1. CASE ReadySequenced(ch) = {} /\ d.incomingUnreliableSequenceNumber = u
    BY <1>3, <1>5, <2>1
  <2>2. CASE \E m \in ReadySequenced(ch) :
                /\ \A x \in ReadySequenced(ch) : x <= m
                /\ d.incomingUnreliableSequenceNumber = list[m].unreliable
    <3>1. PICK m \in ReadySequenced(ch) :
                /\ \A x \in ReadySequenced(ch) : x <= m
                /\ d.incomingUnreliableSequenceNumber = list[m].unreliable
      BY <2>2
    <3>2. PICK f : f = list[m]
      OBVIOUS
    <3>3. m \in 1 .. Len(list) /\ m \in ready /\ m \in Present(ch) /\ f.kind # "unsequenced"
      BY <1>3, <3>2 DEF ReadySequenced, Ready, IsUnsequenced
    <3>4. /\ EntryRight(f) /\ packets[f.packet].reliable = inc
          /\ InReach(ch, f.packet) /\ packets[f.packet] \in PacketRecords
      BY <3>2, <3>3, PassOrder, EntryFacts
    <3>5. /\ f.unreliable = packets[f.packet].unreliable
          /\ packets[f.packet].unreliable > u /\ packets[f.packet].unreliable \in Nat
      BY <3>4 DEF EntryRight, InReach, PacketRecords
    <3>6. ASSUME NEW j \in 1 .. N, packets[E[j]].kind # "unsequenced"
          PROVE  packets[E[j]].unreliable <= f.unreliable
      <4>1. PICK k, e : k = a[j] /\ e = list[k]
        OBVIOUS
      <4>2. /\ k \in 1 .. Len(list) /\ k \in ReadySequenced(ch) /\ e.packet = E[j]
            /\ packets[e.packet].reliable = inc /\ packets[e.packet].unreliable \in Nat
            /\ e.kind # "unsequenced"
        <5>. HIDE DEF inc, list
        <5>. QED
          BY <1>5, <3>6, <4>1
      <4>3. k <= m
        BY <3>1, <4>2
      <4>4. CASE k = m
        BY <3>2, <3>5, <4>1, <4>2, <4>4
      <4>5. CASE k < m
        <5>1. \/ packets[e.packet].reliable < packets[f.packet].reliable
              \/ /\ packets[e.packet].reliable = packets[f.packet].reliable
                 /\ packets[e.packet].unreliable < packets[f.packet].unreliable
          <6>1. /\ k \in 1 .. Len(ch.unreliable) /\ m \in 1 .. Len(ch.unreliable)
                /\ e = ch.unreliable[k] /\ f = ch.unreliable[m]
                /\ e.kind # "unsequenced" /\ k < m
            BY <3>2, <3>3, <4>1, <4>2, <4>5
          <6>2. SentRight /\ ch \in ChannelRecords /\ ListReady(ch, keep)
            OBVIOUS
          <6>. QED
            BY ONLY <6>1, <6>2, EntryOrder
        <5>. HIDE DEF inc
        <5>. QED
          BY <1>3, <3>4, <3>5, <4>2, <5>1
      <4>6. k \in Nat /\ m \in Nat
        BY <3>3, <4>2, PassFacts
      <4>. QED
        BY <4>3, <4>4, <4>5, <4>6
    <3>. HIDE DEF u
    <3>. QED
      BY <1>3, <3>1, <3>2, <3>5, <3>6
  <2>3. \/ ReadySequenced(ch) = {} /\ d.incomingUnreliableSequenceNumber = u
        \/ \E m \in ReadySequenced(ch) :
              /\ \A x \in ReadySequenced(ch) : x <= m
              /\ d.incomingUnreliableSequenceNumber = list[m].unreliable
    BY <1>1, PassLast
  <2>. QED
    BY <2>1, <2>2, <2>3
<1>8. \A j, k \in 1 .. N :
         /\ j < k
         /\ packets[E[j]].kind # "unsequenced"
         /\ packets[E[k]].kind # "unsequenced"
         => E[j] < E[k]
  <2>. SUFFICES ASSUME NEW j \in 1 .. N, NEW k \in 1 .. N, j < k,
                       packets[E[j]].kind # "unsequenced",
                       packets[E[k]].kind # "unsequenced"
                PROVE  E[j] < E[k]
    OBVIOUS
  <2>1. PICK x, y, e, f : x = a[j] /\ y = a[k] /\ e = list[x] /\ f = list[y]
    OBVIOUS
  <2>2. /\ x \in 1 .. Len(list) /\ y \in 1 .. Len(list) /\ x < y
        /\ e.packet = E[j] /\ f.packet = E[k] /\ e.kind # "unsequenced"
    <3>. HIDE DEF list
    <3>. QED
      BY <1>4, <1>5, <2>1
  <2>3. e.packet < f.packet
    BY <2>1, <2>2, EntryOrder
  <2>. QED
    BY <2>2, <2>3
<1>9. DeliveredAs(d, D \o E)
  <2>1. DeliveredAs(ch, D)
    BY DEF DeliveredRight
  <2>2. \/ inc < d.incomingReliableSequenceNumber
        \/ /\ inc = d.incomingReliableSequenceNumber
           /\ u <= d.incomingUnreliableSequenceNumber
    BY <1>2, <1>7
  <2>3. \A k \in 1 .. Len(E) :
           packets[E[k]].kind # "unsequenced" =>
              /\ packets[E[k]].reliable >= inc
              /\ packets[E[k]].reliable = inc => packets[E[k]].unreliable > u
              /\ packets[E[k]].reliable <= d.incomingReliableSequenceNumber
              /\ packets[E[k]].reliable = d.incomingReliableSequenceNumber
                    => packets[E[k]].unreliable <= d.incomingUnreliableSequenceNumber
    <3>. HIDE DEF inc, u
    <3>. QED
      BY <1>2, <1>3, <1>4, <1>5, <1>7
  <2>4. \A q \in 1 .. Len(packets) :
           /\ packets[q].kind = "reliable"
           /\ packets[q].reliable > inc
           /\ packets[q].reliable <= d.incomingReliableSequenceNumber
           => \E k \in 1 .. Len(E) : E[k] = q
    <3>1. \A q \in 1 .. Len(packets) : packets[q].reliable \in Nat
      <4>1. \A q \in 1 .. Len(packets) : packets[q] \in PacketRecords
        BY ElementOfSeq DEF SentRight
      <4>. QED
        BY <4>1 DEF PacketRecords
    <3>. HIDE DEF inc
    <3>. QED
      BY <1>2, <1>3, <3>1
  <2>5. \A j, k \in 1 .. Len(E) :
           /\ j < k
           /\ packets[E[j]].kind # "unsequenced"
           /\ packets[E[k]].kind # "unsequenced"
           => E[j] < E[k]
    BY <1>4, <1>8
  <2>6. Continues(ch, d, E)
    BY <1>6, <2>2, <2>3, <2>4, <2>5 DEF Continues
  <2>. HIDE DEF D, E
  <2>. QED
    BY <1>2, <2>1, <2>6, DeliveredMore
<1>10. D \o E = received \o d.dispatched
  <2>1. PICK x, y, z : x = received /\ y = ch.dispatched /\ z = E
    OBVIOUS
  <2>2. x \in Seq(Nat) /\ y \in Seq(Nat) /\ z \in Seq(Nat)
    BY <1>3, <1>4, <2>1
  <2>3. (x \o y) \o z = x \o (y \o z)
    BY ONLY <2>2, ConcatAssociative, SMTT(30)
  <2>. QED
    BY <1>2, <2>1, <2>3
<1>11. DeliveredRight(d)
  BY <1>9, <1>10 DEF DeliveredRight
<1>. QED
  BY <1>1, <1>11

(* The reliable packets that came early are finitely many.                  *)
LEMMA EarlyFinite ==
    ASSUME SentRight, NEW ch, ReliableRight(ch)
    PROVE  IsFiniteSet(ch.reliable) /\ ch.reliable \subseteq 1 .. Len(packets)
<1>1. Len(packets) \in Nat
  BY LenProperties DEF SentRight
<1>2. IsFiniteSet(1 .. Len(packets))
  BY <1>1, CountUpto
<1>3. ch.reliable \in SUBSET (1 .. Len(packets))
  BY DEF ReliableRight
<1>4. IsFiniteSet(ch.reliable)
  BY <1>2, <1>3, FS_Subset
<1>. QED
  BY <1>3, <1>4

(* The pass makes a channel good that was ready for it.                     *)
LEMMA DispatchGood ==
    ASSUME SentRight, received \in Seq(Nat), NEW ch, NEW keep, ReadyFor(ch, keep)
    PROVE  Good(DispatchUnreliable(ch, keep))
<1>1. /\ ch \in ChannelRecords /\ ListReady(ch, keep) /\ ReliableRight(ch)
      /\ DeliveredRight(ch) /\ Behind(ch) /\ Waits(ch)
  BY DEF ReadyFor
<1>2. PICK d : d = DispatchUnreliable(ch, keep)
  OBVIOUS
<1>3. d \in ChannelRecords /\ ListRight(d) /\ DeliveredRight(d)
  BY <1>1, <1>2, DispatchTypes, DispatchList, DispatchDelivers
<1>4. Waits(d)
  BY <1>1, <1>2, EarlyFinite, DispatchWaits
<1>5. /\ d.incomingReliableSequenceNumber = ch.incomingReliableSequenceNumber
      /\ d.reliable = ch.reliable
  BY <1>1, <1>2, DispatchFields
<1>6. ReliableRight(d) /\ Behind(d)
  BY <1>1, <1>5 DEF ReliableRight, Behind
<1>. QED
  BY <1>2, <1>3, <1>4, <1>6 DEF Good

-----------------------------------------------------------------------------
(* The reliable packets that are next.                                      *)

NextReliable(ch) ==
    {p \in ch.reliable : \A n \in ch.incomingReliableSequenceNumber + 1 .. packets[p].reliable :
                            \E q \in ch.reliable : packets[q].reliable = n}

(* The reliable packets that are next are numbered without a gap.           *)
LEMMA NextFacts ==
    ASSUME SentRight, NEW ch \in ChannelRecords, ReliableRight(ch),
           NextReliable(ch) # {}
    PROVE  LET inc == ch.incomingReliableSequenceNumber
               M == inc + Cardinality(NextReliable(ch))
           IN  /\ IsFiniteSet(NextReliable(ch))
               /\ Cardinality(NextReliable(ch)) \in Nat
               /\ \A p \in NextReliable(ch) : packets[p].reliable \in inc + 1 .. M
               /\ \A n \in inc + 1 .. M :
                     \E p \in NextReliable(ch) : packets[p].reliable = n
               /\ \E p \in NextReliable(ch) : packets[p].reliable = M
<1>. DEFINE inc == ch.incomingReliableSequenceNumber
            early == ch.reliable
            next == NextReliable(ch)
            R(p) == packets[p].reliable
            T == {R(p) : p \in next}
<1>1. inc \in Nat
  BY DEF ChannelRecords
<1>2. /\ IsFiniteSet(early) /\ early \subseteq 1 .. Len(packets)
      /\ \A p \in early : R(p) \in Nat
  <2>1. IsFiniteSet(early) /\ early \subseteq 1 .. Len(packets)
    BY EarlyFinite
  <2>2. \A p \in early : packets[p] \in PacketRecords
    BY <2>1, ElementOfSeq DEF SentRight
  <2>. QED
    BY <2>1, <2>2 DEF PacketRecords
<1>3. \A p \in early : R(p) > inc /\ R(p) <= outgoingReliableSequenceNumber
  BY <1>2 DEF ReliableRight, SentRight
<1>4. \A p, q \in early : R(p) = R(q) => p = q
  <2>. SUFFICES ASSUME NEW p \in early, NEW q \in early, R(p) = R(q) PROVE p = q
    OBVIOUS
  <2>1. /\ p \in 1 .. Len(packets) /\ q \in 1 .. Len(packets)
        /\ packets[p].kind = "reliable" /\ packets[q].kind = "reliable"
    BY <1>2 DEF ReliableRight
  <2>2. packets[p].unreliable = 0 /\ packets[q].unreliable = 0
    BY <2>1 DEF SentRight
  <2>. QED
    BY <2>1, <2>2, PacketOrder
<1>5. next \subseteq early /\ IsFiniteSet(next)
  <2>1. next \in SUBSET early
    BY DEF NextReliable
  <2>. QED
    BY <1>2, <2>1, FS_Subset
<1>6. \A p \in early : p \in next <=>
         \A n \in inc + 1 .. R(p) : \E q \in early : R(q) = n
  BY DEF NextReliable
<1>. HIDE DEF next, R, inc, early
<1>7. \E m \in T : \A x \in T : x <= m
  <2>1. T \subseteq Nat
    BY <1>2, <1>5
  <2>2. T # {}
    BY DEF next
  <2>3. \A x \in T : x <= outgoingReliableSequenceNumber
    BY <1>3, <1>5
  <2>4. outgoingReliableSequenceNumber \in Nat
    BY DEF SentRight
  <2>. HIDE DEF T
  <2>. QED
    BY <2>1, <2>2, <2>3, <2>4, GreatestNumber
<1>8. PICK p0 \in next : \A p \in next : R(p) <= R(p0)
  BY <1>7
<1>9. R(p0) \in Nat /\ R(p0) > inc /\ \A p \in next : R(p) \in inc + 1 .. R(p0)
  BY <1>1, <1>2, <1>3, <1>5, <1>8
<1>10. ASSUME NEW n \in inc + 1 .. R(p0) PROVE \E p \in next : R(p) = n
  <2>1. PICK q \in early : R(q) = n
    BY <1>5, <1>6, <1>8
  <2>2. \A i \in inc + 1 .. R(q) : i \in inc + 1 .. R(p0)
    BY <1>1, <1>9, <2>1
  <2>3. \A i \in inc + 1 .. R(q) : \E x \in early : R(x) = i
    BY <1>5, <1>6, <1>8, <2>2
  <2>. QED
    BY <1>6, <2>1, <2>3
<1>11. Cardinality(next) = R(p0) - inc
  <2>. DEFINE m == R(p0) - inc
              f == [p \in next |-> R(p) - inc]
  <2>1. m \in Nat
    BY <1>1, <1>9
  <2>2. f \in [next -> 1 .. m]
    <3>1. \A p \in next : R(p) - inc \in 1 .. m
      BY <1>1, <1>9
    <3>. QED
      BY <3>1
  <2>3. \A p, q \in next : f[p] = f[q] => p = q
    <3>. SUFFICES ASSUME NEW p \in next, NEW q \in next, f[p] = f[q] PROVE p = q
      OBVIOUS
    <3>1. R(p) - inc = R(q) - inc /\ R(p) \in Nat /\ R(q) \in Nat
      BY <1>2, <1>5
    <3>2. R(p) = R(q)
      BY <1>1, <3>1
    <3>. QED
      BY <1>4, <1>5, <3>2
  <2>4. \A n \in 1 .. m : \E p \in next : f[p] = n
    <3>. SUFFICES ASSUME NEW n \in 1 .. m PROVE \E p \in next : f[p] = n
      OBVIOUS
    <3>1. inc + n \in inc + 1 .. R(p0)
      BY <1>1, <1>9
    <3>2. PICK p \in next : R(p) = inc + n
      BY <1>10, <3>1
    <3>3. R(p) - inc = n
      BY <1>1, <3>2
    <3>. QED
      BY <3>2, <3>3
  <2>5. f \in Bijection(next, 1 .. m)
    <3>. HIDE DEF f, m
    <3>. QED
      BY <2>2, <2>3, <2>4 DEF Bijection, Injection, Surjection, IsInjective
  <2>6. Cardinality(1 .. m) = m
    <3>. HIDE DEF m
    <3>. QED
      BY <2>1, CountUpto
  <2>. HIDE DEF f, m
  <2>7. Cardinality(1 .. m) = Cardinality(next)
    BY <1>5, <2>5, FS_Bijection DEF ExistsBijection
  <2>. QED
    BY <2>6, <2>7 DEF m
<1>12. Cardinality(next) \in Nat /\ R(p0) = inc + Cardinality(next)
  BY <1>1, <1>9, <1>11
<1>. DEFINE M == inc + Cardinality(next)
<1>13. /\ IsFiniteSet(next)
       /\ Cardinality(next) \in Nat
       /\ \A p \in next : R(p) \in inc + 1 .. M
       /\ \A n \in inc + 1 .. M : \E p \in next : R(p) = n
       /\ \E p \in next : R(p) = M
  BY <1>5, <1>8, <1>9, <1>10, <1>12
<1>. QED
  BY <1>13 DEF next, R, inc

(* The channel when they are dispatched, before the pass.                   *)
Advanced(ch) ==
    [ch EXCEPT !.incomingReliableSequenceNumber = @ + Cardinality(NextReliable(ch)),
               !.incomingUnreliableSequenceNumber = 0,
               !.reliable = @ \ NextReliable(ch),
               !.dispatched = @ \o Ascending(NextReliable(ch))]

(* Its fields, with the packets that became next in order.                  *)
LEMMA AdvancedFields ==
    ASSUME SentRight, NEW ch \in ChannelRecords, ReliableRight(ch),
           NextReliable(ch) # {}, NEW d, d = Advanced(ch)
    PROVE  /\ d \in ChannelRecords
           /\ d.incomingReliableSequenceNumber =
                 ch.incomingReliableSequenceNumber + Cardinality(NextReliable(ch))
           /\ d.incomingUnreliableSequenceNumber = 0
           /\ d.reliable = ch.reliable \ NextReliable(ch)
           /\ d.unreliable = ch.unreliable
           /\ d.dispatched = ch.dispatched \o Ascending(NextReliable(ch))
           /\ d.totalWaitingData = ch.totalWaitingData
           /\ Ascending(NextReliable(ch)) \in Seq(1 .. Len(packets))
           /\ Len(Ascending(NextReliable(ch))) = Cardinality(NextReliable(ch))
<1>. DEFINE next == NextReliable(ch)
            N == Cardinality(next)
            A == Ascending(next)
            newInc == ch.incomingReliableSequenceNumber + N
            newReliable == ch.reliable \ next
            newDispatched == ch.dispatched \o A
<1>1. next \subseteq 1 .. Len(packets) /\ IsFiniteSet(next) /\ N \in Nat
  BY EarlyFinite, NextFacts DEF NextReliable
<1>2. A \in Seq(1 .. Len(packets)) /\ Len(A) = N
  <2>1. next \subseteq Nat
    BY <1>1
  <2>2. A \in [1 .. N -> next]
    BY <1>1, <2>1, AscendingFacts
  <2>3. A \in [1 .. N -> 1 .. Len(packets)]
    BY <1>1, <2>2
  <2>. HIDE DEF A, N
  <2>. QED
    BY <1>1, <2>3
<1>3. newDispatched \in Seq(Nat)
  <2>1. A \in Seq(Nat)
    <3>1. 1 .. Len(packets) \subseteq Nat
      OBVIOUS
    <3>. HIDE DEF A
    <3>. QED
      BY <1>2, <3>1, SeqMonotonic
  <2>2. ch.dispatched \in Seq(Nat)
    BY DEF ChannelRecords
  <2>. HIDE DEF A
  <2>. QED
    BY <2>1, <2>2, ConcatProperties
<1>4. newInc \in Nat /\ newReliable \in SUBSET Nat
  BY <1>1 DEF ChannelRecords
<1>5. d = [ch EXCEPT !.incomingReliableSequenceNumber = newInc,
                     !.incomingUnreliableSequenceNumber = 0,
                     !.reliable = newReliable,
                     !.dispatched = newDispatched]
  BY DEF Advanced
<1>. HIDE DEF newInc, newReliable, newDispatched
<1>6. /\ d.incomingReliableSequenceNumber = newInc
      /\ d.incomingUnreliableSequenceNumber = 0
      /\ d.reliable = newReliable
      /\ d.unreliable = ch.unreliable
      /\ d.dispatched = newDispatched
      /\ d.totalWaitingData = ch.totalWaitingData
  BY <1>5 DEF ChannelRecords
<1>7. d \in ChannelRecords
  <2>1. /\ ch.unreliable \in Seq(EntryRecords) /\ ch.totalWaitingData \in Nat
        /\ d = [incomingReliableSequenceNumber |-> newInc,
                incomingUnreliableSequenceNumber |-> 0,
                reliable |-> newReliable,
                unreliable |-> ch.unreliable,
                dispatched |-> newDispatched,
                totalWaitingData |-> ch.totalWaitingData]
    BY <1>5 DEF ChannelRecords
  <2>. QED
    BY <1>3, <1>4, <2>1 DEF ChannelRecords
<1>. QED
  BY <1>2, <1>6, <1>7 DEF newInc, newReliable, newDispatched

(* The space of reliable packets is their number.                           *)
LEMMA SpaceReliable ==
    ASSUME NEW list \in Seq(Nat), \A k \in 1 .. Len(list) : packets[list[k]].kind = "reliable"
    PROVE  SpaceOf(list) = Len(list)
<1>1. Len(list) \in Nat /\ DOMAIN list = 1 .. Len(list)
  BY LenProperties
<1>. DEFINE L == {k \in DOMAIN list : Size(list[k]) # 1}
<1>2. L = {}
  BY <1>1 DEF Size
<1>3. Cardinality(L) = 0
  BY <1>2, FS_EmptySet
<1>4. SpaceOf(list) = Len(list) + (Fragments - 1) * Cardinality(L)
  BY DEF SpaceOf
<1>5. Fragments \in Nat
  BY UnreliableAssumption
<1>. HIDE DEF L
<1>6. PICK c, n, f : c = Cardinality(L) /\ n = Len(list) /\ f = Fragments
  OBVIOUS
<1>7. n + (f - 1) * c = n
  <2>1. n \in Nat /\ f \in Nat /\ c = 0
    BY <1>1, <1>3, <1>5, <1>6
  <2>. QED
    BY ONLY <2>1
<1>. QED
  BY ONLY <1>4, <1>6, <1>7

(* Before the pass the channel is ready for it: what waited for the last of *)
(* these packets is present, and what came before it is passed by.          *)
LEMMA AdvancedReady ==
    ASSUME SentRight, received \in Seq(Nat), NEW ch, Good(ch), NextReliable(ch) # {}
    PROVE  ReadyFor(Advanced(ch), 0)
<1>. DEFINE next == NextReliable(ch)
            N == Cardinality(next)
            A == Ascending(next)
            inc == ch.incomingReliableSequenceNumber
            M == inc + N
            D == received \o ch.dispatched
            R(p) == packets[p].reliable
<1>1. /\ ch \in ChannelRecords /\ ListRight(ch) /\ ReliableRight(ch)
      /\ DeliveredRight(ch) /\ Behind(ch) /\ Waits(ch)
  BY DEF Good
<1>2. PICK d : d = Advanced(ch)
  OBVIOUS
<1>3. /\ d \in ChannelRecords
      /\ d.incomingReliableSequenceNumber = M
      /\ d.incomingUnreliableSequenceNumber = 0
      /\ d.reliable = ch.reliable \ next
      /\ d.unreliable = ch.unreliable
      /\ d.dispatched = ch.dispatched \o A
      /\ d.totalWaitingData = ch.totalWaitingData
      /\ A \in Seq(1 .. Len(packets)) /\ Len(A) = N
  <2>1. SentRight /\ next # {}
    OBVIOUS
  <2>. QED
    BY ONLY <1>1, <1>2, <2>1, AdvancedFields
<1>4. inc \in Nat /\ M \in Nat /\ N \in Nat /\ IsFiniteSet(next)
  BY <1>1, NextFacts, SMTT(30) DEF ChannelRecords
<1>5. /\ \A p \in next : R(p) \in inc + 1 .. M
      /\ \A n \in inc + 1 .. M : \E p \in next : R(p) = n
      /\ \E p \in next : R(p) = M
  BY <1>1, NextFacts
<1>6. \A p \in 1 .. Len(packets) :
         packets[p] \in PacketRecords /\ R(p) \in Nat /\ packets[p].unreliable \in Nat
  <2>1. \A p \in 1 .. Len(packets) : packets[p] \in PacketRecords
    BY ElementOfSeq DEF SentRight
  <2>. QED
    BY <2>1 DEF PacketRecords
<1>7. /\ ch.reliable \subseteq 1 .. Len(packets) /\ IsFiniteSet(ch.reliable)
      /\ next \subseteq ch.reliable
      /\ \A p \in ch.reliable :
            /\ packets[p].kind = "reliable"
            /\ R(p) > inc
            /\ R(p) <= inc + (FreeWindows - 1) * WindowSize
  BY <1>1, EarlyFinite DEF NextReliable, ReliableRight
<1>8. \A p, q \in 1 .. Len(packets) :
         packets[p].kind = "reliable" /\ packets[q].kind = "reliable" /\ R(p) = R(q) => p = q
  <2>. SUFFICES ASSUME NEW p \in 1 .. Len(packets), NEW q \in 1 .. Len(packets),
                       packets[p].kind = "reliable", packets[q].kind = "reliable",
                       R(p) = R(q)
                PROVE  p = q
    OBVIOUS
  <2>1. packets[p].unreliable = 0 /\ packets[q].unreliable = 0
    BY DEF SentRight
  <2>. QED
    BY <2>1, PacketOrder
<1>9. PICK W \in Nat : W = (FreeWindows - 1) * WindowSize
  BY Sizes
<1>. HIDE DEF next, N, A, M, inc
<1>10. inc < M /\ M <= inc + W /\ M <= outgoingReliableSequenceNumber
  <2>1. PICK p \in next : R(p) = M
    BY <1>5
  <2>2. p \in 1 .. Len(packets) /\ packets[p].kind = "reliable"
        /\ R(p) > inc /\ R(p) <= inc + W
    BY <1>7, <1>9, <2>1
  <2>3. R(p) <= outgoingReliableSequenceNumber
    BY <2>2 DEF SentRight
  <2>. QED
    BY <2>1, <2>2, <2>3
<1>11. ListReady(d, 0)
  <2>1. ASSUME NEW k \in 1 .. Len(ch.unreliable), NEW e, e = ch.unreliable[k]
        PROVE  EntryRight(e) /\ InReach(d, e.packet) /\ e.packet # 0
    <3>1. /\ EntryRight(e) /\ e.packet \in 1 .. Len(packets) /\ e.kind # "unsequenced"
          /\ InReach(ch, e.packet) /\ R(e.packet) >= inc
      <4>1. e.kind # "unsequenced" /\ R(e.packet) >= inc
        BY <1>1, <2>1 DEF ListRight, inc
      <4>2. ListReady(ch, 0)
        BY <1>1 DEF ListRight
      <4>. QED
        BY <1>1, <2>1, <4>1, <4>2, EntryFacts
    <3>. DEFINE r == R(e.packet)
    <3>2. r \in Nat
      BY <1>6, <3>1
    <3>3. M <= r + (FreeWindows - 1) * WindowSize
      <4>1. M <= r + W
        <5>. HIDE DEF r
        <5>. QED
          BY <1>4, <1>10, <3>1, <3>2 DEF r
      <4>. QED
        BY <1>9, <4>1
    <3>4. Window(r) <= Window(M) + FreeWindows - 2
      <4>1. Window(r) <= Window(inc) + FreeWindows - 2
        BY <3>1 DEF InReach, inc
      <4>2. Window(inc) <= Window(M)
        <5>1. inc <= M /\ WindowSize \in Nat \ {0}
          BY <1>4, <1>10, Sizes
        <5>. QED
          BY <1>4, <5>1, QuotientOrder DEF Window
      <4>3. Window(r) \in Nat /\ Window(inc) \in Nat /\ Window(M) \in Nat /\ FreeWindows \in Nat
        BY <1>4, <3>2, Sizes
      <4>. QED
        BY <4>1, <4>2, <4>3
    <3>5. packets[e.packet].unreliable > 0
      <4>1. packets[e.packet].unreliable \in Nat
        BY <1>6, <3>1
      <4>2. packets[e.packet].kind # "reliable" /\ packets[e.packet].kind # "unsequenced"
        BY <3>1 DEF EntryRight
      <4>3. packets[e.packet].unreliable # 0
        BY <3>1, <4>2 DEF SentRight
      <4>. QED
        BY <4>1, <4>3
    <3>6. InReach(d, e.packet)
      BY <1>3, <3>3, <3>4, <3>5 DEF InReach
    <3>. QED
      BY <3>1, <3>6
  <2>2. \A j, k \in 1 .. Len(ch.unreliable) :
          j < k => /\ ch.unreliable[k].kind # "unsequenced"
                   /\ ch.unreliable[j].kind # "unsequenced"
                         => ch.unreliable[j].packet < ch.unreliable[k].packet
    BY <1>1 DEF ListRight, ListReady
  <2>3. ASSUME NEW k \in 1 .. Len(d.unreliable)
        PROVE  LET e == d.unreliable[k]
               IN  /\ EntryRight(e)
                   /\ e.kind # "unsequenced" => InReach(d, e.packet)
                   /\ e.packet = 0 /\ e.kind # "unsequenced"
                         => packets[e.packet].reliable >= d.incomingReliableSequenceNumber
                   /\ 0 # 0 /\ e.missing = {} /\ IsPresent(d, e) => e.packet = 0
    BY <1>3, <2>1
  <2>. QED
    BY <1>3, <2>2, <2>3 DEF ListReady
<1>12. ReliableRight(d)
  <2>1. ASSUME NEW p \in d.reliable
        PROVE  /\ p \in 1 .. Len(packets) /\ packets[p].kind = "reliable"
               /\ R(p) > M /\ R(p) <= M + W
    <3>1. /\ p \in ch.reliable /\ p \notin next /\ p \in 1 .. Len(packets)
          /\ packets[p].kind = "reliable" /\ R(p) > inc /\ R(p) <= inc + W
          /\ R(p) \in Nat
      BY <1>3, <1>6, <1>7, <1>9
    <3>2. ~ (R(p) <= M)
      <4>1. SUFFICES ASSUME R(p) <= M PROVE FALSE
        OBVIOUS
      <4>2. R(p) \in inc + 1 .. M
        BY <1>4, <3>1, <4>1
      <4>3. PICK q \in next : R(q) = R(p)
        BY <1>5, <4>2
      <4>4. q \in 1 .. Len(packets) /\ packets[q].kind = "reliable"
        BY <1>7
      <4>5. q = p
        BY <1>8, <3>1, <4>3, <4>4
      <4>. QED
        BY <3>1, <4>5
    <3>. HIDE DEF R
    <3>. QED
      BY <1>4, <1>10, <3>1, <3>2
  <2>. QED
    BY <1>3, <1>9, <2>1 DEF ReliableRight
<1>13. DeliveredRight(d)
  <2>1. DeliveredAs(ch, D)
    BY <1>1 DEF DeliveredRight
  <2>2. /\ A \in [1 .. N -> next]
        /\ \A j, k \in 1 .. N : j < k => A[j] < A[k]
        /\ \A q \in next : \E k \in 1 .. N : A[k] = q
    <3>1. next \subseteq Nat
      BY <1>7
    <3>. QED
      BY <1>4, <3>1, AscendingFacts DEF A, N
  <2>3. \A k \in 1 .. Len(A) :
           packets[A[k]].kind # "unsequenced" =>
              /\ packets[A[k]].reliable >= ch.incomingReliableSequenceNumber
              /\ packets[A[k]].reliable = ch.incomingReliableSequenceNumber
                    => packets[A[k]].unreliable > ch.incomingUnreliableSequenceNumber
              /\ packets[A[k]].reliable <= d.incomingReliableSequenceNumber
              /\ packets[A[k]].reliable = d.incomingReliableSequenceNumber
                    => packets[A[k]].unreliable <= d.incomingUnreliableSequenceNumber
    <3>. SUFFICES ASSUME NEW k \in 1 .. Len(A)
                  PROVE  /\ R(A[k]) >= inc /\ R(A[k]) # inc
                         /\ R(A[k]) <= M /\ packets[A[k]].unreliable <= 0
      BY <1>3 DEF inc
    <3>1. PICK p : p = A[k]
      OBVIOUS
    <3>2. p \in next /\ p \in 1 .. Len(packets) /\ packets[p].kind = "reliable"
      BY <1>3, <1>7, <2>2, <3>1
    <3>3. packets[p].unreliable = 0
      BY <3>2 DEF SentRight
    <3>4. R(p) \in inc + 1 .. M
      BY <1>5, <3>2
    <3>5. R(p) >= inc /\ R(p) # inc /\ R(p) <= M
      BY <1>4, <3>4
    <3>. QED
      BY <3>1, <3>3, <3>5
  <2>4. \A q \in 1 .. Len(packets) :
           /\ packets[q].kind = "reliable"
           /\ packets[q].reliable > ch.incomingReliableSequenceNumber
           /\ packets[q].reliable <= d.incomingReliableSequenceNumber
           => \E k \in 1 .. Len(A) : A[k] = q
    <3>. SUFFICES ASSUME NEW q \in 1 .. Len(packets), packets[q].kind = "reliable",
                         R(q) > inc, R(q) <= M
                  PROVE  \E k \in 1 .. Len(A) : A[k] = q
      BY <1>3 DEF inc
    <3>1. R(q) \in inc + 1 .. M
      BY <1>4, <1>6
    <3>2. PICK p \in next : R(p) = R(q)
      BY <1>5, <3>1
    <3>3. p = q
      BY <1>7, <1>8, <3>2
    <3>4. PICK k \in 1 .. N : A[k] = p
      BY <2>2, <3>2
    <3>. QED
      BY <1>3, <3>3, <3>4
  <2>5. \A j, k \in 1 .. Len(A) :
           /\ j < k
           /\ packets[A[j]].kind # "unsequenced"
           /\ packets[A[k]].kind # "unsequenced"
           => A[j] < A[k]
    BY <1>3, <2>2
  <2>6. ch.incomingReliableSequenceNumber < d.incomingReliableSequenceNumber
    BY <1>3, <1>10 DEF inc
  <2>7. DeliveredAs(d, D \o A)
    <3>1. Continues(ch, d, A)
      BY <1>3, <2>3, <2>4, <2>5, <2>6 DEF Continues
    <3>. HIDE DEF D, A
    <3>. QED
      BY <1>1, <1>3, <2>1, <3>1, DeliveredMore
  <2>8. D \o A = received \o d.dispatched
    <3>1. PICK x, y, z : x = received /\ y = ch.dispatched /\ z = A
      OBVIOUS
    <3>2. z \in Seq(Nat)
      <4>1. 1 .. Len(packets) \subseteq Nat
        OBVIOUS
      <4>. QED
        BY <1>3, <3>1, <4>1, SeqMonotonic
    <3>3. x \in Seq(Nat) /\ y \in Seq(Nat)
      BY <1>1, <3>1 DEF ChannelRecords
    <3>4. (x \o y) \o z = x \o (y \o z)
      BY ONLY <3>2, <3>3, ConcatAssociative, SMTT(30)
    <3>. QED
      BY <1>3, <3>1, <3>4
  <2>. QED
    BY <2>7, <2>8 DEF DeliveredRight
<1>14. Behind(d)
  <2>1. outgoingReliableSequenceNumber \in Nat /\ Backlog \in Nat
    <3>1. (Windows - 1) * WindowSize \in Int
      BY Sizes
    <3>. QED
      BY <3>1, UnreliableAssumption DEF SentRight
  <2>2. outgoingReliableSequenceNumber <= inc + Backlog
    BY <1>1 DEF Behind, inc
  <2>3. outgoingReliableSequenceNumber <= M + Backlog
    BY <1>4, <1>10, <2>1, <2>2
  <2>. QED
    BY <1>3, <1>10, <2>3 DEF Behind
<1>15. Waits(d)
  <2>1. SpaceOf(A) = N
    <3>1. A \in Seq(Nat)
      <4>1. 1 .. Len(packets) \subseteq Nat
        OBVIOUS
      <4>. QED
        BY <1>3, <4>1, SeqMonotonic
    <3>2. \A k \in 1 .. Len(A) : packets[A[k]].kind = "reliable"
      <4>1. A \in [1 .. N -> next]
        <5>1. next \subseteq Nat
          BY <1>7
        <5>. QED
          BY <1>4, <5>1, AscendingFacts DEF A, N
      <4>. QED
        BY <1>3, <1>7, <4>1
    <3>. QED
      BY <1>3, <3>1, <3>2, SpaceReliable
  <2>2. SpaceOf(d.dispatched) = SpaceOf(ch.dispatched) + N
    <3>1. A \in Seq(Nat)
      <4>1. 1 .. Len(packets) \subseteq Nat
        OBVIOUS
      <4>. QED
        BY <1>3, <4>1, SeqMonotonic
    <3>2. ch.dispatched \in Seq(Nat)
      BY <1>1 DEF ChannelRecords
    <3>3. SpaceOf(ch.dispatched \o A) = SpaceOf(ch.dispatched) + SpaceOf(A)
      BY <3>1, <3>2, SpaceConcat
    <3>. QED
      BY <1>3, <2>1, <3>3
  <2>3. Cardinality(ch.reliable) = Cardinality(d.reliable) + N
        /\ Cardinality(d.reliable) \in Nat
    <3>. DEFINE S == ch.reliable \ next
    <3>1. IsFiniteSet(S)
      <4>1. S \in SUBSET ch.reliable
        OBVIOUS
      <4>. HIDE DEF S
      <4>. QED
        BY <1>7, <4>1, FS_Subset
    <3>2. S \cup next = ch.reliable /\ S \cap next = {}
      BY <1>7
    <3>. HIDE DEF S
    <3>3. Cardinality(S \cup next) =
             Cardinality(S) + Cardinality(next) - Cardinality(S \cap next)
      BY <1>4, <3>1, FS_Union
    <3>4. Cardinality(S \cap next) = 0
      BY <3>2, FS_EmptySet
    <3>5. Cardinality(S) \in Nat
      BY <3>1, FS_CardinalityType
    <3>6. Cardinality(ch.reliable) = Cardinality(S) + Cardinality(next)
      <4>1. PICK a, b, c : a = Cardinality(S) /\ b = Cardinality(next)
                           /\ c = Cardinality(ch.reliable)
        OBVIOUS
      <4>2. c = a + b - 0
        BY <3>2, <3>3, <3>4, <4>1
      <4>3. a \in Nat /\ b \in Nat
        BY <1>4, <3>5, <4>1 DEF N
      <4>4. c = a + b
        BY <4>2, <4>3
      <4>. QED
        BY <4>1, <4>4
    <3>7. d.reliable = S
      BY <1>3 DEF S
    <3>. QED
      BY <3>5, <3>6, <3>7 DEF N
  <2>. DEFINE s == SpaceOf(PacketsOf(ch.unreliable))
              t == SpaceOf(ch.dispatched)
  <2>4. s \in Nat /\ t \in Nat
    BY <1>1, PacketsFacts, SpaceFacts DEF ChannelRecords
  <2>5. ch.totalWaitingData = s + Cardinality(ch.reliable) + t
    BY <1>1 DEF Waits
  <2>. HIDE DEF s, t
  <2>6. d.totalWaitingData = s + Cardinality(d.reliable) + (t + N)
    BY <1>3, <1>4, <2>3, <2>4, <2>5
  <2>. QED
    BY <1>3, <2>2, <2>6 DEF Waits, s, t
<1>. QED
  BY <1>2, <1>3, <1>11, <1>12, <1>13, <1>14, <1>15 DEF ReadyFor

(* enet_peer_dispatch_incoming_reliable_commands keeps the channel good.    *)
LEMMA DispatchReliableGood ==
    ASSUME SentRight, received \in Seq(Nat), NEW ch, Good(ch)
    PROVE  Good(DispatchReliable(ch))
<1>1. DispatchReliable(ch) =
         IF NextReliable(ch) = {} THEN ch ELSE DispatchUnreliable(Advanced(ch), 0)
  BY DEF DispatchReliable, NextReliable, Advanced
<1>2. CASE NextReliable(ch) = {}
  BY <1>1, <1>2
<1>3. CASE NextReliable(ch) # {}
  BY <1>1, <1>3, AdvancedReady, DispatchGood
<1>. QED
  BY <1>2, <1>3

-----------------------------------------------------------------------------
(* What arrives.                                                            *)

(* A reliable packet that came early or is next is one more that waits.     *)
LEMMA EarlyGood ==
    ASSUME SentRight, NEW ch, Good(ch), NEW p \in 1 .. Len(packets),
           packets[p].kind = "reliable", p \notin ch.reliable,
           packets[p].reliable - ch.incomingReliableSequenceNumber
              \in 1 .. (FreeWindows - 1) * WindowSize
    PROVE  Good([ch EXCEPT !.reliable = @ \cup {p}, !.totalWaitingData = @ + 1])
<1>. DEFINE newReliable == ch.reliable \cup {p}
            newWaiting == ch.totalWaitingData + 1
<1>1. /\ ch \in ChannelRecords /\ ListRight(ch) /\ ReliableRight(ch)
      /\ DeliveredRight(ch) /\ Behind(ch) /\ Waits(ch)
  BY DEF Good
<1>2. PICK d : d = [ch EXCEPT !.reliable = @ \cup {p}, !.totalWaitingData = @ + 1]
  OBVIOUS
<1>3. d = [ch EXCEPT !.reliable = newReliable, !.totalWaitingData = newWaiting]
  BY <1>2
<1>4. newReliable \in SUBSET Nat /\ newWaiting \in Nat
  BY <1>1 DEF ChannelRecords
<1>. HIDE DEF newReliable, newWaiting
<1>5. /\ d.incomingReliableSequenceNumber = ch.incomingReliableSequenceNumber
      /\ d.incomingUnreliableSequenceNumber = ch.incomingUnreliableSequenceNumber
      /\ d.reliable = newReliable
      /\ d.unreliable = ch.unreliable
      /\ d.dispatched = ch.dispatched
      /\ d.totalWaitingData = newWaiting
  BY <1>1, <1>3 DEF ChannelRecords
<1>6. d \in ChannelRecords
  BY <1>1, <1>3, <1>4 DEF ChannelRecords
<1>7. ListRight(d)
  BY <1>1, <1>5 DEF ListRight, ListReady, InReach, IsPresent, Incoming
<1>8. ReliableRight(d)
  <2>1. packets[p].reliable \in Nat
    <3>1. packets[p] \in PacketRecords
      BY ElementOfSeq DEF SentRight
    <3>. QED
      BY <3>1 DEF PacketRecords
  <2>. DEFINE r == packets[p].reliable
              inc == ch.incomingReliableSequenceNumber
              W == (FreeWindows - 1) * WindowSize
  <2>2. inc \in Nat /\ W \in Nat
    BY <1>1, Sizes DEF ChannelRecords
  <2>3. r - inc \in 1 .. W
    OBVIOUS
  <2>. HIDE DEF r, inc, W
  <2>4. r > inc /\ r <= inc + W
    BY <2>1, <2>2, <2>3 DEF r
  <2>. QED
    BY <1>1, <1>5, <2>4 DEF ReliableRight, newReliable, r, inc, W
<1>9. DeliveredRight(d) /\ Behind(d)
  <2>1. Behind(d)
    BY <1>1, <1>5 DEF Behind
  <2>2. PICK list : list = received \o ch.dispatched
    OBVIOUS
  <2>3. DeliveredAs(ch, list)
    BY <1>1, <2>2 DEF DeliveredRight
  <2>4. DeliveredAs(d, list)
    BY <1>5, <2>3 DEF DeliveredAs
  <2>. QED
    BY <1>5, <2>1, <2>2, <2>4 DEF DeliveredRight
<1>10. Waits(d)
  <2>1. Cardinality(newReliable) = Cardinality(ch.reliable) + 1
        /\ Cardinality(ch.reliable) \in Nat
    <3>1. IsFiniteSet(ch.reliable)
      BY <1>1, EarlyFinite
    <3>. QED
      BY <3>1, FS_AddElement, FS_CardinalityType DEF newReliable
  <2>. DEFINE s == SpaceOf(PacketsOf(ch.unreliable))
              t == SpaceOf(ch.dispatched)
              c == Cardinality(ch.reliable)
  <2>2. s \in Nat /\ t \in Nat
    BY <1>1, PacketsFacts, SpaceFacts DEF ChannelRecords
  <2>3. ch.totalWaitingData = s + c + t
    BY <1>1 DEF Waits
  <2>4. newWaiting = ch.totalWaitingData + 1 /\ c \in Nat
    BY <2>1 DEF newWaiting
  <2>. HIDE DEF s, t, c
  <2>5. newWaiting = s + (c + 1) + t
    BY <2>2, <2>3, <2>4
  <2>. QED
    BY <1>5, <2>1, <2>5 DEF Waits, s, t, c
<1>11. Good(d)
  BY <1>6, <1>7, <1>8, <1>9, <1>10 DEF Good
<1>. QED
  BY <1>2, <1>11

(* The entry of a packet.                                                   *)
LEMMA EntryOf ==
    ASSUME SentRight, NEW p \in 1 .. Len(packets), packets[p].kind # "reliable"
    PROVE  /\ Entry(p) \in EntryRecords
           /\ EntryRight(Entry(p))
           /\ Entry(p).packet = p
           /\ Entry(p).kind = packets[p].kind
           /\ Entry(p).reliable = Wire(packets[p].reliable)
           /\ Entry(p).unreliable = packets[p].unreliable
           /\ packets[p].kind = "fragments" => Entry(p).missing # {}
           /\ p \in Nat /\ p # 0
           /\ packets[p].reliable \in Nat /\ packets[p].unreliable \in Nat
<1>1. packets[p] \in PacketRecords /\ p \in Nat /\ p # 0
  <2>1. Len(packets) \in Nat
    BY LenProperties DEF SentRight
  <2>. QED
    BY <2>1, ElementOfSeq DEF SentRight
<1>2. packets[p].reliable \in Nat /\ packets[p].unreliable \in Nat
      /\ packets[p].kind \in AllKinds
  BY <1>1 DEF PacketRecords
<1>3. Wire(packets[p].reliable) \in Nat
  BY <1>2, Sizes
<1>4. Fragments \in Nat /\ Fragments > 1
  BY UnreliableAssumption
<1>. DEFINE all == 1 .. FragmentCount(p)
<1>5. /\ all \in SUBSET Nat
      /\ packets[p].kind # "fragments" => all = {}
      /\ packets[p].kind = "fragments" => all # {}
  <2>1. CASE packets[p].kind = "fragments"
    <3>1. FragmentCount(p) = Fragments
      BY <2>1 DEF FragmentCount
    <3>2. 1 \in all
      BY <1>4, <3>1
    <3>3. all \in SUBSET Nat
      BY <1>4, <3>1
    <3>. HIDE DEF all
    <3>. QED
      BY <2>1, <3>2, <3>3
  <2>2. CASE packets[p].kind # "fragments"
    <3>1. FragmentCount(p) = 0
      BY <2>2 DEF FragmentCount
    <3>2. all = {}
      BY <3>1
    <3>. QED
      BY <2>2, <3>2
  <2>. QED
    BY <2>1, <2>2
<1>6. Entry(p) = [kind       |-> packets[p].kind,
                  reliable   |-> Wire(packets[p].reliable),
                  unreliable |-> packets[p].unreliable,
                  missing    |-> all,
                  packet     |-> p,
                  from       |-> {}]
  BY DEF Entry
<1>. HIDE DEF all
<1>7. Entry(p) \in EntryRecords
  BY <1>1, <1>2, <1>3, <1>5, <1>6 DEF EntryRecords
<1>8. EntryRight(Entry(p))
  BY <1>5, <1>6 DEF EntryRight
<1>. QED
  BY <1>1, <1>2, <1>5, <1>6, <1>7, <1>8

(* What the network still delivers, and is not too late, was not passed by. *)
LEMMA Arrives ==
    ASSUME SentRight, NEW ch \in ChannelRecords, Behind(ch), NEW p \in 1 .. Len(packets),
           packets[p].kind \in {"unreliable", "fragments"},
           MayArrive(p), ~ IsTooLate(ch, Entry(p))
    PROVE  /\ packets[p].reliable >= ch.incomingReliableSequenceNumber
           /\ InReach(ch, p)
<1>. DEFINE r == packets[p].reliable
            inc == ch.incomingReliableSequenceNumber
            out == outgoingReliableSequenceNumber
            F == FreeWindows
            S == WindowSize
            a == Window(r)
            b == Window(inc)
            W == WindowsAhead(Wire(r), Wire(inc))
<1>1. /\ Entry(p).reliable = Wire(r) /\ Entry(p).unreliable = packets[p].unreliable
      /\ r \in Nat /\ packets[p].unreliable \in Nat
  BY EntryOf
<1>2. inc \in Nat /\ out \in Nat
  BY DEF ChannelRecords, SentRight
<1>3. inc <= out /\ out <= inc + Backlog
  BY DEF Behind
<1>4. out - r <= Lifetime
  BY DEF MayArrive
<1>5. r <= out
  BY DEF SentRight
<1>6. /\ W \in 0 .. F - 2
      /\ Wire(r) = Wire(inc)
            => ~ (packets[p].unreliable <= ch.incomingUnreliableSequenceNumber)
  BY <1>1 DEF IsTooLate, Incoming, InReceiveWindow
<1>7. /\ S \in Nat \ {0} /\ F \in Nat /\ F >= 2 /\ Windows = 2 * F
      /\ a \in Nat /\ b \in Nat
  BY <1>1, <1>2, Sizes
<1>8. Lifetime <= (F + 1) * S /\ Backlog <= (Windows - 1) * S /\ Lifetime \in Nat
      /\ Backlog \in Nat
  <2>1. (F + 1) * S \in Int /\ (Windows - 1) * S \in Int
    BY <1>7
  <2>. QED
    BY <2>1, UnreliableAssumption
<1>. HIDE DEF r, inc, out, F, S, a, b, W
<1>9. r >= inc
  <2>. SUFFICES ASSUME r < inc PROVE FALSE
    BY <1>1, <1>2
  <2>1. inc <= r + S * (F + 1)
    <3>1. (F + 1) * S = S * (F + 1) /\ S * (F + 1) \in Int
      BY <1>7
    <3>. QED
      BY <1>1, <1>2, <1>3, <1>4, <1>8, <3>1
  <2>2. b <= a + (F + 1)
    <3>. DEFINE k == F + 1
    <3>1. k \in Int /\ inc <= r + S * k
      BY <1>7, <2>1
    <3>. HIDE DEF k
    <3>2. inc \div S <= r \div S + k
      BY <1>1, <1>2, <1>7, <3>1, QuotientBound
    <3>. QED
      BY <3>2 DEF k, a, b, Window, S
  <2>3. b - a < Windows \/ b - a = Windows
    BY <1>7, <2>2
  <2>4. CASE b - a < Windows
    <3>1. W = Windows - (b - a)
      BY <1>1, <1>2, <2>4, BehindOnCircle DEF W, a, b, Window
    <3>. QED
      BY <1>6, <1>7, <2>2, <3>1
  <2>5. CASE F + 1 < Windows
    <3>1. b - a < Windows
      BY <1>7, <2>2, <2>5
    <3>. QED
      BY <2>4, <3>1
  <2>. QED
    BY <1>7, <2>5
<1>10. W = a - b
  <2>1. r <= inc + S * (Windows - 1)
    <3>1. (Windows - 1) * S = S * (Windows - 1) /\ S * (Windows - 1) \in Int
      BY <1>7
    <3>. QED
      BY <1>1, <1>2, <1>3, <1>5, <1>8, <3>1
  <2>2. a <= b + (Windows - 1)
    <3>. DEFINE k == Windows - 1
    <3>1. k \in Int /\ r <= inc + S * k
      BY <1>7, <2>1
    <3>. HIDE DEF k
    <3>2. r \div S <= inc \div S + k
      BY <1>1, <1>2, <1>7, <3>1, QuotientBound
    <3>. QED
      BY <3>2 DEF k, a, b, Window, S
  <2>3. inc <= r /\ a - b < Windows
    BY <1>1, <1>2, <1>7, <1>9, <2>2
  <2>. QED
    BY <1>1, <1>2, <2>3, AheadOnCircle DEF W, a, b, Window
<1>11. a <= b + F - 2
  BY <1>6, <1>7, <1>10
<1>12. inc <= r + (F - 1) * S
  <2>1. (F - 1) * S \in Nat
    BY <1>7
  <2>. QED
    BY <1>1, <1>2, <1>9, <2>1
<1>13. r = inc => packets[p].unreliable > ch.incomingUnreliableSequenceNumber
  <2>1. ch.incomingUnreliableSequenceNumber \in Nat
    BY DEF ChannelRecords
  <2>. QED
    BY <1>1, <1>6, <2>1
<1>. QED
  BY <1>9, <1>11, <1>12, <1>13 DEF InReach, r, inc, F, S, a, b

-----------------------------------------------------------------------------
(* The scan of the list.                                                    *)

(* When the scan stops at an entry with the numbers y and v, on its way for *)
(* one with x and u, when i was the last one dispatched.                    *)
StopsOn(x, u, y, v, i) ==
    IF (x >= i) = (y >= i) THEN y < x \/ (y = x /\ v <= u) ELSE x < i

StopsAt(ch, d, e) ==
    StopsOn(d.reliable, d.unreliable, e.reliable, e.unreliable, Incoming(ch))

(* Of numbers within a circle from the last one dispatched on, the scan     *)
(* stops at those that are not behind the one it is for.                    *)
LEMMA StopsOnCircle ==
    ASSUME NEW inc \in Nat, NEW r \in Nat, NEW s \in Nat, NEW u \in Nat, NEW v \in Nat,
           inc <= r, inc <= s, r < inc + Circle, s < inc + Circle
    PROVE  /\ StopsOn(Wire(r), u, Wire(s), v, Wire(inc)) <=> (s < r \/ (s = r /\ v <= u))
           /\ Wire(r) = Wire(s) <=> r = s
<1>. DEFINE x == Wire(r)
            y == Wire(s)
            i == Wire(inc)
            C == Circle
<1>1. /\ x \in 0 .. C - 1 /\ y \in 0 .. C - 1 /\ i \in 0 .. C - 1 /\ C \in Nat \ {0}
      /\ r < inc + C /\ s < inc + C
  BY Sizes, WindowOnLine
<1>2. \/ x = i + (r - inc)
      \/ x = i + (r - inc) - C /\ x < i
  BY Rounds
<1>3. \/ y = i + (s - inc)
      \/ y = i + (s - inc) - C /\ y < i
  BY Rounds
<1>. HIDE DEF x, y, i, C
<1>4. x >= i \/ x < i
  BY <1>1
<1>5. y >= i \/ y < i
  BY <1>1
<1>6. CASE x >= i /\ y >= i
  <2>1. x = i + (r - inc) /\ y = i + (s - inc)
    BY <1>1, <1>2, <1>3, <1>6
  <2>2. /\ y < x <=> s < r
        /\ y = x <=> s = r
    BY <1>1, <2>1
  <2>3. (x >= i) = (y >= i)
    BY <1>6
  <2>. QED
    BY <2>2, <2>3 DEF x, y, i, StopsOn
<1>7. CASE x < i /\ y < i
  <2>1. x = i + (r - inc) - C /\ y = i + (s - inc) - C
    BY <1>1, <1>2, <1>3, <1>7
  <2>2. /\ y < x <=> s < r
        /\ y = x <=> s = r
    BY <1>1, <2>1
  <2>3. (x >= i) = (y >= i)
    BY <1>1, <1>7
  <2>. QED
    BY <2>2, <2>3 DEF x, y, i, StopsOn
<1>8. CASE x >= i /\ y < i
  <2>1. x = i + (r - inc) /\ y = i + (s - inc) - C
    BY <1>1, <1>2, <1>3, <1>8
  <2>2. r < s /\ x # y /\ ~ (x < i)
    BY <1>1, <1>8, <2>1
  <2>3. (x >= i) # (y >= i)
    BY <1>1, <1>8
  <2>4. r # s /\ ~ (s < r)
    BY <2>2
  <2>. QED
    BY <2>2, <2>3, <2>4 DEF x, y, i, StopsOn
<1>9. CASE x < i /\ y >= i
  <2>1. x = i + (r - inc) - C /\ y = i + (s - inc)
    BY <1>1, <1>2, <1>3, <1>9
  <2>2. s < r /\ x # y
    BY <1>1, <1>9, <2>1
  <2>3. (x >= i) # (y >= i)
    BY <1>1, <1>9
  <2>4. r # s
    BY <2>2
  <2>. QED
    BY <1>9, <2>2, <2>3, <2>4 DEF x, y, i, StopsOn
<1>. QED
  BY <1>4, <1>5, <1>6, <1>7, <1>8, <1>9

(* Where it stops: at the last such entry, or at the front.                 *)
LEMMA ScanRange ==
    ASSUME NEW ch \in ChannelRecords, NEW d
    PROVE  /\ ScanStop(ch, d) \in 0 .. Len(ch.unreliable)
           /\ ScanStop(ch, d) # 0 => StopsAt(ch, d, ch.unreliable[ScanStop(ch, d)])
           /\ \A k \in 1 .. Len(ch.unreliable) :
                 StopsAt(ch, d, ch.unreliable[k]) => k <= ScanStop(ch, d)
<1>. DEFINE list == ch.unreliable
            t == ScanStop(ch, d)
            I == {k \in 1 .. Len(list) : StopsAt(ch, d, list[k])}
<1>1. Len(list) \in Nat
  BY LenProperties DEF ChannelRecords
<1>2. t = IF I # {} THEN Max(I) ELSE 0
  BY DEF ScanStop, SelectLastInSeq, StopsAt, StopsOn
<1>3. CASE I = {}
  BY <1>1, <1>2, <1>3
<1>4. CASE I # {}
  <2>1. I \subseteq Nat /\ \A k \in I : k <= Len(list)
    BY <1>1
  <2>2. \E m \in I : \A x \in I : x <= m
    <3>. HIDE DEF I
    <3>. QED
      BY <1>1, <1>4, <2>1, GreatestNumber
  <2>3. t \in I /\ \A x \in I : x <= t
    <3>1. t = CHOOSE x \in I : \A y \in I : x >= y
      BY <1>2, <1>4 DEF Max
    <3>2. \E x \in I : \A y \in I : x >= y
      BY <2>1, <2>2
    <3>. HIDE DEF I, t
    <3>3. t \in I /\ \A y \in I : t >= y
      BY <3>1, <3>2
    <3>. QED
      BY <2>1, <3>3
  <2>4. t \in 1 .. Len(list) /\ StopsAt(ch, d, list[t])
    <3>. HIDE DEF t
    <3>. QED
      BY <2>3
  <2>5. \A k \in 1 .. Len(list) : StopsAt(ch, d, list[k]) => k <= t
    BY <2>3
  <2>6. t \in 0 .. Len(list)
    <3>. HIDE DEF t, list
    <3>. QED
      BY <1>1, <2>4
  <2>. QED
    BY <2>4, <2>5, <2>6
<1>. QED
  BY <1>3, <1>4

(* The scan for a sequenced packet that is not too late stops at the last   *)
(* entry of a packet not behind it, so it finds the packet if it is there.  *)
LEMMA ScanFacts ==
    ASSUME SentRight, NEW ch \in ChannelRecords, ListRight(ch),
           NEW p \in 1 .. Len(packets), packets[p].kind \in {"unreliable", "fragments"},
           packets[p].reliable >= ch.incomingReliableSequenceNumber, InReach(ch, p)
    PROVE  /\ ScanStop(ch, Entry(p)) \in 0 .. Len(ch.unreliable)
           /\ \A k \in 1 .. Len(ch.unreliable) :
                 ch.unreliable[k].packet <= p <=> k <= ScanStop(ch, Entry(p))
           /\ IsQueued(ch, Entry(p)) <=>
                 /\ ScanStop(ch, Entry(p)) # 0
                 /\ ch.unreliable[ScanStop(ch, Entry(p))].packet = p
<1>. DEFINE list == ch.unreliable
            d == Entry(p)
            t == ScanStop(ch, d)
            inc == ch.incomingReliableSequenceNumber
<1>1. /\ inc \in Nat /\ Len(list) \in Nat /\ ListReady(ch, 0)
      /\ Incoming(ch) = Wire(inc)
  BY LenProperties DEF ChannelRecords, ListRight, Incoming
<1>2. /\ packets[p].reliable \in Nat /\ packets[p].unreliable \in Nat
      /\ d.reliable = Wire(packets[p].reliable) /\ d.unreliable = packets[p].unreliable
      /\ p \in Nat
  BY EntryOf
<1>3. ASSUME NEW q \in 1 .. Len(packets), packets[q].reliable \in Nat,
             packets[q].reliable >= inc, InReach(ch, q)
      PROVE  packets[q].reliable < inc + Circle
  <2>. DEFINE r == packets[q].reliable
              a == Window(r)
              b == Window(inc)
  <2>1. a \in Nat /\ b \in Nat /\ FreeWindows \in Nat /\ Windows = 2 * FreeWindows
        /\ FreeWindows >= 2
    BY <1>1, <1>3, Sizes
  <2>2. a <= b + FreeWindows - 2
    BY <1>3 DEF InReach
  <2>3. r \in Nat
    BY <1>3
  <2>. HIDE DEF a, b, r
  <2>4. a - b < Windows
    BY <2>1, <2>2
  <2>5. r < inc + Circle
    BY <1>1, <2>3, <2>4, WithinCircle DEF a, b, Window
  <2>. QED
    BY <2>5 DEF r
<1>4. packets[p].reliable < inc + Circle
  BY <1>2, <1>3
<1>5. ASSUME NEW k \in 1 .. Len(list)
      PROVE  /\ StopsAt(ch, d, list[k]) <=> list[k].packet <= p
             /\ list[k].packet = p <=> /\ list[k].reliable = d.reliable
                                       /\ list[k].unreliable = d.unreliable
  <2>1. PICK e : e = list[k]
    OBVIOUS
  <2>2. PICK q : q = e.packet
    OBVIOUS
  <2>3. /\ q \in 1 .. Len(packets) /\ packets[q].kind # "unsequenced"
        /\ InReach(ch, q) /\ packets[q].reliable >= inc
        /\ e.reliable = Wire(packets[q].reliable) /\ e.unreliable = packets[q].unreliable
    <3>1. EntryRight(e) /\ (e.kind # "unsequenced" => InReach(ch, q))
      BY <1>1, <2>1, <2>2, EntryFacts
    <3>2. e.kind # "unsequenced" /\ packets[q].reliable >= inc
      BY <2>1, <2>2 DEF ListRight
    <3>. QED
      BY <2>2, <3>1, <3>2 DEF EntryRight
  <2>4. /\ packets[q].reliable \in Nat /\ packets[q].unreliable \in Nat
        /\ q < p <=> \/ packets[q].reliable < packets[p].reliable
                     \/ /\ packets[q].reliable = packets[p].reliable
                        /\ packets[q].unreliable < packets[p].unreliable
        /\ q = p <=> /\ packets[q].reliable = packets[p].reliable
                     /\ packets[q].unreliable = packets[p].unreliable
    BY <2>3, PacketOrder
  <2>5. packets[q].reliable < inc + Circle
    BY <1>3, <2>3, <2>4
  <2>. DEFINE r == packets[p].reliable
              u == packets[p].unreliable
              s == packets[q].reliable
              v == packets[q].unreliable
  <2>6. /\ r \in Nat /\ u \in Nat /\ s \in Nat /\ v \in Nat
        /\ inc <= r /\ inc <= s /\ r < inc + Circle /\ s < inc + Circle
    BY <1>1, <1>2, <1>4, <2>3, <2>4, <2>5
  <2>7. /\ d.reliable = Wire(r) /\ d.unreliable = u
        /\ e.reliable = Wire(s) /\ e.unreliable = v
    BY <1>2, <2>3
  <2>8. q \in Nat /\ (q < p <=> s < r \/ (s = r /\ v < u)) /\ (q = p <=> s = r /\ v = u)
    <3>1. Len(packets) \in Nat
      BY LenProperties DEF SentRight
    <3>. QED
      BY <2>3, <2>4, <3>1
  <2>. HIDE DEF r, u, s, v, d, inc
  <2>9. /\ StopsAt(ch, d, e) <=> (s < r \/ (s = r /\ v <= u))
        /\ Wire(r) = Wire(s) <=> r = s
    <3>1. StopsAt(ch, d, e) = StopsOn(Wire(r), u, Wire(s), v, Wire(inc))
      BY <1>1, <2>7 DEF StopsAt
    <3>2. /\ StopsOn(Wire(r), u, Wire(s), v, Wire(inc)) <=> (s < r \/ (s = r /\ v <= u))
          /\ Wire(r) = Wire(s) <=> r = s
      BY <1>1, <2>6, StopsOnCircle
    <3>. QED
      BY <3>1, <3>2
  <2>10. (s < r \/ (s = r /\ v <= u)) <=> q <= p
    BY <1>2, <2>6, <2>8
  <2>. QED
    BY <2>1, <2>2, <2>7, <2>8, <2>9, <2>10
<1>6. /\ t \in 0 .. Len(list)
      /\ t # 0 => StopsAt(ch, d, list[t])
      /\ \A k \in 1 .. Len(list) : StopsAt(ch, d, list[k]) => k <= t
  BY ScanRange
<1>7. IsQueued(ch, d) <=> t # 0 /\ list[t].reliable = d.reliable
                               /\ list[t].unreliable = d.unreliable
  BY DEF IsQueued
<1>. HIDE DEF d, t
<1>8. ASSUME NEW k \in 1 .. Len(list), k <= t
      PROVE  list[k].packet <= p
  <2>1. t \in 1 .. Len(list)
    BY <1>1, <1>6, <1>8
  <2>2. list[t].packet <= p
    BY <1>5, <1>6, <2>1
  <2>3. CASE k = t
    BY <2>2, <2>3
  <2>4. CASE k < t
    <3>1. PICK a, b : a = list[k] /\ b = list[t]
      OBVIOUS
    <3>2. a.kind # "unsequenced" /\ b.kind # "unsequenced"
      BY <2>1, <3>1 DEF ListRight
    <3>3. a.packet < b.packet
      BY <1>1, <2>1, <2>4, <3>1, <3>2 DEF ListReady
    <3>4. a.packet \in Nat /\ b.packet \in Nat
      <4>1. a \in EntryRecords /\ b \in EntryRecords
        BY <1>1, <2>1, <3>1, EntryFacts
      <4>. QED
        BY <4>1 DEF EntryRecords
    <3>5. b.packet <= p
      BY <2>2, <3>1
    <3>6. a.packet <= p
      BY <1>2, <3>3, <3>4, <3>5
    <3>. QED
      BY <3>1, <3>6
  <2>. QED
    BY <1>1, <1>6, <1>8, <2>3, <2>4
<1>9. \A k \in 1 .. Len(list) : list[k].packet <= p <=> k <= t
  BY <1>5, <1>6, <1>8
<1>10. t # 0 => (list[t].packet = p <=> /\ list[t].reliable = d.reliable
                                        /\ list[t].unreliable = d.unreliable)
  <2>1. t # 0 => t \in 1 .. Len(list)
    BY <1>1, <1>6
  <2>. QED
    BY <1>5, <2>1
<1>. QED
  BY <1>6, <1>7, <1>9, <1>10 DEF d, t

-----------------------------------------------------------------------------
(* Queueing a packet.                                                       *)

(* The list with the packet behind its first t entries.                     *)
Inserting(ch, t, p) ==
    [ch EXCEPT !.unreliable = InsertAt(@, t + 1, Entry(p)),
               !.totalWaitingData = @ + Size(p)]

(* It is inserted where the scan stops, and an unsequenced one in front.    *)
PlaceRight(ch, t, p) ==
    /\ t \in 0 .. Len(ch.unreliable)
    /\ packets[p].kind = "unsequenced" => t = 0
    /\ packets[p].kind # "unsequenced" =>
          /\ InReach(ch, p)
          /\ packets[p].reliable >= ch.incomingReliableSequenceNumber
          /\ \A k \in 1 .. Len(ch.unreliable) :
                /\ ch.unreliable[k].packet <= p <=> k <= t
                /\ ch.unreliable[k].packet # p

(* A list of entries with one more.                                         *)
LEMMA InsertedEntry ==
    ASSUME NEW s \in Seq(EntryRecords), NEW t \in 0 .. Len(s), NEW e \in EntryRecords
    PROVE  /\ Len(InsertAt(s, t + 1, e)) = Len(s) + 1
           /\ \A k \in 1 .. Len(s) + 1 :
                 InsertAt(s, t + 1, e)[k] =
                    IF k <= t THEN s[k] ELSE IF k = t + 1 THEN e ELSE s[k - 1]
           /\ t + 1 \in 1 .. Len(s) + 1
           /\ InsertAt(s, t + 1, e)[t + 1] = e
<1>1. Len(s) \in Nat /\ t \in Nat /\ t + 1 \in 1 .. Len(s) + 1
  BY LenProperties
<1>2. /\ Len(InsertAt(s, t + 1, e)) = Len(s) + 1
      /\ \A k \in 1 .. Len(s) + 1 :
            InsertAt(s, t + 1, e)[k] =
               IF k <= t THEN s[k] ELSE IF k = t + 1 THEN e ELSE s[k - 1]
  BY Inserted
<1>. QED
  BY <1>1, <1>2

(* The list with the new entry.                                             *)
LEMMA InsertedList ==
    ASSUME SentRight, NEW ch \in ChannelRecords, ListRight(ch),
           NEW p \in 1 .. Len(packets), packets[p].kind # "reliable",
           NEW t, PlaceRight(ch, t, p),
           NEW d \in ChannelRecords,
           d.incomingReliableSequenceNumber = ch.incomingReliableSequenceNumber,
           d.incomingUnreliableSequenceNumber = ch.incomingUnreliableSequenceNumber,
           d.unreliable = InsertAt(ch.unreliable, t + 1, Entry(p))
    PROVE  ListReady(d, p)
<1>. DEFINE list == ch.unreliable
            new == d.unreliable
            n == Len(list)
            E == Entry(p)
            inc == ch.incomingReliableSequenceNumber
<1>1. list \in Seq(EntryRecords) /\ n \in Nat /\ ListReady(ch, 0) /\ t \in 0 .. n
  BY LenProperties DEF ChannelRecords, ListRight, PlaceRight
<1>2. /\ E \in EntryRecords /\ EntryRight(E) /\ E.packet = p /\ E.kind = packets[p].kind
      /\ p \in Nat
  BY EntryOf
<1>3. /\ Len(new) = n + 1
      /\ \A k \in 1 .. n + 1 :
            new[k] = IF k <= t THEN list[k] ELSE IF k = t + 1 THEN E ELSE list[k - 1]
  <2>1. PICK s, e : s = list /\ e = E
    OBVIOUS
  <2>2. s \in Seq(EntryRecords) /\ e \in EntryRecords /\ t \in 0 .. Len(s)
    BY <1>1, <1>2, <2>1
  <2>3. /\ Len(InsertAt(s, t + 1, e)) = Len(s) + 1
        /\ \A k \in 1 .. Len(s) + 1 :
              InsertAt(s, t + 1, e)[k] =
                 IF k <= t THEN s[k] ELSE IF k = t + 1 THEN e ELSE s[k - 1]
    BY <2>2, InsertedEntry
  <2>. QED
    BY <2>1, <2>3
<1>. HIDE DEF E, new, n
<1>4. ASSUME NEW k \in 1 .. n
      PROVE  /\ list[k] \in EntryRecords /\ EntryRight(list[k])
             /\ list[k].kind # "unsequenced"
             /\ InReach(ch, list[k].packet)
             /\ packets[list[k].packet].reliable >= inc
             /\ packets[list[k].packet].reliable = inc => list[k].missing # {}
             /\ list[k].packet \in Nat
  <2>1. PICK e : e = list[k]
    OBVIOUS
  <2>2. e \in EntryRecords /\ EntryRight(e) /\ (e.kind # "unsequenced" => InReach(ch, e.packet))
    BY <1>1, <2>1, EntryFacts DEF n
  <2>3. /\ e.kind # "unsequenced" /\ packets[e.packet].reliable >= inc
        /\ packets[e.packet].reliable = inc => e.missing # {}
    BY <2>1 DEF ListRight, n
  <2>4. e.packet \in Nat
    BY <2>2 DEF EntryRecords
  <2>. QED
    BY <2>1, <2>2, <2>3, <2>4
<1>5. \A q : InReach(d, q) <=> InReach(ch, q)
  BY DEF InReach
<1>6. \A e : IsPresent(d, e) <=> IsPresent(ch, e)
  BY DEF IsPresent, Incoming
<1>7. ASSUME NEW k \in 1 .. n + 1
      PROVE  /\ k <= t => k \in 1 .. n /\ new[k] = list[k]
             /\ k = t + 1 => new[k] = E
             /\ k > t + 1 => k - 1 \in 1 .. n /\ new[k] = list[k - 1]
             /\ k <= t \/ k = t + 1 \/ k > t + 1
  <2>1. k <= t => k \in 1 .. n
    BY <1>1
  <2>2. k > t + 1 => k - 1 \in 1 .. n /\ ~ (k <= t) /\ k # t + 1
    BY <1>1
  <2>3. k = t + 1 => ~ (k <= t)
    BY <1>1
  <2>4. k <= t \/ k = t + 1 \/ k > t + 1
    BY <1>1
  <2>. QED
    BY <1>3, <2>1, <2>2, <2>3, <2>4
<1>8. ASSUME NEW k \in 1 .. n + 1, NEW e, e = new[k]
      PROVE  /\ EntryRight(e)
             /\ e.kind # "unsequenced" => InReach(d, e.packet)
             /\ e.packet = p /\ e.kind # "unsequenced"
                   => packets[e.packet].reliable >= inc
             /\ p # 0 /\ e.missing = {} /\ IsPresent(d, e) => e.packet = p
  <2>1. CASE e = E
    BY <1>2, <1>5, <2>1 DEF PlaceRight
  <2>2. ASSUME NEW j \in 1 .. n, e = list[j]
        PROVE  /\ EntryRight(e)
               /\ e.kind # "unsequenced" => InReach(d, e.packet)
               /\ e.packet = p /\ e.kind # "unsequenced"
                     => packets[e.packet].reliable >= inc
               /\ p # 0 /\ e.missing = {} /\ IsPresent(d, e) => e.packet = p
    <3>1. /\ EntryRight(e) /\ e.kind # "unsequenced" /\ InReach(ch, e.packet)
          /\ packets[e.packet].reliable >= inc
          /\ packets[e.packet].reliable = inc => e.missing # {}
      BY <1>4, <2>2
    <3>2. IsPresent(ch, e) <=> packets[e.packet].reliable = inc
      BY <3>1, EntryCases
    <3>. QED
      BY <1>5, <1>6, <3>1, <3>2
  <2>3. e = E \/ \E j \in 1 .. n : e = list[j]
    BY <1>7, <1>8
  <2>. QED
    BY <2>1, <2>2, <2>3
<1>9. ASSUME NEW j \in 1 .. n + 1, NEW k \in 1 .. n + 1, j < k,
             NEW a, a = new[j], NEW e, e = new[k]
      PROVE  /\ e.kind # "unsequenced"
             /\ a.kind # "unsequenced" => a.packet < e.packet
  <2>1. /\ packets[p].kind = "unsequenced" => t = 0
        /\ packets[p].kind # "unsequenced" =>
              \A i \in 1 .. n : /\ list[i].packet <= p <=> i <= t
                                /\ list[i].packet # p
    BY DEF PlaceRight, n
  <2>2. CASE k = t + 1
    <3>1. e = E /\ j <= t /\ a = list[j] /\ j \in 1 .. n
      BY <1>1, <1>3, <1>9, <2>2
    <3>2. E.kind # "unsequenced"
      BY <1>2, <2>1, <3>1
    <3>3. list[j].packet <= p /\ list[j].packet # p /\ list[j].packet \in Nat
      BY <1>2, <1>4, <2>1, <3>1, <3>2
    <3>4. list[j].packet < p
      BY <1>2, <3>3
    <3>. QED
      BY <1>2, <3>1, <3>2, <3>4
  <2>3. CASE j = t + 1
    <3>1. a = E /\ k - 1 > t /\ e = list[k - 1] /\ k - 1 \in 1 .. n
      BY <1>1, <1>3, <1>9, <2>3
    <3>2. PICK i \in 1 .. n : i > t /\ e = list[i]
      BY <3>1
    <3>3. e.kind # "unsequenced" /\ e.packet \in Nat
      BY <1>4, <3>2
    <3>4. ASSUME a.kind # "unsequenced" PROVE p < e.packet
      <4>1. packets[p].kind # "unsequenced"
        BY <1>2, <3>1, <3>4
      <4>2. ~ (i <= t)
        BY <1>1, <3>2
      <4>3. ~ (e.packet <= p)
        BY <2>1, <3>2, <4>1, <4>2
      <4>. QED
        BY <1>2, <3>3, <4>3
    <3>. QED
      BY <1>2, <3>1, <3>3, <3>4
  <2>4. CASE j # t + 1 /\ k # t + 1
    <3>1. PICK x \in 1 .. n, y \in 1 .. n : a = list[x] /\ e = list[y] /\ x < y
      <4>1. PICK x : x = IF j <= t THEN j ELSE j - 1
        OBVIOUS
      <4>2. PICK y : y = IF k <= t THEN k ELSE k - 1
        OBVIOUS
      <4>3. x \in 1 .. n /\ a = list[x]
        BY <1>7, <1>9, <2>4, <4>1
      <4>4. y \in 1 .. n /\ e = list[y]
        BY <1>7, <1>9, <2>4, <4>2
      <4>5. x < y
        BY <1>1, <1>9, <2>4, <4>1, <4>2
      <4>. QED
        BY <4>3, <4>4, <4>5
    <3>2. a.kind # "unsequenced" /\ e.kind # "unsequenced"
      BY <1>4, <3>1
    <3>3. a.packet < e.packet
      BY <1>1, <3>1, <3>2 DEF ListReady, n
    <3>. QED
      BY <3>2, <3>3
  <2>. QED
    BY <2>2, <2>3, <2>4
<1>. QED
  BY <1>3, <1>8, <1>9 DEF ListReady, new

(* With the new entry the channel is ready for the pass.                    *)
LEMMA InsertReady ==
    ASSUME SentRight, NEW ch, Good(ch),
           NEW p \in 1 .. Len(packets), packets[p].kind # "reliable",
           NEW t, PlaceRight(ch, t, p)
    PROVE  ReadyFor(Inserting(ch, t, p), p)
<1>1. /\ ch \in ChannelRecords /\ ListRight(ch) /\ ReliableRight(ch)
      /\ DeliveredRight(ch) /\ Behind(ch) /\ Waits(ch)
  BY DEF Good
<1>. DEFINE more == InsertAt(ch.unreliable, t + 1, Entry(p))
            waiting == ch.totalWaitingData + Size(p)
<1>2. PICK d : d = Inserting(ch, t, p)
  OBVIOUS
<1>3. d = [ch EXCEPT !.unreliable = more, !.totalWaitingData = waiting]
  BY <1>2 DEF Inserting
<1>4. Entry(p) \in EntryRecords /\ Entry(p).packet = p
  BY EntryOf
<1>5. /\ more \in Seq(EntryRecords)
      /\ SpaceOf(PacketsOf(more)) = SpaceOf(PacketsOf(ch.unreliable)) + Size(p)
  <2>1. ch.unreliable \in Seq(EntryRecords) /\ t \in 0 .. Len(ch.unreliable)
    BY <1>1 DEF ChannelRecords, PlaceRight
  <2>. QED
    BY <1>4, <2>1, SpaceInserted
<1>6. Size(p) \in Nat /\ ch.totalWaitingData \in Nat /\ waiting \in Nat
  <2>1. Size(p) \in Nat
    BY UnreliableAssumption DEF Size
  <2>2. ch.totalWaitingData \in Nat
    BY <1>1 DEF ChannelRecords
  <2>. QED
    BY <2>1, <2>2
<1>. HIDE DEF more
<1>7. /\ d.incomingReliableSequenceNumber = ch.incomingReliableSequenceNumber
      /\ d.incomingUnreliableSequenceNumber = ch.incomingUnreliableSequenceNumber
      /\ d.reliable = ch.reliable
      /\ d.unreliable = more
      /\ d.dispatched = ch.dispatched
      /\ d.totalWaitingData = waiting
      /\ d \in ChannelRecords
  <2>. HIDE DEF waiting
  <2>. QED
    BY <1>1, <1>3, <1>5, <1>6 DEF ChannelRecords
<1>8. ListReady(d, p)
  BY <1>1, <1>7, InsertedList DEF more
<1>9. ReliableRight(d) /\ Behind(d)
  BY <1>1, <1>7 DEF ReliableRight, Behind
<1>10. DeliveredRight(d)
  <2>1. PICK list : list = received \o ch.dispatched
    OBVIOUS
  <2>2. DeliveredAs(ch, list)
    BY <1>1, <2>1 DEF DeliveredRight
  <2>3. DeliveredAs(d, list)
    BY <1>7, <2>2 DEF DeliveredAs
  <2>. QED
    BY <1>7, <2>1, <2>3 DEF DeliveredRight
<1>11. Waits(d)
  <2>. DEFINE s == SpaceOf(PacketsOf(ch.unreliable))
              r == SpaceOf(ch.dispatched)
              c == Cardinality(ch.reliable)
  <2>1. s \in Nat /\ r \in Nat
    BY <1>1, PacketsFacts, SpaceFacts DEF ChannelRecords
  <2>2. c \in Nat
    BY <1>1, EarlyFinite, FS_CardinalityType
  <2>3. ch.totalWaitingData = s + c + r
    BY <1>1 DEF Waits
  <2>. HIDE DEF s, r, c
  <2>4. waiting = (s + Size(p)) + c + r
    BY <1>6, <2>1, <2>2, <2>3
  <2>. QED
    BY <1>5, <1>7, <2>4 DEF Waits, s, r, c
<1>12. ReadyFor(d, p)
  BY <1>1, <1>7, <1>8, <1>9, <1>10, <1>11 DEF ReadyFor
<1>. QED
  BY <1>2, <1>12

(* enet_peer_queue_incoming_command keeps the channel good.                 *)
LEMMA QueueGood ==
    ASSUME SentRight, received \in Seq(Nat), NEW ch, Good(ch),
           NEW p \in 1 .. Len(packets), packets[p].kind # "reliable",
           packets[p].kind # "unsequenced" =>
              /\ InReach(ch, p)
              /\ packets[p].reliable >= ch.incomingReliableSequenceNumber
              /\ ~ IsQueued(ch, Entry(p))
    PROVE  /\ Good(Queue(ch, p))
           /\ packets[p].kind = "fragments" =>
                 \E k \in 1 .. Len(Queue(ch, p).unreliable) :
                    Queue(ch, p).unreliable[k] = Entry(p)
<1>1. ch \in ChannelRecords /\ ListRight(ch) /\ ch.unreliable \in Seq(EntryRecords)
  BY DEF Good, ChannelRecords
<1>2. /\ Entry(p) \in EntryRecords /\ Entry(p).kind = packets[p].kind
      /\ Entry(p).packet = p
      /\ packets[p].kind = "fragments" => Entry(p).missing # {}
      /\ p \in Nat
  BY EntryOf
<1>3. packets[p].kind \in {"unreliable", "fragments", "unsequenced"}
  <2>1. packets[p] \in PacketRecords
    BY ElementOfSeq DEF SentRight
  <2>. QED
    BY <2>1 DEF PacketRecords, AllKinds
<1>4. Len(ch.unreliable) \in Nat
  BY <1>1, LenProperties
<1>5. PICK t : /\ t = IF packets[p].kind = "unsequenced" THEN 0 ELSE ScanStop(ch, Entry(p))
  OBVIOUS
<1>6. PlaceRight(ch, t, p)
  <2>1. CASE packets[p].kind = "unsequenced"
    BY <1>4, <1>5, <2>1 DEF PlaceRight
  <2>2. CASE packets[p].kind # "unsequenced"
    <3>1. /\ t \in 0 .. Len(ch.unreliable)
          /\ \A k \in 1 .. Len(ch.unreliable) : ch.unreliable[k].packet <= p <=> k <= t
          /\ ~ (t # 0 /\ ch.unreliable[t].packet = p)
      BY <1>1, <1>3, <1>5, <2>2, ScanFacts
    <3>2. ASSUME NEW k \in 1 .. Len(ch.unreliable) PROVE ch.unreliable[k].packet # p
      <4>1. SUFFICES ASSUME ch.unreliable[k].packet = p PROVE FALSE
        OBVIOUS
      <4>2. k <= t
        BY <1>2, <3>1, <4>1
      <4>3. t \in 1 .. Len(ch.unreliable) /\ k # t
        BY <1>4, <3>1, <4>1, <4>2
      <4>4. ch.unreliable[t].packet <= p
        BY <3>1, <4>3
      <4>5. PICK a, b : a = ch.unreliable[k] /\ b = ch.unreliable[t]
        OBVIOUS
      <4>6. a.packet < b.packet
        <5>1. ListReady(ch, 0) /\ a.kind # "unsequenced" /\ b.kind # "unsequenced"
          BY <1>1, <4>3, <4>5 DEF ListRight
        <5>2. k < t
          BY <1>4, <3>1, <4>2, <4>3
        <5>. QED
          BY <4>3, <4>5, <5>1, <5>2 DEF ListReady
      <4>7. b \in EntryRecords
        BY <1>1, <4>3, <4>5, ElementOfSeq
      <4>8. b.packet \in Nat
        BY <4>7 DEF EntryRecords
      <4>9. b.packet <= p /\ p < b.packet
        BY <4>1, <4>4, <4>5, <4>6
      <4>. QED
        BY <1>2, <4>8, <4>9
    <3>. QED
      BY <2>2, <3>1, <3>2 DEF PlaceRight
  <2>. QED
    BY <2>1, <2>2
<1>7. PICK d : d = Inserting(ch, t, p)
  OBVIOUS
<1>8. Queue(ch, p) = DispatchUnreliable(d, p)
  <2>1. t \in 0 .. Len(ch.unreliable)
    BY <1>6 DEF PlaceRight
  <2>2. (IF IsUnsequenced(Entry(p)) THEN 1 ELSE ScanStop(ch, Entry(p)) + 1) = t + 1
    BY <1>2, <1>5 DEF IsUnsequenced
  <2>. QED
    BY <1>7, <2>2 DEF Queue, Inserting
<1>9. ReadyFor(d, p)
  BY <1>6, <1>7, InsertReady
<1>10. Good(Queue(ch, p))
  BY <1>8, <1>9, DispatchGood
<1>11. ASSUME packets[p].kind = "fragments"
       PROVE  \E k \in 1 .. Len(Queue(ch, p).unreliable) :
                 Queue(ch, p).unreliable[k] = Entry(p)
  <2>1. /\ d.unreliable = InsertAt(ch.unreliable, t + 1, Entry(p))
        /\ d \in ChannelRecords /\ ListReady(d, p)
    <3>1. d \in ChannelRecords /\ ListReady(d, p)
      BY <1>9 DEF ReadyFor
    <3>2. d.unreliable = InsertAt(ch.unreliable, t + 1, Entry(p))
      BY <1>1, <1>7 DEF Inserting, ChannelRecords
    <3>. QED
      BY <3>1, <3>2
  <2>2. t \in 0 .. Len(ch.unreliable)
    BY <1>6 DEF PlaceRight
  <2>3. t + 1 \in 1 .. Len(d.unreliable) /\ d.unreliable[t + 1] = Entry(p)
    <3>1. PICK s, e : s = ch.unreliable /\ e = Entry(p)
      OBVIOUS
    <3>2. s \in Seq(EntryRecords) /\ e \in EntryRecords /\ t \in 0 .. Len(s)
      BY <1>1, <1>2, <2>2, <3>1
    <3>3. /\ Len(InsertAt(s, t + 1, e)) = Len(s) + 1
          /\ t + 1 \in 1 .. Len(s) + 1
          /\ InsertAt(s, t + 1, e)[t + 1] = e
      BY ONLY <3>2, InsertedEntry
    <3>. QED
      BY <2>1, <3>1, <3>3
  <2>4. PICK k : k = t + 1
    OBVIOUS
  <2>5. /\ k \in 1 .. Len(d.unreliable) /\ d.unreliable[k] = Entry(p)
        /\ d.unreliable[k].packet = p /\ d.unreliable[k].missing # {}
    BY <1>2, <1>11, <2>3, <2>4
  <2>6. \E j \in 1 .. Len(DispatchUnreliable(d, p).unreliable) :
           DispatchUnreliable(d, p).unreliable[j] = d.unreliable[k]
    BY <2>1, <2>5, DispatchKeeps
  <2>. QED
    BY <1>8, <2>5, <2>6
<1>. QED
  BY <1>10, <1>11

-----------------------------------------------------------------------------
(* Putting a fragment into an entry.                                        *)

(* The entry with the fragment.                                             *)
LEMMA FragmentEntry ==
    ASSUME NEW old \in EntryRecords, NEW p \in Nat, NEW f,
           old.packet = p, old.from \subseteq {p}
    PROVE  /\ WithFragment(old, p, f) \in EntryRecords
           /\ WithFragment(old, p, f).packet = p
           /\ WithFragment(old, p, f).kind = old.kind
           /\ WithFragment(old, p, f).reliable = old.reliable
           /\ WithFragment(old, p, f).unreliable = old.unreliable
           /\ WithFragment(old, p, f).from \subseteq {p}
<1>. DEFINE missing == old.missing \ {f}
            from == IF f \in old.missing THEN old.from \cup {p} ELSE old.from
<1>1. PICK new : new = WithFragment(old, p, f)
  OBVIOUS
<1>2. new = [old EXCEPT !.missing = missing, !.from = from]
  BY <1>1 DEF WithFragment
<1>3. missing \in SUBSET Nat /\ from \in SUBSET Nat /\ from \subseteq {p}
  BY DEF EntryRecords
<1>. HIDE DEF missing, from
<1>4. /\ new \in EntryRecords /\ new.packet = old.packet /\ new.kind = old.kind
      /\ new.reliable = old.reliable /\ new.unreliable = old.unreliable
      /\ new.from = from
  BY <1>2, <1>3 DEF EntryRecords
<1>. QED
  BY <1>1, <1>3, <1>4

(* enet_protocol_handle_send_unreliable_fragment keeps the channel good.    *)
LEMMA PutFragmentGood ==
    ASSUME SentRight, received \in Seq(Nat), NEW ch, Good(ch),
           NEW k \in 1 .. Len(ch.unreliable), NEW p \in 1 .. Len(packets), NEW f,
           ch.unreliable[k].packet = p, packets[p].kind = "fragments"
    PROVE  Good(PutFragment(ch, k, p, f))
<1>. DEFINE list == ch.unreliable
            n == Len(list)
            inc == ch.incomingReliableSequenceNumber
<1>1. /\ ch \in ChannelRecords /\ ListRight(ch) /\ ReliableRight(ch)
      /\ DeliveredRight(ch) /\ Behind(ch) /\ Waits(ch)
  BY DEF Good
<1>2. list \in Seq(EntryRecords) /\ n \in Nat /\ ListReady(ch, 0) /\ k \in 1 .. n
  BY <1>1, LenProperties DEF ChannelRecords, ListRight
<1>3. PICK old : old = list[k]
  OBVIOUS
<1>4. old \in EntryRecords /\ EntryRight(old) /\ old.packet = p /\ p \in Nat
  BY <1>1, <1>2, <1>3, EntryFacts, EntryOf
<1>5. PICK new : new = WithFragment(old, p, f)
  OBVIOUS
<1>6. /\ new \in EntryRecords /\ new.packet = p /\ new.kind = old.kind
      /\ new.reliable = old.reliable /\ new.unreliable = old.unreliable
      /\ new.from \subseteq {p}
  <2>1. old.from \subseteq {p}
    BY <1>4 DEF EntryRight
  <2>. QED
    BY <1>4, <1>5, <2>1, FragmentEntry
<1>7. EntryRight(new)
  <2>1. old.kind = "fragments"
    BY <1>4 DEF EntryRight
  <2>. QED
    BY <1>4, <1>6, <2>1 DEF EntryRight
<1>. DEFINE more == [list EXCEPT ![k] = new]
<1>8. /\ more \in Seq(EntryRecords) /\ Len(more) = n
      /\ \A i \in 1 .. n : more[i] = IF i = k THEN new ELSE list[i]
  BY <1>2, <1>6, ExceptSeq
<1>. HIDE DEF more
<1>9. PICK d : d = [ch EXCEPT !.unreliable = more]
  OBVIOUS
<1>10. PutFragment(ch, k, p, f) =
          IF new # old /\ new.missing = {} THEN DispatchUnreliable(d, 0) ELSE d
  BY <1>3, <1>5, <1>9 DEF PutFragment, more
<1>11. /\ d.incomingReliableSequenceNumber = inc
       /\ d.incomingUnreliableSequenceNumber = ch.incomingUnreliableSequenceNumber
       /\ d.reliable = ch.reliable
       /\ d.unreliable = more
       /\ d.dispatched = ch.dispatched
       /\ d.totalWaitingData = ch.totalWaitingData
       /\ d \in ChannelRecords
  BY <1>1, <1>8, <1>9 DEF ChannelRecords
<1>12. PacketsOf(more) = PacketsOf(list)
  <2>1. DOMAIN more = 1 .. n /\ DOMAIN list = 1 .. n
    BY <1>2, <1>8, LenProperties
  <2>2. \A i \in 1 .. n : more[i].packet = list[i].packet
    BY <1>3, <1>4, <1>6, <1>8
  <2>. HIDE DEF list, n
  <2>. QED
    BY <2>1, <2>2 DEF PacketsOf
<1>13. /\ \A q : InReach(d, q) <=> InReach(ch, q)
       /\ \A e : IsPresent(d, e) <=> IsPresent(ch, e)
  BY <1>11 DEF InReach, IsPresent, Incoming
<1>14. ASSUME NEW i \in 1 .. n
       PROVE  /\ EntryRight(more[i])
              /\ more[i].kind = list[i].kind
              /\ more[i].packet = list[i].packet
              /\ more[i].kind # "unsequenced"
              /\ InReach(d, more[i].packet)
              /\ packets[more[i].packet].reliable >= inc
              /\ more[i].packet # 0
              /\ packets[more[i].packet].reliable = inc /\ i # k
                    => more[i].missing # {}
  <2>1. PICK e : e = list[i]
    OBVIOUS
  <2>2. EntryRight(e) /\ (e.kind # "unsequenced" => InReach(ch, e.packet))
    BY <1>1, <1>2, <2>1, EntryFacts
  <2>3. /\ e.kind # "unsequenced" /\ packets[e.packet].reliable >= inc
        /\ packets[e.packet].reliable = inc => e.missing # {}
    BY <1>1, <2>1 DEF ListRight
  <2>4. more[i].kind = e.kind /\ more[i].packet = e.packet /\ EntryRight(more[i])
        /\ (i # k => more[i] = e)
    BY <1>3, <1>4, <1>6, <1>7, <1>8, <2>1, <2>2
  <2>5. e.packet # 0
    BY <1>2, <2>2, LenProperties DEF EntryRight, SentRight
  <2>. QED
    BY <1>13, <2>1, <2>2, <2>3, <2>4, <2>5
<1>15. ASSUME NEW i \in 1 .. n, NEW j \in 1 .. n, i < j
       PROVE  more[i].packet < more[j].packet
  <2>1. list[i].kind # "unsequenced" /\ list[j].kind # "unsequenced"
    BY <1>14
  <2>2. list[i].packet < list[j].packet
    BY <1>2, <1>15, <2>1 DEF ListReady
  <2>. QED
    BY <1>14, <2>2
<1>16. ListReady(d, 0)
  BY <1>8, <1>11, <1>14, <1>15 DEF ListReady
<1>17. ReliableRight(d) /\ Behind(d)
  BY <1>1, <1>11 DEF ReliableRight, Behind
<1>18. DeliveredRight(d)
  <2>1. PICK all : all = received \o ch.dispatched
    OBVIOUS
  <2>2. DeliveredAs(ch, all)
    BY <1>1, <2>1 DEF DeliveredRight
  <2>3. DeliveredAs(d, all)
    BY <1>11, <2>2 DEF DeliveredAs
  <2>. QED
    BY <1>11, <2>1, <2>3 DEF DeliveredRight
<1>19. Waits(d)
  BY <1>1, <1>11, <1>12 DEF Waits
<1>20. CASE new # old /\ new.missing = {}
  <2>1. ReadyFor(d, 0)
    BY <1>11, <1>16, <1>17, <1>18, <1>19 DEF ReadyFor
  <2>2. Good(DispatchUnreliable(d, 0))
    BY <2>1, DispatchGood
  <2>. QED
    BY <1>10, <1>20, <2>2
<1>21. CASE ~ (new # old /\ new.missing = {})
  <2>1. packets[more[k].packet].reliable = inc => more[k].missing # {}
    <3>1. packets[old.packet].reliable = inc => old.missing # {}
      BY <1>1, <1>2, <1>3 DEF ListRight
    <3>. QED
      BY <1>2, <1>4, <1>6, <1>8, <1>21, <3>1
  <2>2. ASSUME NEW i \in 1 .. n
        PROVE  packets[more[i].packet].reliable = inc => more[i].missing # {}
    BY <1>14, <2>1
  <2>3. ListRight(d)
    BY <1>8, <1>11, <1>14, <1>16, <2>2 DEF ListRight
  <2>4. Good(d)
    BY <1>11, <1>17, <1>18, <1>19, <2>3 DEF Good
  <2>. QED
    BY <1>10, <1>21, <2>4
<1>. QED
  BY <1>20, <1>21

-----------------------------------------------------------------------------
(* What is delivered only grows.                                            *)

Extends(old, new) == \E more \in Seq(Nat) : new = old \o more

(* Nothing more is an extension.                                            *)
LEMMA ExtendsSelf == ASSUME NEW old \in Seq(Nat) PROVE Extends(old, old)
<1>1. old = old \o << >> /\ << >> \in Seq(Nat)
  BY ConcatEmptySeq, EmptySeq
<1>. QED
  BY <1>1 DEF Extends

(* An extension of an extension is one.                                     *)
LEMMA ExtendsMore ==
    ASSUME NEW old \in Seq(Nat), NEW mid, NEW new, Extends(old, mid), Extends(mid, new)
    PROVE  Extends(old, new)
<1>1. PICK a \in Seq(Nat) : mid = old \o a
  BY DEF Extends
<1>2. PICK b \in Seq(Nat) : new = mid \o b
  BY DEF Extends
<1>3. (old \o a) \o b = old \o (a \o b) /\ a \o b \in Seq(Nat)
  BY ONLY old \in Seq(Nat), <1>1, <1>2, ConcatAssociative, ConcatProperties
<1>. QED
  BY <1>1, <1>2, <1>3 DEF Extends

(* And so is an extension behind a list.                                    *)
LEMMA ExtendsBehind ==
    ASSUME NEW front \in Seq(Nat), NEW old \in Seq(Nat), NEW new, Extends(old, new)
    PROVE  Extends(front \o old, front \o new)
<1>1. PICK a \in Seq(Nat) : new = old \o a
  BY DEF Extends
<1>2. (front \o old) \o a = front \o (old \o a)
  BY ONLY front \in Seq(Nat), old \in Seq(Nat), <1>1, ConcatAssociative
<1>. QED
  BY <1>1, <1>2 DEF Extends

(* The pass over the list only adds to what is dispatched.                  *)
LEMMA DispatchExtends ==
    ASSUME NEW ch \in ChannelRecords, NEW keep
    PROVE  Extends(ch.dispatched, DispatchUnreliable(ch, keep).dispatched)
<1>1. PICK d : d = DispatchUnreliable(ch, keep)
  OBVIOUS
<1>2. PICK more : more = PacketsOf(Pick(ch.unreliable, Ready(ch)))
  OBVIOUS
<1>3. d.dispatched = ch.dispatched \o more
  BY <1>1, <1>2, DispatchFields
<1>4. more \in Seq(Nat)
  <2>1. ch.unreliable \in Seq(EntryRecords) /\ Ready(ch) \in SUBSET (1 .. Len(ch.unreliable))
    BY PassFacts DEF ChannelRecords
  <2>2. Pick(ch.unreliable, Ready(ch)) \in Seq(EntryRecords)
    BY <2>1, PickFacts
  <2>. QED
    BY <1>2, <2>2, PacketsFacts
<1>. QED
  BY <1>1, <1>3, <1>4 DEF Extends

(* Queueing a packet does.                                                  *)
LEMMA QueueExtends ==
    ASSUME SentRight, NEW ch, Good(ch), NEW p \in 1 .. Len(packets),
           packets[p].kind # "reliable",
           packets[p].kind # "unsequenced" =>
              /\ InReach(ch, p)
              /\ packets[p].reliable >= ch.incomingReliableSequenceNumber
    PROVE  Extends(ch.dispatched, Queue(ch, p).dispatched)
<1>1. ch \in ChannelRecords /\ ListRight(ch) /\ ch.unreliable \in Seq(EntryRecords)
  BY DEF Good, ChannelRecords
<1>2. Entry(p) \in EntryRecords /\ Entry(p).kind = packets[p].kind
  BY EntryOf
<1>3. PICK t : t = IF packets[p].kind = "unsequenced" THEN 0 ELSE ScanStop(ch, Entry(p))
  OBVIOUS
<1>4. t \in 0 .. Len(ch.unreliable)
  <2>1. Len(ch.unreliable) \in Nat
    BY <1>1, LenProperties
  <2>. QED
    BY <1>1, <1>3, <2>1, ScanRange
<1>5. PICK d : d = Inserting(ch, t, p)
  OBVIOUS
<1>6. Queue(ch, p) = DispatchUnreliable(d, p)
  <2>1. (IF IsUnsequenced(Entry(p)) THEN 1 ELSE ScanStop(ch, Entry(p)) + 1) = t + 1
    BY <1>2, <1>3 DEF IsUnsequenced
  <2>. QED
    BY <1>5, <2>1 DEF Queue, Inserting
<1>7. d \in ChannelRecords /\ d.dispatched = ch.dispatched
  <2>. DEFINE more == InsertAt(ch.unreliable, t + 1, Entry(p))
              waiting == ch.totalWaitingData + Size(p)
  <2>1. more \in Seq(EntryRecords)
    BY <1>1, <1>2, <1>4, SpaceInserted
  <2>2. waiting \in Nat
    <3>1. Size(p) \in Nat /\ ch.totalWaitingData \in Nat
      BY <1>1, UnreliableAssumption DEF Size, ChannelRecords
    <3>. QED
      BY <3>1
  <2>3. d = [ch EXCEPT !.unreliable = more, !.totalWaitingData = waiting]
    BY <1>5 DEF Inserting
  <2>. HIDE DEF more, waiting
  <2>. QED
    BY <1>1, <2>1, <2>2, <2>3 DEF ChannelRecords
<1>8. Extends(d.dispatched, DispatchUnreliable(d, p).dispatched)
  BY <1>7, DispatchExtends
<1>. QED
  BY <1>6, <1>7, <1>8

(* Putting a fragment into an entry does.                                   *)
LEMMA PutFragmentExtends ==
    ASSUME SentRight, NEW ch, Good(ch), NEW k \in 1 .. Len(ch.unreliable),
           NEW p \in 1 .. Len(packets), NEW f,
           ch.unreliable[k].packet = p, packets[p].kind = "fragments"
    PROVE  Extends(ch.dispatched, PutFragment(ch, k, p, f).dispatched)
<1>1. /\ ch \in ChannelRecords /\ ListReady(ch, 0)
      /\ ch.unreliable \in Seq(EntryRecords) /\ ch.dispatched \in Seq(Nat)
  BY DEF Good, ChannelRecords, ListRight
<1>2. PICK old : old = ch.unreliable[k]
  OBVIOUS
<1>3. old \in EntryRecords /\ old.packet = p /\ old.from \subseteq {p} /\ p \in Nat
  <2>1. old \in EntryRecords /\ EntryRight(old) /\ p \in Nat
    BY <1>1, <1>2, EntryFacts, EntryOf
  <2>. QED
    BY <1>2, <2>1 DEF EntryRight
<1>4. PICK new : new = WithFragment(old, p, f)
  OBVIOUS
<1>5. new \in EntryRecords
  BY <1>3, <1>4, FragmentEntry
<1>. DEFINE more == [ch.unreliable EXCEPT ![k] = new]
<1>6. more \in Seq(EntryRecords)
  BY <1>1, <1>5, ExceptSeq
<1>7. PICK d : d = [ch EXCEPT !.unreliable = more]
  OBVIOUS
<1>8. PutFragment(ch, k, p, f) =
          IF new # old /\ new.missing = {} THEN DispatchUnreliable(d, 0) ELSE d
  BY <1>2, <1>4, <1>7 DEF PutFragment
<1>. HIDE DEF more
<1>9. d \in ChannelRecords /\ d.dispatched = ch.dispatched
  BY <1>1, <1>6, <1>7 DEF ChannelRecords
<1>10. Extends(d.dispatched, DispatchUnreliable(d, 0).dispatched)
  BY <1>9, DispatchExtends
<1>11. Extends(ch.dispatched, ch.dispatched)
  BY <1>1, ExtendsSelf
<1>. QED
  BY <1>8, <1>9, <1>10, <1>11

(* Dispatching reliable packets does.                                       *)
LEMMA DispatchReliableExtends ==
    ASSUME SentRight, NEW ch, Good(ch)
    PROVE  Extends(ch.dispatched, DispatchReliable(ch).dispatched)
<1>1. ch \in ChannelRecords /\ ReliableRight(ch) /\ ch.dispatched \in Seq(Nat)
  BY DEF Good, ChannelRecords
<1>2. DispatchReliable(ch) =
         IF NextReliable(ch) = {} THEN ch ELSE DispatchUnreliable(Advanced(ch), 0)
  BY DEF DispatchReliable, NextReliable, Advanced
<1>3. CASE NextReliable(ch) = {}
  BY <1>1, <1>2, <1>3, ExtendsSelf
<1>4. CASE NextReliable(ch) # {}
  <2>1. PICK d : d = Advanced(ch)
    OBVIOUS
  <2>2. PICK A : A = Ascending(NextReliable(ch))
    OBVIOUS
  <2>3. d \in ChannelRecords /\ d.dispatched = ch.dispatched \o A
        /\ A \in Seq(1 .. Len(packets))
    BY <1>1, <1>4, <2>1, <2>2, AdvancedFields
  <2>4. Extends(ch.dispatched, d.dispatched)
    <3>1. A \in Seq(Nat)
      <4>1. \A k \in 1 .. Len(A) : A[k] \in 1 .. Len(packets)
        BY <2>3, ElementOfSeq
      <4>2. 1 .. Len(packets) \subseteq Nat
        BY LenProperties DEF SentRight
      <4>. QED
        BY <2>3, <4>1, <4>2, SeqMonotonic
    <3>. QED
      BY <2>3, <3>1 DEF Extends
  <2>5. Extends(d.dispatched, DispatchUnreliable(d, 0).dispatched)
    BY <2>3, DispatchExtends
  <2>6. Extends(ch.dispatched, DispatchUnreliable(d, 0).dispatched)
    BY <1>1, <2>4, <2>5, ExtendsMore
  <2>. QED
    BY <1>2, <1>4, <2>1, <2>6
<1>. QED
  BY <1>3, <1>4

-----------------------------------------------------------------------------
(* The actions of the receiver.                                             *)

(* What the next channel of an action is like.                              *)
MovesOn(ch, d) == Good(d) /\ Extends(ch.dispatched, d.dispatched)

(* The sent packets are those with a number.                                *)
LEMMA SentPackets ==
    ASSUME SentRight
    PROVE  DOMAIN packets = 1 .. Len(packets) /\ Len(packets) \in Nat
BY LenProperties DEF SentRight

(* A reliable packet arrives.                                               *)
LEMMA ReliableMoves ==
    ASSUME ChannelInv, NEW p \in DOMAIN packets, ReceiveReliable(p)
    PROVE  MovesOn(channel, channel')
<1>1. SentRight /\ Good(channel) /\ received \in Seq(Nat)
  BY DEF ChannelInv
<1>2. p \in 1 .. Len(packets)
  BY <1>1, SentPackets
<1>3. PICK d : d = [channel EXCEPT !.reliable = @ \cup {p}, !.totalWaitingData = @ + 1]
  OBVIOUS
<1>4. /\ packets[p].kind = "reliable" /\ p \notin channel.reliable
      /\ packets[p].reliable - channel.incomingReliableSequenceNumber
            \in 1 .. (FreeWindows - 1) * WindowSize
      /\ channel' = DispatchReliable(d)
  BY <1>3 DEF ReceiveReliable
<1>5. Good(d)
  BY <1>1, <1>2, <1>3, <1>4, EarlyGood
<1>6. d.dispatched = channel.dispatched
  BY <1>1, <1>3 DEF Good, ChannelRecords
<1>. QED
  BY <1>1, <1>4, <1>5, <1>6, DispatchReliableGood, DispatchReliableExtends DEF MovesOn

(* An unreliable packet arrives.                                            *)
LEMMA UnreliableMoves ==
    ASSUME ChannelInv, NEW p \in DOMAIN packets, ReceiveUnreliable(p)
    PROVE  MovesOn(channel, channel')
<1>1. SentRight /\ Good(channel) /\ received \in Seq(Nat)
  BY DEF ChannelInv
<1>2. p \in 1 .. Len(packets)
  BY <1>1, SentPackets
<1>3. /\ packets[p].kind = "unreliable" /\ MayArrive(p)
      /\ ~ IsTooLate(channel, Entry(p)) /\ ~ IsQueued(channel, Entry(p))
      /\ channel' = Queue(channel, p)
  BY DEF ReceiveUnreliable
<1>4. channel \in ChannelRecords /\ Behind(channel)
  BY <1>1 DEF Good
<1>5. /\ packets[p].reliable >= channel.incomingReliableSequenceNumber
      /\ InReach(channel, p)
  BY <1>1, <1>2, <1>3, <1>4, Arrives
<1>. QED
  BY <1>1, <1>2, <1>3, <1>5, QueueGood, QueueExtends DEF MovesOn

(* The last entry of a packet on a list.                                    *)
LEMMA LastWithPacket ==
    ASSUME NEW list \in Seq(EntryRecords), NEW p,
           \E k \in 1 .. Len(list) : list[k].packet = p
    PROVE  /\ SelectLastInSeq(list, LAMBDA e : e.packet = p) \in 1 .. Len(list)
           /\ list[SelectLastInSeq(list, LAMBDA e : e.packet = p)].packet = p
<1>. DEFINE t == SelectLastInSeq(list, LAMBDA e : e.packet = p)
            I == {k \in 1 .. Len(list) : list[k].packet = p}
<1>1. Len(list) \in Nat
  BY LenProperties
<1>2. t = IF I # {} THEN Max(I) ELSE 0
  BY DEF SelectLastInSeq
<1>3. I # {} /\ I \subseteq Nat /\ \A k \in I : k <= Len(list)
  BY <1>1
<1>4. \E m \in I : \A x \in I : x <= m
  <2>. HIDE DEF I
  <2>. QED
    BY <1>1, <1>3, GreatestNumber
<1>5. t = CHOOSE x \in I : \A y \in I : x >= y
  BY <1>2, <1>3 DEF Max
<1>6. \E x \in I : \A y \in I : x >= y
  BY <1>3, <1>4
<1>. HIDE DEF t
<1>7. t \in I
  <2>. HIDE DEF I
  <2>. QED
    BY <1>5, <1>6
<1>8. t \in 1 .. Len(list) /\ list[t].packet = p
  BY <1>7
<1>. QED
  BY <1>8 DEF t

(* A fragment of an unreliable packet arrives.                              *)
LEMMA FragmentMoves ==
    ASSUME ChannelInv, NEW p \in DOMAIN packets, NEW f, ReceiveFragment(p, f)
    PROVE  MovesOn(channel, channel')
<1>1. SentRight /\ Good(channel) /\ received \in Seq(Nat)
  BY DEF ChannelInv
<1>2. p \in 1 .. Len(packets)
  BY <1>1, SentPackets
<1>3. /\ packets[p].kind = "fragments" /\ MayArrive(p)
      /\ ~ IsTooLate(channel, Entry(p))
      /\ AddFragment(p, f) \/ StartFragments(p, f)
  BY DEF ReceiveFragment
<1>4. /\ channel \in ChannelRecords /\ Behind(channel) /\ ListRight(channel)
      /\ channel.unreliable \in Seq(EntryRecords) /\ channel.dispatched \in Seq(Nat)
      /\ Len(channel.unreliable) \in Nat
  BY <1>1, LenProperties DEF Good, ChannelRecords
<1>5. /\ packets[p].reliable >= channel.incomingReliableSequenceNumber
      /\ InReach(channel, p)
  BY <1>1, <1>2, <1>3, <1>4, Arrives
<1>6. CASE AddFragment(p, f)
  <2>1. PICK k : k = ScanStop(channel, Entry(p))
    OBVIOUS
  <2>2. IsQueued(channel, Entry(p)) /\ channel' = PutFragment(channel, k, p, f)
    BY <1>6, <2>1 DEF AddFragment
  <2>3. k \in 1 .. Len(channel.unreliable) /\ channel.unreliable[k].packet = p
    <3>1. /\ k \in 0 .. Len(channel.unreliable) /\ k # 0
          /\ channel.unreliable[k].packet = p
      BY <1>1, <1>2, <1>3, <1>4, <1>5, <2>1, <2>2, ScanFacts
    <3>. QED
      BY <1>4, <3>1
  <2>. QED
    BY <1>1, <1>2, <1>3, <2>2, <2>3, PutFragmentGood, PutFragmentExtends DEF MovesOn
<1>7. CASE StartFragments(p, f)
  <2>1. PICK q : q = Queue(channel, p)
    OBVIOUS
  <2>2. PICK k : k = SelectLastInSeq(q.unreliable, LAMBDA e : e.packet = p)
    OBVIOUS
  <2>3. ~ IsQueued(channel, Entry(p)) /\ channel' = PutFragment(q, k, p, f)
    BY <1>7, <2>1, <2>2 DEF StartFragments
  <2>4. /\ Good(q) /\ Extends(channel.dispatched, q.dispatched)
        /\ \E j \in 1 .. Len(q.unreliable) : q.unreliable[j] = Entry(p)
    BY <1>1, <1>2, <1>3, <1>5, <2>1, <2>3, QueueGood, QueueExtends
  <2>5. k \in 1 .. Len(q.unreliable) /\ q.unreliable[k].packet = p
    <3>1. q.unreliable \in Seq(EntryRecords)
      BY <2>4 DEF Good, ChannelRecords
    <3>2. \E j \in 1 .. Len(q.unreliable) : q.unreliable[j].packet = p
      BY <1>1, <1>2, <1>3, <2>4, EntryOf
    <3>. QED
      BY <2>2, <3>1, <3>2, LastWithPacket
  <2>6. PICK d : d = PutFragment(q, k, p, f)
    OBVIOUS
  <2>7. Good(d) /\ Extends(q.dispatched, d.dispatched)
    BY <1>1, <1>2, <1>3, <2>4, <2>5, <2>6, PutFragmentGood, PutFragmentExtends
  <2>8. Extends(channel.dispatched, d.dispatched)
    BY <1>4, <2>4, <2>7, ExtendsMore
  <2>. QED
    BY <2>3, <2>6, <2>7, <2>8 DEF MovesOn
<1>. QED
  BY <1>3, <1>6, <1>7

(* An unsequenced packet arrives.                                           *)
LEMMA UnsequencedMoves ==
    ASSUME ChannelInv, NEW p \in DOMAIN packets, ReceiveUnsequencedPacket(p)
    PROVE  MovesOn(channel, channel') /\ WindowInv'
<1>1. SentRight /\ Good(channel) /\ received \in Seq(Nat) /\ WindowInv
  BY DEF ChannelInv
<1>2. p \in 1 .. Len(packets)
  BY <1>1, SentPackets
<1>3. PICK stored \in BOOLEAN :
         /\ packets[p].kind = "unsequenced"
         /\ IsAlive(packets[p].group)
         /\ ReceiveUnsequenced(packets[p].group, stored)
         /\ channel' = IF state = "CONNECTED" /\ stored THEN Queue(channel, p) ELSE channel
  BY DEF ReceiveUnsequencedPacket
<1>4. MovesOn(channel, channel)
  BY <1>1, ExtendsSelf DEF MovesOn, Good, ChannelRecords
<1>5. MovesOn(channel, Queue(channel, p))
  BY <1>1, <1>2, <1>3, QueueGood, QueueExtends DEF MovesOn
<1>6. packets[p].group \in 1 .. outgoingUnsequencedGroup
  BY <1>1, <1>2, <1>3 DEF SentRight
<1>7. WindowInv'
  <2>1. UnsequencedNext
    BY <1>3, <1>6 DEF UnsequencedNext, DeliverUnsequenced
  <2>. QED
    BY <1>1, <2>1, WindowStep
<1>. QED
  BY <1>3, <1>4, <1>5, <1>7

-----------------------------------------------------------------------------
(* The inductive invariant.                                                 *)

(* What was sent stays right when nothing is sent.                          *)
LEMMA SentKept ==
    ASSUME SentRight, UNCHANGED senderVars,
           outgoingUnsequencedGroup' = outgoingUnsequencedGroup
    PROVE  SentRight'
BY DEF SentRight, senderVars

(* A channel that is good for what was sent and given to the application is *)
(* still good when neither changes.                                         *)
LEMMA GoodKept ==
    ASSUME Good(channel'), UNCHANGED senderVars, received' = received
    PROVE  Good(channel)'
<1>1. /\ packets' = packets /\ received' = received
      /\ outgoingReliableSequenceNumber' = outgoingReliableSequenceNumber
  BY DEF senderVars
<1>2. /\ channel' \in ChannelRecords /\ ListRight(channel') /\ ReliableRight(channel')
      /\ DeliveredRight(channel') /\ Behind(channel') /\ Waits(channel')
  BY DEF Good
<1>3. (channel \in ChannelRecords)'
  BY <1>2 DEF ChannelRecords, EntryRecords, AllKinds
<1>4. ListRight(channel)'
  BY <1>1, <1>2
  DEF ListRight, ListReady, EntryRight, InReach, IsPresent, Incoming, IsUnsequenced, Wire, Window
<1>5. ReliableRight(channel)'
  BY <1>1, <1>2 DEF ReliableRight
<1>6. DeliveredRight(channel)'
  BY <1>1, <1>2 DEF DeliveredRight, DeliveredAs
<1>7. Behind(channel)'
  BY <1>1, <1>2 DEF Behind
<1>8. Waits(channel)'
  BY <1>1, <1>2 DEF Waits, SpaceOf, PacketsOf, Size
<1>. QED
  BY <1>3, <1>4, <1>5, <1>6, <1>7, <1>8 DEF Good

(* What arrives keeps the invariant.                                        *)
LEMMA ReceiveKeeps ==
    ASSUME ChannelInv, MovesOn(channel, channel'), WindowInv',
           UNCHANGED <<senderVars, state, received>>,
           outgoingUnsequencedGroup' = outgoingUnsequencedGroup
    PROVE  ChannelInv'
<1>1. SentRight' /\ Good(channel)'
  BY SentKept, GoodKept DEF ChannelInv, MovesOn
<1>. QED
  BY <1>1 DEF ChannelInv

(* The unsequenced numbers stay right when no one uses them.                *)
LEMMA WindowKept == ASSUME WindowInv, UNCHANGED unsequencedVars PROVE WindowInv'
BY WindowStep

(* A list is its first element and the others.                              *)
LEMMA HeadFirst ==
    ASSUME NEW s \in Seq(Nat), s # << >>
    PROVE  /\ s = <<Head(s)>> \o Tail(s)
           /\ Head(s) \in Nat
           /\ Tail(s) \in Seq(Nat)
<1>1. /\ Head(s) \in Nat /\ Tail(s) \in Seq(Nat) /\ Len(Tail(s)) = Len(s) - 1
      /\ \A i \in 1 .. Len(Tail(s)) : Tail(s)[i] = s[i + 1]
  BY HeadTailProperties
<1>2. Len(s) \in Nat /\ Len(s) # 0
  BY LenProperties, EmptySeq
<1>3. PICK h, t : h = Head(s) /\ t = Tail(s)
  OBVIOUS
<1>4. h = s[1]
  BY <1>3
<1>5. <<h>> \in Seq(Nat) /\ Len(<<h>>) = 1 /\ <<h>>[1] = h
  BY <1>1, <1>3
<1>6. /\ <<h>> \o t \in Seq(Nat) /\ Len(<<h>> \o t) = 1 + Len(t)
      /\ \A i \in 1 .. 1 + Len(t) :
            (<<h>> \o t)[i] = IF i <= 1 THEN <<h>>[i] ELSE t[i - 1]
  <2>1. PICK a : a = <<h>>
    OBVIOUS
  <2>2. a \in Seq(Nat) /\ t \in Seq(Nat) /\ Len(a) = 1
    BY <1>1, <1>3, <1>5, <2>1
  <2>3. /\ a \o t \in Seq(Nat) /\ Len(a \o t) = Len(a) + Len(t)
        /\ \A i \in 1 .. Len(a) + Len(t) :
              (a \o t)[i] = IF i <= Len(a) THEN a[i] ELSE t[i - Len(a)]
    BY ONLY <2>2, ConcatProperties
  <2>. QED
    BY <2>1, <2>2, <2>3
<1>7. Len(t) = Len(s) - 1 /\ \A i \in 1 .. Len(t) : t[i] = s[i + 1]
  BY <1>1, <1>3
<1>8. ASSUME NEW i \in 1 .. Len(s) PROVE s[i] = (<<h>> \o t)[i]
  <2>1. CASE i = 1
    BY <1>2, <1>4, <1>5, <1>6, <1>7, <2>1
  <2>2. CASE i # 1
    <3>1. i - 1 \in 1 .. Len(t) /\ i \in 1 .. 1 + Len(t) /\ ~ (i <= 1)
      BY <1>2, <1>7, <2>2
    <3>2. t[i - 1] = s[(i - 1) + 1]
      BY <1>7, <3>1
    <3>3. (i - 1) + 1 = i
      OBVIOUS
    <3>. QED
      BY <1>6, <3>1, <3>2, <3>3
  <2>. QED
    BY <2>1, <2>2
<1>9. Len(s) = Len(<<h>> \o t)
  BY <1>2, <1>6, <1>7
<1>10. s = <<h>> \o t
  <2>1. PICK u : u = <<h>> \o t
    OBVIOUS
  <2>2. u \in Seq(Nat) /\ Len(s) = Len(u) /\ \A i \in 1 .. Len(s) : s[i] = u[i]
    BY <1>6, <1>8, <1>9, <2>1
  <2>. QED
    BY <2>1, <2>2, SeqEqual
<1>. QED
  BY <1>1, <1>3, <1>10

(* enet_peer_receive moves a packet from one list to the other.             *)
LEMMA MovedOver ==
    ASSUME NEW r \in Seq(Nat), NEW s \in Seq(Nat), s # << >>
    PROVE  Append(r, Head(s)) \o Tail(s) = r \o s /\ Append(r, Head(s)) \in Seq(Nat)
<1>1. /\ s = <<Head(s)>> \o Tail(s) /\ Head(s) \in Nat /\ Tail(s) \in Seq(Nat)
  BY HeadFirst
<1>2. PICK h, a, t : h = Head(s) /\ a = <<h>> /\ t = Tail(s)
  OBVIOUS
<1>3. a \in Seq(Nat) /\ t \in Seq(Nat) /\ h \in Nat /\ s = a \o t
  BY <1>1, <1>2
<1>4. Append(r, h) = r \o a /\ Append(r, h) \in Seq(Nat)
  BY <1>2, <1>3, AppendIsConcat, AppendProperties
<1>5. (r \o a) \o t = r \o (a \o t)
  BY ONLY r \in Seq(Nat), <1>3, ConcatAssociative
<1>. QED
  BY <1>2, <1>3, <1>4, <1>5

(* enet_peer_receive keeps the invariant, and what is delivered.            *)
LEMMA PeerReceiveKeeps ==
    ASSUME ChannelInv, PeerReceive
    PROVE  ChannelInv' /\ Delivered' = Delivered
<1>1. /\ SentRight /\ WindowInv /\ Good(channel) /\ received \in Seq(Nat)
      /\ state \in {"CONNECTED", "DISCONNECT_LATER"}
  BY DEF ChannelInv
<1>2. /\ channel \in ChannelRecords /\ ListRight(channel) /\ ReliableRight(channel)
      /\ DeliveredRight(channel) /\ Behind(channel) /\ Waits(channel)
  BY <1>1 DEF Good
<1>3. PICK p, t, w :
        /\ p = Head(channel.dispatched)
        /\ t = Tail(channel.dispatched)
        /\ w = channel.totalWaitingData - Min({channel.totalWaitingData, Size(p)})
  OBVIOUS
<1>4. /\ channel.dispatched # << >> /\ channel.dispatched \in Seq(Nat)
      /\ channel.totalWaitingData \in Nat
      /\ received' = Append(received, p)
      /\ channel' = [channel EXCEPT !.dispatched = t, !.totalWaitingData = w]
      /\ UNCHANGED <<senderVars, unsequencedVars, state>>
  BY <1>2, <1>3 DEF PeerReceive, ChannelRecords
<1>5. /\ p \in Nat /\ t \in Seq(Nat) /\ channel.dispatched = <<p>> \o t
      /\ received' \o t = received \o channel.dispatched
      /\ received' \in Seq(Nat)
  BY <1>1, <1>3, <1>4, HeadFirst, MovedOver
<1>6. SpaceOf(channel.dispatched) = Size(p) + SpaceOf(t) /\ Size(p) \in Nat
      /\ SpaceOf(t) \in Nat
  <2>1. PICK a : a = <<p>>
    OBVIOUS
  <2>2. a \in Seq(Nat) /\ SpaceOf(a) = Size(p) /\ Size(p) \in Nat
    BY <1>5, <2>1, SpaceOne
  <2>3. SpaceOf(a \o t) = SpaceOf(a) + SpaceOf(t) /\ SpaceOf(t) \in Nat
    BY <1>5, <2>2, SpaceConcat, SpaceFacts
  <2>. QED
    BY <1>5, <2>1, <2>2, <2>3
<1>. DEFINE s == SpaceOf(PacketsOf(channel.unreliable))
            c == Cardinality(channel.reliable)
            all == channel.totalWaitingData
<1>7. s \in Nat /\ c \in Nat /\ all = s + c + (Size(p) + SpaceOf(t))
  <2>1. s \in Nat
    BY <1>2, PacketsFacts, SpaceFacts DEF ChannelRecords
  <2>2. c \in Nat
    BY <1>1, <1>2, EarlyFinite, FS_CardinalityType
  <2>. QED
    BY <1>2, <1>6, <2>1, <2>2 DEF Waits
<1>. HIDE DEF s, c
<1>8. w = s + c + SpaceOf(t) /\ w \in Nat
  <2>1. Size(p) <= all /\ all \in Nat
    BY <1>6, <1>7
  <2>2. Min({all, Size(p)}) = Size(p)
    BY <1>6, <2>1, MinOfTwo
  <2>. QED
    BY <1>3, <1>6, <1>7, <2>2
<1>9. /\ channel' \in ChannelRecords
      /\ channel'.incomingReliableSequenceNumber = channel.incomingReliableSequenceNumber
      /\ channel'.incomingUnreliableSequenceNumber = channel.incomingUnreliableSequenceNumber
      /\ channel'.reliable = channel.reliable
      /\ channel'.unreliable = channel.unreliable
      /\ channel'.dispatched = t
      /\ channel'.totalWaitingData = w
  BY <1>2, <1>4, <1>5, <1>8 DEF ChannelRecords
<1>10. /\ packets' = packets
       /\ outgoingReliableSequenceNumber' = outgoingReliableSequenceNumber
       /\ outgoingUnsequencedGroup' = outgoingUnsequencedGroup
       /\ UNCHANGED senderVars /\ UNCHANGED unsequencedVars /\ state' = state
  BY <1>4 DEF senderVars, unsequencedVars
<1>11. ListRight(channel)'
  <2>1. \A e : EntryRight(e) => EntryRight(e)'
    BY <1>10 DEF EntryRight, Wire
  <2>2. \A q : InReach(channel, q) => InReach(channel, q)'
    BY <1>9, <1>10 DEF InReach, Window
  <2>3. \A e : IsPresent(channel, e)' => IsPresent(channel, e)
    BY <1>9 DEF IsPresent, Incoming, IsUnsequenced, Wire
  <2>. QED
    BY <1>2, <1>9, <1>10, <2>1, <2>2, <2>3 DEF ListRight, ListReady
<1>12. ReliableRight(channel)' /\ Behind(channel)'
  BY <1>2, <1>9, <1>10 DEF ReliableRight, Behind
<1>13. DeliveredRight(channel)'
  <2>1. PICK list : list = received \o channel.dispatched
    OBVIOUS
  <2>2. DeliveredAs(channel, list) /\ list = received' \o channel'.dispatched
    BY <1>2, <1>5, <1>9, <2>1 DEF DeliveredRight
  <2>. QED
    BY <1>9, <1>10, <2>2 DEF DeliveredRight, DeliveredAs
<1>14. Waits(channel)'
  <2>1. w = SpaceOf(PacketsOf(channel.unreliable)) + Cardinality(channel.reliable)
              + SpaceOf(t)
    BY <1>8 DEF s, c
  <2>. QED
    BY <1>9, <1>10, <2>1 DEF Waits, SpaceOf, PacketsOf, Size
<1>15. Good(channel)'
  BY <1>9, <1>11, <1>12, <1>13, <1>14 DEF Good, ChannelRecords, EntryRecords, AllKinds
<1>16. SentRight' /\ WindowInv'
  BY <1>1, <1>10, SentKept, WindowKept
<1>17. Delivered' = Delivered
  BY <1>5, <1>9 DEF Delivered
<1>. QED
  BY <1>1, <1>5, <1>10, <1>15, <1>16, <1>17 DEF ChannelInv

-----------------------------------------------------------------------------
(* Sending.                                                                 *)

(* The record of the new packet.                                            *)
NewPacket(kind) ==
    [kind       |-> IF GoesReliable(kind) THEN "reliable" ELSE kind,
     reliable   |-> outgoingReliableSequenceNumber',
     unreliable |-> NextUnreliable(kind),
     group      |-> outgoingUnsequencedGroup']

(* What enet_peer_send does to the numbers.                                 *)
LEMMA SendFacts ==
    ASSUME SentRight, WindowInv, NEW kind \in Kinds, Send(kind)
    PROVE  /\ packets' \in Seq(PacketRecords)
           /\ Len(packets) \in Nat /\ Len(packets') = Len(packets) + 1
           /\ \A p \in 1 .. Len(packets) : packets'[p] = packets[p]
           /\ packets'[Len(packets) + 1] = NewPacket(kind)
           /\ NewPacket(kind).kind = IF GoesReliable(kind) THEN "reliable" ELSE kind
           /\ NewPacket(kind).reliable = outgoingReliableSequenceNumber'
           /\ NewPacket(kind).unreliable = outgoingUnreliableSequenceNumber'
           /\ NewPacket(kind).group = outgoingUnsequencedGroup'
           /\ kind \in AllKinds
           /\ outgoingReliableSequenceNumber \in Nat
           /\ outgoingReliableSequenceNumber' =
                 outgoingReliableSequenceNumber + (IF GoesReliable(kind) THEN 1 ELSE 0)
           /\ outgoingUnreliableSequenceNumber \in Nat
           /\ outgoingUnreliableSequenceNumber' \in 0 .. UnreliableLimit
           /\ GoesReliable(kind) => outgoingUnreliableSequenceNumber' = 0
                                    /\ kind # "unsequenced"
           /\ kind = "unsequenced"
                 => /\ outgoingUnreliableSequenceNumber' = outgoingUnreliableSequenceNumber
                    /\ outgoingUnsequencedGroup' \in 1 .. outgoingUnsequencedGroup'
           /\ ~ GoesReliable(kind) /\ kind # "unsequenced"
                 => outgoingUnreliableSequenceNumber' = outgoingUnreliableSequenceNumber + 1
           /\ kind = "reliable" => GoesReliable(kind)
           /\ outgoingUnsequencedGroup \in Nat
           /\ outgoingUnsequencedGroup' \in Nat
           /\ outgoingUnsequencedGroup <= outgoingUnsequencedGroup'
<1>. DEFINE u == outgoingUnreliableSequenceNumber
            r == outgoingReliableSequenceNumber
            g == outgoingUnsequencedGroup
            L == UnreliableLimit
<1>1. /\ L \in Nat \ {0} /\ u \in 0 .. L /\ u \in Nat /\ r \in Nat
      /\ packets \in Seq(PacketRecords) /\ Len(packets) \in Nat /\ g \in Nat
  BY UnreliableAssumption, LenProperties DEF SentRight, WindowInv, UnsequencedTypeOK
<1>2. /\ kind \in AllKinds
      /\ kind = "reliable" => GoesReliable(kind)
      /\ GoesReliable(kind) => kind # "unsequenced"
      /\ ~ GoesReliable(kind) /\ kind # "unsequenced" => ~ (u >= L)
  BY UnreliableAssumption DEF AllKinds, GoesReliable
<1>3. /\ packets' = Append(packets, NewPacket(kind))
      /\ r' = r + (IF GoesReliable(kind) THEN 1 ELSE 0)
      /\ u' = NextUnreliable(kind)
      /\ IF kind = "unsequenced" THEN SendUnsequenced ELSE UNCHANGED unsequencedVars
  BY DEF Send, NewPacket
<1>4. /\ kind = "unsequenced" => u' = u
      /\ GoesReliable(kind) => u' = 0
      /\ ~ GoesReliable(kind) /\ kind # "unsequenced" => u' = (u + 1) % (L + 1)
  BY <1>2, <1>3 DEF NextUnreliable
<1>5. ~ GoesReliable(kind) /\ kind # "unsequenced" => u' = u + 1
  <2>. SUFFICES ASSUME ~ GoesReliable(kind), kind # "unsequenced" PROVE u' = u + 1
    OBVIOUS
  <2>1. u' = (u + 1) % (L + 1) /\ ~ (u >= L)
    BY <1>2, <1>4
  <2>. HIDE DEF u, L
  <2>2. u + 1 \in 0 .. L /\ L + 1 \in Nat \ {0}
    BY <1>1, <2>1
  <2>3. PICK a, b : a = u + 1 /\ b = L + 1
    OBVIOUS
  <2>4. a \in 0 .. b - 1 /\ b \in Nat \ {0} /\ a \in Nat
    BY <1>1, <2>2, <2>3
  <2>5. a % b = a
    <3>1. a = b * 0 + a /\ 0 \in Nat
      BY <2>4
    <3>. QED
      BY <2>4, <3>1, DivisionUnique
  <2>. QED
    BY <2>1, <2>3, <2>5
<1>6. u' \in 0 .. L
  <2>1. GoesReliable(kind) \/ kind = "unsequenced"
           \/ (~ GoesReliable(kind) /\ kind # "unsequenced")
    OBVIOUS
  <2>. HIDE DEF L
  <2>2. GoesReliable(kind) => u' \in 0 .. L
    BY <1>1, <1>4
  <2>3. kind = "unsequenced" => u' \in 0 .. L
    BY <1>1, <1>4
  <2>4. ~ GoesReliable(kind) /\ kind # "unsequenced" => u' \in 0 .. L
    BY <1>1, <1>2, <1>5
  <2>. QED
    BY <2>1, <2>2, <2>3, <2>4
<1>7. /\ kind = "unsequenced" => g' = g + 1
      /\ kind # "unsequenced" => g' = g
  BY <1>3 DEF SendUnsequenced, unsequencedVars
<1>8. g' \in Nat /\ g <= g' /\ (kind = "unsequenced" => g' \in 1 .. g')
  BY <1>1, <1>7
<1>9. r' \in Nat
  BY <1>1, <1>3
<1>. DEFINE k == IF GoesReliable(kind) THEN "reliable" ELSE kind
<1>10. k \in AllKinds
  BY <1>2 DEF AllKinds
<1>11. NewPacket(kind) = [kind |-> k, reliable |-> r', unreliable |-> u', group |-> g']
  BY <1>3 DEF NewPacket
<1>. HIDE DEF k
<1>12. u' \in Nat
  BY <1>1, <1>6
<1>13. /\ NewPacket(kind) \in PacketRecords
       /\ NewPacket(kind).kind = k
       /\ NewPacket(kind).reliable = r'
       /\ NewPacket(kind).unreliable = u'
       /\ NewPacket(kind).group = g'
  BY <1>8, <1>9, <1>10, <1>11, <1>12 DEF PacketRecords
<1>14. /\ packets' \in Seq(PacketRecords)
       /\ Len(packets') = Len(packets) + 1
       /\ \A p \in 1 .. Len(packets) : packets'[p] = packets[p]
       /\ packets'[Len(packets) + 1] = NewPacket(kind)
  <2>1. PICK rec : rec = NewPacket(kind)
    OBVIOUS
  <2>2. rec \in PacketRecords /\ packets' = Append(packets, rec)
    BY <1>3, <1>13, <2>1
  <2>. QED
    BY <1>1, <2>1, <2>2, AppendProperties
<1>. QED
  BY <1>1, <1>2, <1>3, <1>4, <1>5, <1>6, <1>7, <1>8, <1>13, <1>14 DEF k

(* The numbers of what was sent are right with the new packet.              *)
LEMMA SendSent ==
    ASSUME SentRight, WindowInv, NEW kind \in Kinds, Send(kind)
    PROVE  SentRight'
<1>. DEFINE n == Len(packets)
            u == outgoingUnreliableSequenceNumber
            r == outgoingReliableSequenceNumber
            g == outgoingUnsequencedGroup
            new == NewPacket(kind)
<1>1. /\ packets' \in Seq(PacketRecords)
      /\ n \in Nat /\ Len(packets') = n + 1
      /\ \A p \in 1 .. n : packets'[p] = packets[p]
      /\ packets'[n + 1] = new
      /\ new.kind = (IF GoesReliable(kind) THEN "reliable" ELSE kind)
      /\ new.reliable = r' /\ new.unreliable = u' /\ new.group = g'
      /\ r \in Nat /\ r' = r + (IF GoesReliable(kind) THEN 1 ELSE 0)
      /\ u \in Nat /\ u' \in 0 .. UnreliableLimit
      /\ GoesReliable(kind) => u' = 0 /\ kind # "unsequenced"
      /\ kind = "unsequenced" => u' = u /\ g' \in 1 .. g'
      /\ ~ GoesReliable(kind) /\ kind # "unsequenced" => u' = u + 1
      /\ kind = "reliable" => GoesReliable(kind)
      /\ g \in Nat /\ g' \in Nat /\ g <= g'
  BY SendFacts
<1>2. r' \in Nat /\ r <= r' /\ u' \in Nat
  <2>1. UnreliableLimit \in Nat
    BY UnreliableAssumption
  <2>. QED
    BY <1>1, <2>1
<1>3. new.kind = "unsequenced" <=> kind = "unsequenced"
  BY <1>1
<1>4. \A p \in 1 .. n :
         /\ packets[p].kind = "unsequenced" => packets[p].group \in 1 .. g
         /\ packets[p].kind # "unsequenced" =>
               /\ packets[p].kind = "reliable" <=> packets[p].unreliable = 0
               /\ packets[p].reliable <= r
               /\ packets[p].reliable = r => packets[p].unreliable <= u
         /\ packets[p].reliable \in Nat /\ packets[p].unreliable \in Nat
  <2>1. \A p \in 1 .. n : packets[p] \in PacketRecords
    BY ElementOfSeq DEF SentRight
  <2>2. \A p \in 1 .. n : packets[p].reliable \in Nat /\ packets[p].unreliable \in Nat
    BY <2>1 DEF PacketRecords
  <2>. QED
    BY <2>2 DEF SentRight
<1>5. \A p, q \in 1 .. n :
         /\ p < q
         /\ packets[p].kind # "unsequenced"
         /\ packets[q].kind # "unsequenced"
         => \/ packets[p].reliable < packets[q].reliable
            \/ /\ packets[p].reliable = packets[q].reliable
               /\ packets[p].unreliable < packets[q].unreliable
  BY DEF SentRight
<1>. HIDE DEF n, u, r, g, new
<1>6. ASSUME NEW p \in 1 .. n
      PROVE  /\ packets'[p].kind = "unsequenced" => packets'[p].group \in 1 .. g'
             /\ packets'[p].kind # "unsequenced" =>
                   /\ packets'[p].kind = "reliable" <=> packets'[p].unreliable = 0
                   /\ packets'[p].reliable <= r'
                   /\ packets'[p].reliable = r' => packets'[p].unreliable <= u'
  <2>1. packets'[p] = packets[p]
    BY <1>1
  <2>2. packets[p].kind = "unsequenced" => packets[p].group \in 1 .. g'
    BY <1>1, <1>4
  <2>3. ASSUME packets[p].kind # "unsequenced"
        PROVE  /\ packets[p].reliable <= r'
               /\ packets[p].reliable = r' => packets[p].unreliable <= u'
    <3>1. /\ packets[p].reliable <= r
          /\ packets[p].reliable = r => packets[p].unreliable <= u
          /\ packets[p].reliable \in Nat /\ packets[p].unreliable \in Nat
      BY <1>4, <2>3
    <3>2. GoesReliable(kind) => r' = r + 1
      BY <1>1
    <3>3. ~ GoesReliable(kind) => r' = r /\ (u' = u \/ u' = u + 1)
      BY <1>1
    <3>4. CASE GoesReliable(kind)
      BY <1>1, <3>1, <3>2, <3>4
    <3>5. CASE ~ GoesReliable(kind)
      BY <1>1, <3>1, <3>3, <3>5
    <3>. QED
      BY <3>4, <3>5
  <2>. QED
    BY <1>4, <2>1, <2>2, <2>3
<1>7. /\ new.kind = "unsequenced" => new.group \in 1 .. g'
      /\ new.kind # "unsequenced" =>
            /\ new.kind = "reliable" <=> new.unreliable = 0
            /\ new.reliable <= r'
            /\ new.reliable = r' => new.unreliable <= u'
  <2>1. new.kind = "unsequenced" => new.group \in 1 .. g'
    BY <1>1, <1>3
  <2>2. ASSUME new.kind # "unsequenced"
        PROVE  new.kind = "reliable" <=> new.unreliable = 0
    <3>1. CASE GoesReliable(kind)
      BY <1>1, <3>1
    <3>2. CASE ~ GoesReliable(kind)
      <4>1. new.kind # "reliable" /\ u' = u + 1
        BY <1>1, <1>3, <2>2, <3>2
      <4>. QED
        BY <1>1, <4>1
    <3>. QED
      BY <3>1, <3>2
  <2>. QED
    BY <1>1, <1>2, <2>1, <2>2
<1>8. ASSUME NEW p \in 1 .. n, packets[p].kind # "unsequenced", new.kind # "unsequenced"
      PROVE  \/ packets[p].reliable < new.reliable
             \/ /\ packets[p].reliable = new.reliable
                /\ packets[p].unreliable < new.unreliable
  <2>1. /\ packets[p].reliable <= r
        /\ packets[p].reliable = r => packets[p].unreliable <= u
        /\ packets[p].reliable \in Nat /\ packets[p].unreliable \in Nat
    BY <1>4, <1>8
  <2>2. CASE GoesReliable(kind)
    <3>1. new.reliable = r + 1
      BY <1>1, <2>2
    <3>. QED
      BY <1>1, <2>1, <3>1
  <2>3. CASE ~ GoesReliable(kind)
    <3>1. new.reliable = r /\ new.unreliable = u + 1
      BY <1>1, <1>3, <1>8, <2>3
    <3>. QED
      BY <1>1, <2>1, <3>1
  <2>. QED
    BY <2>2, <2>3
<1>9. \A p \in 1 .. n + 1 : p \in 1 .. n \/ p = n + 1
  BY <1>1
<1>10. ASSUME NEW p \in 1 .. n + 1
       PROVE  /\ packets'[p].kind = "unsequenced" => packets'[p].group \in 1 .. g'
              /\ packets'[p].kind # "unsequenced" =>
                    /\ packets'[p].kind = "reliable" <=> packets'[p].unreliable = 0
                    /\ packets'[p].reliable <= r'
                    /\ packets'[p].reliable = r' => packets'[p].unreliable <= u'
  BY <1>1, <1>6, <1>7, <1>9
<1>11. ASSUME NEW p \in 1 .. n + 1, NEW q \in 1 .. n + 1, p < q,
              packets'[p].kind # "unsequenced", packets'[q].kind # "unsequenced"
       PROVE  \/ packets'[p].reliable < packets'[q].reliable
              \/ /\ packets'[p].reliable = packets'[q].reliable
                 /\ packets'[p].unreliable < packets'[q].unreliable
  <2>1. p \in 1 .. n
    BY <1>1, <1>11
  <2>2. packets'[p] = packets[p]
    BY <1>1, <2>1
  <2>3. CASE q \in 1 .. n
    <3>1. packets'[q] = packets[q]
      BY <1>1, <2>3
    <3>. QED
      BY <1>5, <1>11, <2>1, <2>2, <2>3, <3>1
  <2>4. CASE q = n + 1
    BY <1>1, <1>8, <1>11, <2>1, <2>2, <2>4
  <2>. QED
    BY <1>9, <2>3, <2>4
<1>. QED
  BY <1>1, <1>2, <1>10, <1>11 DEF SentRight, u, r, g

(* The space of packets already sent does not change.                       *)
LEMMA SpaceKept ==
    ASSUME NEW n, \A p \in 1 .. n : packets'[p] = packets[p],
           NEW s \in Seq(Nat), \A k \in 1 .. Len(s) : s[k] \in 1 .. n
    PROVE  SpaceOf(s)' = SpaceOf(s)
<1>1. DOMAIN s = 1 .. Len(s)
  BY LenProperties
<1>2. \A k \in DOMAIN s : (packets'[s[k]]).kind = packets[s[k]].kind
  BY <1>1
<1>3. {k \in DOMAIN s : (IF packets'[s[k]].kind = "fragments" THEN Fragments ELSE 1) # 1}
         = {k \in DOMAIN s : (IF packets[s[k]].kind = "fragments" THEN Fragments ELSE 1) # 1}
  BY <1>2
<1>. QED
  BY <1>3 DEF SpaceOf, Size

(* A channel stays good when a packet is sent.                              *)
LEMMA SendGood ==
    ASSUME ChannelInv, NEW kind \in Kinds, Send(kind)
    PROVE  Good(channel)'
<1>. DEFINE n == Len(packets)
            r == outgoingReliableSequenceNumber
            new == NewPacket(kind)
            inc == channel.incomingReliableSequenceNumber
<1>1. SentRight /\ WindowInv /\ Good(channel) /\ received \in Seq(Nat)
  BY DEF ChannelInv
<1>2. /\ channel \in ChannelRecords /\ ListRight(channel) /\ ReliableRight(channel)
      /\ DeliveredRight(channel) /\ Behind(channel) /\ Waits(channel)
  BY <1>1 DEF Good
<1>3. /\ n \in Nat /\ Len(packets') = n + 1
      /\ \A p \in 1 .. n : packets'[p] = packets[p]
      /\ packets'[n + 1] = new
      /\ new.kind = (IF GoesReliable(kind) THEN "reliable" ELSE kind)
      /\ new.reliable = r'
      /\ r \in Nat /\ r' = r + (IF GoesReliable(kind) THEN 1 ELSE 0)
      /\ kind = "reliable" => GoesReliable(kind)
  BY <1>1, SendFacts
<1>4. /\ channel' = channel /\ received' = received
      /\ GoesReliable(kind) => r - inc < Backlog
  BY DEF Send
<1>5. inc \in Nat /\ Backlog \in Nat /\ inc <= r /\ r <= inc + Backlog
  <2>1. Backlog \in Nat
    <3>1. (Windows - 1) * WindowSize \in Int
      BY Sizes
    <3>. QED
      BY <3>1, UnreliableAssumption
  <2>. QED
    BY <1>2, <2>1 DEF ChannelRecords, Behind
<1>. HIDE DEF n, new
<1>6. \A p \in 1 .. n : p \in 1 .. n + 1
  BY <1>3
<1>7. ListRight(channel)'
  <2>1. PICK ch : ch = channel
    OBVIOUS
  <2>2. ListRight(ch) /\ ListReady(ch, 0)
    BY <1>2, <2>1 DEF ListRight
  <2>3. ASSUME NEW k \in 1 .. Len(ch.unreliable), NEW e, e = ch.unreliable[k]
        PROVE  /\ EntryRight(e)'
               /\ (e.kind # "unsequenced" => InReach(ch, e.packet))'
               /\ (e.packet = 0 /\ e.kind # "unsequenced"
                      => packets[e.packet].reliable >= ch.incomingReliableSequenceNumber)'
               /\ e.kind # "unsequenced"
               /\ (packets[e.packet].reliable >= ch.incomingReliableSequenceNumber)'
               /\ (packets[e.packet].reliable = ch.incomingReliableSequenceNumber
                      => e.missing # {})'
    <3>1. /\ EntryRight(e) /\ (e.kind # "unsequenced" => InReach(ch, e.packet))
          /\ e.kind # "unsequenced"
          /\ packets[e.packet].reliable >= ch.incomingReliableSequenceNumber
          /\ packets[e.packet].reliable = ch.incomingReliableSequenceNumber
                => e.missing # {}
      BY <2>2, <2>3 DEF ListRight, ListReady
    <3>2. e.packet \in 1 .. n
      BY <3>1 DEF EntryRight, n
    <3>3. e.packet \in 1 .. n + 1 /\ packets'[e.packet] = packets[e.packet]
      BY <1>3, <1>6, <3>2
    <3>4. EntryRight(e)'
      BY <1>3, <3>1, <3>3 DEF EntryRight, Wire
    <3>5. InReach(ch, e.packet)'
      BY <3>1, <3>3 DEF InReach, Window
    <3>. QED
      BY <3>1, <3>3, <3>4, <3>5
  <2>4. \A i, k \in 1 .. Len(ch.unreliable) :
           i < k => /\ ch.unreliable[k].kind # "unsequenced"
                    /\ ch.unreliable[i].kind # "unsequenced"
                          => ch.unreliable[i].packet < ch.unreliable[k].packet
    BY <2>2 DEF ListReady
  <2>5. ListReady(ch, 0)'
    BY <2>3, <2>4 DEF ListReady
  <2>6. ListRight(ch)'
    BY <2>3, <2>5 DEF ListRight
  <2>7. channel' = ch
    BY <1>4, <2>1
  <2>. QED
    BY <2>6, <2>7
    DEF ListRight, ListReady, EntryRight, InReach, IsPresent, Incoming, IsUnsequenced, Wire, Window
<1>8. ReliableRight(channel)'
  <2>1. \A p \in channel.reliable : p \in 1 .. n
    BY <1>2 DEF ReliableRight, n
  <2>2. \A p \in channel.reliable : p \in 1 .. n + 1 /\ packets'[p] = packets[p]
    BY <1>3, <1>6, <2>1
  <2>. QED
    BY <1>2, <1>3, <1>4, <2>2 DEF ReliableRight, n
<1>9. PICK list : list = received \o channel.dispatched
  OBVIOUS
<1>10. DeliveredAs(channel, list)
  BY <1>2, <1>9 DEF DeliveredRight
<1>11. /\ list \in Seq(1 .. n) /\ Len(list) \in Nat
       /\ \A k \in 1 .. Len(list) : list[k] \in 1 .. n
  BY <1>10, LenProperties, ElementOfSeq DEF DeliveredAs, n
<1>12. DeliveredAs(channel, list)'
  <2>1. list \in Seq(1 .. n + 1)
    BY <1>6, <1>11, SeqMonotonic
  <2>2. \A k \in 1 .. Len(list) : packets'[list[k]] = packets[list[k]]
    BY <1>3, <1>11
  <2>3. ASSUME NEW q \in 1 .. n + 1, packets'[q].kind = "reliable",
               packets'[q].reliable <= inc
        PROVE  \E k \in 1 .. Len(list) : list[k] = q
    <3>1. CASE q \in 1 .. n
      <4>1. packets'[q] = packets[q]
        BY <1>3, <3>1
      <4>. QED
        BY <1>10, <2>3, <3>1, <4>1 DEF DeliveredAs, n
    <3>2. CASE q = n + 1
      <4>1. new.kind = "reliable" /\ new.reliable <= inc
        BY <1>3, <2>3, <3>2
      <4>2. GoesReliable(kind)
        BY <1>3, <4>1
      <4>3. r' = r + 1 /\ r' <= inc
        BY <1>3, <4>1, <4>2
      <4>. QED
        BY <1>3, <1>5, <4>3
    <3>. QED
      BY <1>3, <3>1, <3>2
  <2>4. Len(packets') = n + 1 /\ channel' = channel
    BY <1>3, <1>4
  <2>5. /\ \A k \in 1 .. Len(list) :
              packets'[list[k]].kind # "unsequenced" =>
                 /\ packets'[list[k]].reliable <= inc
                 /\ packets'[list[k]].reliable = inc
                       => packets'[list[k]].unreliable
                             <= channel.incomingUnreliableSequenceNumber
        /\ \A j, k \in 1 .. Len(list) :
              /\ j < k
              /\ packets'[list[j]].kind # "unsequenced"
              /\ packets'[list[k]].kind # "unsequenced"
              => list[j] < list[k]
    BY <1>10, <2>2 DEF DeliveredAs
  <2>. QED
    BY <2>1, <2>3, <2>4, <2>5 DEF DeliveredAs
<1>13. DeliveredRight(channel)'
  BY <1>4, <1>9, <1>12 DEF DeliveredRight, DeliveredAs
<1>14. Behind(channel)'
  <2>1. CASE GoesReliable(kind)
    <3>1. r' = r + 1 /\ r - inc < Backlog
      BY <1>3, <1>4, <2>1
    <3>2. inc <= r' /\ r' <= inc + Backlog
      BY <1>3, <1>5, <3>1
    <3>. QED
      BY <1>4, <3>2 DEF Behind
  <2>2. CASE ~ GoesReliable(kind)
    <3>1. r' = r
      BY <1>3, <2>2
    <3>. QED
      BY <1>4, <1>5, <3>1 DEF Behind
  <2>. QED
    BY <2>1, <2>2
<1>15. Waits(channel)'
  <2>1. PICK s, t : s = PacketsOf(channel.unreliable) /\ t = channel.dispatched
    OBVIOUS
  <2>2. s \in Seq(Nat) /\ t \in Seq(Nat) /\ channel.unreliable \in Seq(EntryRecords)
    BY <1>2, <2>1, PacketsFacts DEF ChannelRecords
  <2>3. \A k \in 1 .. Len(s) : s[k] \in 1 .. n
    <3>1. /\ Len(s) = Len(channel.unreliable)
          /\ \A k \in 1 .. Len(channel.unreliable) : s[k] = channel.unreliable[k].packet
      BY <2>1, <2>2, PacketsFacts
    <3>2. \A k \in 1 .. Len(channel.unreliable) :
             EntryRight(channel.unreliable[k])
      BY <1>2 DEF ListRight, ListReady
    <3>. QED
      BY <3>1, <3>2 DEF EntryRight, n
  <2>4. \A k \in 1 .. Len(t) : t[k] \in 1 .. n
    <3>1. list = received \o t
      BY <1>9, <2>1
    <3>2. /\ Len(received \o t) = Len(received) + Len(t)
          /\ \A i \in 1 .. Len(received) + Len(t) :
                (received \o t)[i] = IF i <= Len(received) THEN received[i]
                                     ELSE t[i - Len(received)]
      <4>1. PICK h : h = received
        OBVIOUS
      <4>2. h \in Seq(Nat)
        BY <1>1, <4>1
      <4>3. /\ Len(h \o t) = Len(h) + Len(t)
            /\ \A i \in 1 .. Len(h) + Len(t) :
                  (h \o t)[i] = IF i <= Len(h) THEN h[i] ELSE t[i - Len(h)]
        BY ONLY <2>2, <4>2, ConcatProperties
      <4>. QED
        BY <4>1, <4>3
    <3>3. Len(received) \in Nat /\ Len(t) \in Nat
      BY <1>1, <2>2, LenProperties
    <3>4. ASSUME NEW k \in 1 .. Len(t) PROVE t[k] \in 1 .. n
      <4>1. PICK i : i = Len(received) + k
        OBVIOUS
      <4>2. /\ i \in 1 .. Len(received) + Len(t) /\ ~ (i <= Len(received))
            /\ i - Len(received) = k
        BY <3>3, <4>1
      <4>3. list[i] = t[k] /\ i \in 1 .. Len(list)
        BY <3>1, <3>2, <4>2
      <4>. QED
        BY <1>11, <4>3
    <3>. QED
      BY <3>4
  <2>5. SpaceOf(s)' = SpaceOf(s) /\ SpaceOf(t)' = SpaceOf(t)
    BY <1>3, <2>2, <2>3, <2>4, SpaceKept
  <2>6. channel.totalWaitingData = SpaceOf(s) + Cardinality(channel.reliable) + SpaceOf(t)
    BY <1>2, <2>1 DEF Waits
  <2>7. s = PacketsOf(channel'.unreliable) /\ t = channel'.dispatched
        /\ channel'.totalWaitingData = channel.totalWaitingData
        /\ channel'.reliable = channel.reliable
    BY <1>4, <2>1
  <2>. QED
    BY <2>5, <2>6, <2>7 DEF Waits, SpaceOf, Size, PacketsOf
<1>16. (channel \in ChannelRecords)'
  BY <1>2, <1>4 DEF ChannelRecords, EntryRecords, AllKinds
<1>. QED
  BY <1>7, <1>8, <1>13, <1>14, <1>15, <1>16 DEF Good

(* enet_peer_send keeps the invariant.                                      *)
LEMMA SendKeeps ==
    ASSUME ChannelInv, NEW kind \in Kinds, Send(kind)
    PROVE  ChannelInv'
<1>1. SentRight /\ WindowInv
  BY DEF ChannelInv
<1>2. WindowInv'
  <2>1. IF kind = "unsequenced" THEN SendUnsequenced ELSE UNCHANGED unsequencedVars
    BY DEF Send
  <2>2. [UnsequencedNext]_unsequencedVars
    BY <2>1 DEF UnsequencedNext
  <2>. QED
    BY <1>1, <2>2, WindowStep
<1>3. SentRight' /\ Good(channel)'
  BY <1>1, SendSent, SendGood
<1>4. received' = received /\ state' = state
  BY DEF Send
<1>. QED
  BY <1>2, <1>3, <1>4 DEF ChannelInv

-----------------------------------------------------------------------------
(* The theorems.                                                            *)

(* No packets take no space.                                                *)
LEMMA SpaceEmpty == SpaceOf(<< >>) = 0 /\ PacketsOf(<< >>) = << >>
<1>1. DOMAIN << >> = {} /\ Len(<< >>) = 0
  OBVIOUS
<1>2. PacketsOf(<< >>) = << >>
  BY <1>1 DEF PacketsOf
<1>3. {k \in DOMAIN << >> : Size(<< >>[k]) # 1} = {}
  BY <1>1
<1>4. Cardinality({}) = 0
  BY FS_EmptySet
<1>5. SpaceOf(<< >>) = 0 + (Fragments - 1) * 0
  BY <1>1, <1>3, <1>4 DEF SpaceOf
<1>6. Fragments \in Nat
  BY UnreliableAssumption
<1>. QED
  BY <1>2, <1>5, <1>6

(* The invariant holds when the connection is made.                         *)
LEMMA ChannelInit == Init => ChannelInv
<1>. SUFFICES ASSUME Init PROVE ChannelInv
  OBVIOUS
<1>1. PICK first \in Starts :
        /\ packets = <<>>
        /\ outgoingReliableSequenceNumber = first
        /\ outgoingUnreliableSequenceNumber = 0
        /\ channel = [incomingReliableSequenceNumber |-> first,
                      incomingUnreliableSequenceNumber |-> 0,
                      reliable   |-> {},
                      unreliable |-> <<>>,
                      dispatched |-> <<>>,
                      totalWaitingData |-> 0]
        /\ UnsequencedInit(first)
        /\ state = "CONNECTED"
        /\ received = <<>>
  BY DEF Init
<1>2. first \in Nat /\ UnreliableLimit \in Nat /\ Backlog \in Nat
  <2>1. (Windows - 1) * WindowSize \in Int
    BY Sizes
  <2>. QED
    BY <1>1, <2>1, UnreliableAssumption
<1>3. WindowInv
  BY <1>1, <1>2, WindowInit
<1>4. UnsequencedTypeOK
  BY <1>3 DEF WindowInv
<1>5. Len(<< >>) = 0 /\ 1 .. 0 = {} /\ \A T : << >> \in Seq(T)
  BY EmptySeq
<1>6. SentRight
  <2>1. 0 \in 0 .. UnreliableLimit
    BY <1>2
  <2>. QED
    BY <1>1, <1>2, <1>5, <2>1 DEF SentRight
<1>7. /\ channel.incomingReliableSequenceNumber = first
      /\ channel.incomingUnreliableSequenceNumber = 0
      /\ channel.reliable = {}
      /\ channel.unreliable = << >>
      /\ channel.dispatched = << >>
      /\ channel.totalWaitingData = 0
  BY <1>1
<1>8. channel \in ChannelRecords
  BY <1>1, <1>2, <1>5 DEF ChannelRecords
<1>9. ListRight(channel) /\ ReliableRight(channel)
  BY <1>5, <1>7 DEF ListRight, ListReady, ReliableRight
<1>10. DeliveredRight(channel)
  <2>1. received \o channel.dispatched = << >>
    BY <1>1, <1>7
  <2>. QED
    BY <1>1, <1>5, <2>1 DEF DeliveredRight, DeliveredAs
<1>11. Behind(channel)
  BY <1>1, <1>2, <1>7 DEF Behind
<1>12. Waits(channel)
  <2>1. Cardinality({}) = 0
    BY FS_EmptySet
  <2>. QED
    BY <1>7, <2>1, SpaceEmpty DEF Waits
<1>13. received \in Seq(Nat)
  BY <1>1, <1>5
<1>14. Good(channel)
  BY <1>8, <1>9, <1>10, <1>11, <1>12 DEF Good
<1>. QED
  BY <1>1, <1>3, <1>6, <1>13, <1>14 DEF ChannelInv

(* Every step of the receiver keeps the invariant, and adds to what is      *)
(* delivered.                                                               *)
LEMMA ReceiverStep ==
    ASSUME ChannelInv, MovesOn(channel, channel'), WindowInv',
           UNCHANGED <<senderVars, received>>,
           state' \in {"CONNECTED", "DISCONNECT_LATER"},
           outgoingUnsequencedGroup' = outgoingUnsequencedGroup
    PROVE  /\ ChannelInv'
           /\ packets' = packets
           /\ Extends(Delivered, Delivered')
<1>1. SentRight' /\ Good(channel)'
  BY SentKept, GoodKept DEF ChannelInv, MovesOn
<1>2. ChannelInv'
  BY <1>1 DEF ChannelInv
<1>3. /\ received \in Seq(Nat) /\ channel.dispatched \in Seq(Nat)
      /\ Extends(channel.dispatched, channel'.dispatched)
  BY DEF ChannelInv, Good, ChannelRecords, MovesOn
<1>4. Extends(received \o channel.dispatched, received \o channel'.dispatched)
  BY <1>3, ExtendsBehind
<1>. QED
  BY <1>2, <1>4 DEF Delivered, senderVars

(* Every step keeps the invariant; it either sends a packet and delivers    *)
(* none, or sends none and adds to what is delivered.                       *)
LEMMA ChannelStep ==
    ASSUME ChannelInv, [Next]_vars
    PROVE  /\ ChannelInv'
           /\ \/ \E kind \in Kinds : Send(kind) /\ Delivered' = Delivered
              \/ packets' = packets /\ Extends(Delivered, Delivered')
<1>1. /\ WindowInv /\ Good(channel) /\ state \in {"CONNECTED", "DISCONNECT_LATER"}
      /\ received \in Seq(Nat) /\ channel.dispatched \in Seq(Nat)
  BY DEF ChannelInv, Good, ChannelRecords
<1>2. MovesOn(channel, channel)
  BY <1>1, ExtendsSelf DEF MovesOn
<1>3. ASSUME NEW kind \in Kinds, Send(kind)
      PROVE  ChannelInv' /\ Delivered' = Delivered
  BY <1>3, SendKeeps DEF Send, Delivered
<1>4. ASSUME NEW p \in DOMAIN packets, ReceiveReliable(p)
      PROVE  ChannelInv' /\ packets' = packets /\ Extends(Delivered, Delivered')
  <2>1. /\ UNCHANGED <<senderVars, unsequencedVars, state, received>>
        /\ outgoingUnsequencedGroup' = outgoingUnsequencedGroup
    BY <1>4 DEF ReceiveReliable, unsequencedVars
  <2>2. MovesOn(channel, channel')
    BY <1>4, ReliableMoves
  <2>3. WindowInv'
    BY <1>1, <2>1, WindowKept
  <2>. QED
    BY <1>1, <2>1, <2>2, <2>3, ReceiverStep
<1>5. ASSUME NEW p \in DOMAIN packets, ReceiveUnreliable(p)
      PROVE  ChannelInv' /\ packets' = packets /\ Extends(Delivered, Delivered')
  <2>1. /\ UNCHANGED <<senderVars, unsequencedVars, state, received>>
        /\ outgoingUnsequencedGroup' = outgoingUnsequencedGroup
    BY <1>5 DEF ReceiveUnreliable, unsequencedVars
  <2>2. MovesOn(channel, channel')
    BY <1>5, UnreliableMoves
  <2>3. WindowInv'
    BY <1>1, <2>1, WindowKept
  <2>. QED
    BY <1>1, <2>1, <2>2, <2>3, ReceiverStep
<1>6. ASSUME NEW p \in DOMAIN packets, NEW f \in 1 .. FragmentCount(p), ReceiveFragment(p, f)
      PROVE  ChannelInv' /\ packets' = packets /\ Extends(Delivered, Delivered')
  <2>1. /\ UNCHANGED <<senderVars, unsequencedVars, state, received>>
        /\ outgoingUnsequencedGroup' = outgoingUnsequencedGroup
    BY <1>6 DEF ReceiveFragment, unsequencedVars
  <2>2. MovesOn(channel, channel')
    BY <1>6, FragmentMoves
  <2>3. WindowInv'
    BY <1>1, <2>1, WindowKept
  <2>. QED
    BY <1>1, <2>1, <2>2, <2>3, ReceiverStep
<1>7. ASSUME NEW p \in DOMAIN packets, ReceiveUnsequencedPacket(p)
      PROVE  ChannelInv' /\ packets' = packets /\ Extends(Delivered, Delivered')
  <2>1. /\ UNCHANGED <<senderVars, state, received>>
        /\ outgoingUnsequencedGroup' = outgoingUnsequencedGroup
    BY <1>7 DEF ReceiveUnsequencedPacket, ReceiveUnsequenced
  <2>2. MovesOn(channel, channel') /\ WindowInv'
    BY <1>7, UnsequencedMoves
  <2>. QED
    BY <1>1, <2>1, <2>2, ReceiverStep
<1>8. CASE DisconnectLater
  <2>1. /\ UNCHANGED <<senderVars, unsequencedVars, channel, received>>
        /\ state' = "DISCONNECT_LATER"
        /\ outgoingUnsequencedGroup' = outgoingUnsequencedGroup
    BY <1>8 DEF DisconnectLater, unsequencedVars
  <2>2. WindowInv'
    BY <1>1, <2>1, WindowKept
  <2>. QED
    BY <1>2, <2>1, <2>2, ReceiverStep
<1>9. CASE PeerReceive
  <2>1. ChannelInv' /\ Delivered' = Delivered
    BY <1>9, PeerReceiveKeeps
  <2>2. packets' = packets
    BY <1>9 DEF PeerReceive, senderVars
  <2>3. Extends(Delivered, Delivered)
    BY <1>1, ConcatProperties, ExtendsSelf DEF Delivered
  <2>. QED
    BY <2>1, <2>2, <2>3
<1>10. CASE UNCHANGED vars
  <2>1. /\ UNCHANGED <<senderVars, unsequencedVars, channel, state, received>>
        /\ outgoingUnsequencedGroup' = outgoingUnsequencedGroup
    BY <1>10 DEF vars, unsequencedVars
  <2>2. WindowInv'
    BY <1>1, <2>1, WindowKept
  <2>. QED
    BY <1>1, <1>2, <2>1, <2>2, ReceiverStep
<1>. QED
  BY <1>3, <1>4, <1>5, <1>6, <1>7, <1>8, <1>9, <1>10 DEF Next

(* The numbers on the list, the count, the window and what is delivered     *)
(* stay right, whatever is sent and in whatever order it arrives.           *)
THEOREM ChannelRight == Spec => []ChannelInv
<1>1. Init => ChannelInv
  BY ChannelInit
<1>2. ChannelInv /\ [Next]_vars => ChannelInv'
  BY ChannelStep
<1>. QED
  BY <1>1, <1>2, PTL DEF Spec

(* totalWaitingData is the space of the packets on the lists: what          *)
(* enet_peer_remove_incoming_commands drops takes no room for ever.         *)
THEOREM SpaceAccounted == Spec => []WaitingExact
<1>1. ChannelInv => WaitingExact
  BY DEF ChannelInv, Good, Waits, WaitingExact
<1>. QED
  BY <1>1, ChannelRight, PTL

(* A partial packet is made of fragments of the packet it was begun for,    *)
(* however the 16-bit numbers wrap.                                         *)
THEOREM FragmentsOwn == Spec => []OwnFragments
<1>1. ChannelInv => OwnFragments
  <2>. SUFFICES ASSUME ChannelInv, NEW k \in DOMAIN channel.unreliable
                PROVE  channel.unreliable[k].from \subseteq {channel.unreliable[k].packet}
    BY DEF OwnFragments
  <2>1. channel.unreliable \in Seq(EntryRecords) /\ ListReady(channel, 0)
    BY DEF ChannelInv, Good, ChannelRecords, ListRight
  <2>2. k \in 1 .. Len(channel.unreliable)
    BY <2>1, LenProperties
  <2>3. EntryRight(channel.unreliable[k])
    BY <2>1, <2>2 DEF ListReady
  <2>. QED
    BY <2>3 DEF EntryRight
<1>. QED
  BY <1>1, ChannelRight, PTL

(* An unsequenced packet of a channel that carries packets of all kinds is  *)
(* not accepted twice either.                                               *)
THEOREM ChannelAcceptedOnce == Spec => []AcceptedOnce
<1>1. ChannelInv => AcceptedOnce
  BY WindowOnce DEF ChannelInv
<1>. QED
  BY <1>1, ChannelRight, PTL

-----------------------------------------------------------------------------
(* The channel delivers in sequence.                                        *)

(* What the abstract channel has sent and delivered.                        *)
SentFlags == [p \in DOMAIN packets |-> packets[p].kind = "reliable"]

Places == {k \in DOMAIN Delivered : IsSequenced(Delivered[k])}

InSequence == Pick(Delivered, Places)

(* What is delivered is increasing, and has no gap where a reliable packet  *)
(* belongs.                                                                 *)
Gapless ==
    /\ packets \in Seq(PacketRecords)
    /\ Delivered \in Seq(1 .. Len(packets))
    /\ InSequence \in Seq(1 .. Len(packets))
    /\ \A j, k \in 1 .. Len(InSequence) : j < k => InSequence[j] < InSequence[k]
    /\ \A k \in 1 .. Len(InSequence), q \in 1 .. Len(packets) :
          packets[q].kind = "reliable" /\ q < InSequence[k]
             => \E j \in 1 .. Len(InSequence) : InSequence[j] = q

(* The invariant says so.                                                   *)
LEMMA DeliveredGapless == ChannelInv => Gapless
<1>. SUFFICES ASSUME ChannelInv PROVE Gapless
  OBVIOUS
<1>1. SentRight /\ channel \in ChannelRecords /\ DeliveredRight(channel)
  BY DEF ChannelInv, Good
<1>2. PICK D, S : D = Delivered /\ S = Places
  OBVIOUS
<1>3. PICK P : P = Pick(D, S)
  OBVIOUS
<1>. DEFINE n == Len(packets)
            inc == channel.incomingReliableSequenceNumber
<1>4. DeliveredAs(channel, D)
  BY <1>1, <1>2 DEF DeliveredRight, Delivered
<1>5. /\ D \in Seq(1 .. n) /\ Len(D) \in Nat /\ DOMAIN D = 1 .. Len(D)
      /\ \A k \in 1 .. Len(D) : D[k] \in 1 .. n
  BY <1>4, LenProperties, ElementOfSeq DEF DeliveredAs
<1>6. S = {k \in 1 .. Len(D) : packets[D[k]].kind # "unsequenced"}
  BY <1>2, <1>5 DEF Places, IsSequenced
<1>7. S \in SUBSET (1 .. Len(D))
  BY <1>6
<1>8. /\ P \in Seq(1 .. n) /\ Len(P) = Cardinality(S) /\ Len(P) \in Nat
      /\ \A j \in 1 .. Len(P) : Ascending(S)[j] \in S /\ P[j] = D[Ascending(S)[j]]
      /\ \A j, k \in 1 .. Len(P) : j < k => Ascending(S)[j] < Ascending(S)[k]
      /\ IsFiniteSet(S)
  <2>1. PICK N : N = 1 .. n
    OBVIOUS
  <2>2. D \in Seq(N) /\ S \in SUBSET (1 .. Len(D)) /\ P = Pick(D, S)
    BY ONLY <1>3, <1>5, <1>7, <2>1
  <2>3. /\ P \in Seq(N) /\ Len(P) = Cardinality(S) /\ Cardinality(S) \in Nat
        /\ \A j \in 1 .. Cardinality(S) :
              Ascending(S)[j] \in S /\ P[j] = D[Ascending(S)[j]]
        /\ \A j, k \in 1 .. Cardinality(S) : j < k => Ascending(S)[j] < Ascending(S)[k]
        /\ IsFiniteSet(S)
    BY ONLY <2>2, PickFacts
  <2>. QED
    BY ONLY <2>1, <2>3
<1>9. \A s \in S : \E j \in 1 .. Len(P) : P[j] = D[s]
  <2>1. S \subseteq Nat
    BY <1>5, <1>7
  <2>2. \A s \in S : \E j \in 1 .. Cardinality(S) : Ascending(S)[j] = s
    BY <1>8, <2>1, AscendingFacts
  <2>. QED
    BY <1>8, <2>2
<1>10. ASSUME NEW j \in 1 .. Len(P), NEW k \in 1 .. Len(P), j < k
       PROVE  P[j] < P[k]
  <2>1. PICK s, t : s = Ascending(S)[j] /\ t = Ascending(S)[k]
    OBVIOUS
  <2>2. s \in S /\ t \in S /\ P[j] = D[s] /\ P[k] = D[t] /\ s < t
    BY <1>8, <1>10, <2>1
  <2>3. /\ s \in 1 .. Len(D) /\ t \in 1 .. Len(D)
        /\ packets[D[s]].kind # "unsequenced" /\ packets[D[t]].kind # "unsequenced"
    BY <1>6, <2>2
  <2>. QED
    BY <1>4, <2>2, <2>3 DEF DeliveredAs
<1>11. ASSUME NEW k \in 1 .. Len(P), NEW q \in 1 .. n,
              packets[q].kind = "reliable", q < P[k]
       PROVE  \E j \in 1 .. Len(P) : P[j] = q
  <2>1. PICK p, s : p = P[k] /\ s = Ascending(S)[k]
    OBVIOUS
  <2>2. s \in S /\ p = D[s]
    BY <1>8, <2>1
  <2>3. s \in 1 .. Len(D) /\ packets[p].kind # "unsequenced" /\ p \in 1 .. n
    BY <1>5, <1>6, <2>2
  <2>4. packets[p].reliable <= inc
    BY <1>4, <2>2, <2>3 DEF DeliveredAs
  <2>5. packets[q].reliable <= packets[p].reliable /\ packets[q].reliable \in Nat
        /\ packets[p].reliable \in Nat
    <3>1. packets[q].kind # "unsequenced" /\ q < p
      BY <1>11, <2>1
    <3>. QED
      BY <1>1, <2>3, <3>1, PacketOrder
  <2>6. packets[q].reliable <= inc
    <3>1. inc \in Nat
      BY <1>1 DEF ChannelRecords
    <3>. HIDE DEF inc
    <3>. QED
      BY <2>4, <2>5, <3>1
  <2>7. PICK i \in 1 .. Len(D) : D[i] = q
    BY <1>4, <1>11, <2>6 DEF DeliveredAs
  <2>8. i \in S
    BY <1>6, <1>11, <2>7
  <2>. QED
    BY <1>9, <2>7, <2>8
<1>12. P = InSequence
  BY <1>2, <1>3 DEF InSequence
<1>. QED
  BY <1>1, <1>2, <1>5, <1>8, <1>10, <1>11, <1>12 DEF Gapless, SentRight

(* Adding to what is delivered delivers packets that may follow, or only    *)
(* unsequenced ones.                                                        *)
LEMMA MoreDelivers ==
    ASSUME Gapless, Gapless', packets' = packets, Extends(Delivered, Delivered')
    PROVE  \/ Sequenced!Deliver
           \/ UNCHANGED <<SentFlags, InSequence>>
<1>. DEFINE n == Len(packets)
<1>1. PICK D, E : D = Delivered /\ E = Delivered'
  OBVIOUS
<1>2. PICK S, T : S = Places /\ T = Places'
  OBVIOUS
<1>3. PICK P, Q : P = InSequence /\ Q = InSequence'
  OBVIOUS
<1>4. /\ D \in Seq(1 .. n) /\ E \in Seq(1 .. n) /\ P \in Seq(1 .. n) /\ Q \in Seq(1 .. n)
      /\ packets \in Seq(PacketRecords) /\ n \in Nat
  BY <1>1, <1>3, LenProperties DEF Gapless
<1>5. /\ Len(D) \in Nat /\ Len(E) \in Nat /\ Len(P) \in Nat /\ Len(Q) \in Nat
      /\ DOMAIN D = 1 .. Len(D) /\ DOMAIN E = 1 .. Len(E)
      /\ \A k \in 1 .. Len(Q) : Q[k] \in 1 .. n
      /\ DOMAIN packets = 1 .. n
  BY <1>4, LenProperties, ElementOfSeq
<1>6. /\ S = {k \in 1 .. Len(D) : packets[D[k]].kind # "unsequenced"}
      /\ T = {k \in 1 .. Len(E) : packets[E[k]].kind # "unsequenced"}
      /\ P = Pick(D, S) /\ Q = Pick(E, T)
  BY <1>1, <1>2, <1>3, <1>5 DEF Places, IsSequenced, InSequence
<1>7. Len(D) <= Len(E) /\ \A k \in 1 .. Len(D) : E[k] = D[k]
  <2>1. PICK more \in Seq(Nat) : E = D \o more
    BY <1>1 DEF Extends
  <2>2. D \in Seq(Nat)
    <3>1. 1 .. n \subseteq Nat /\ \A k \in 1 .. Len(D) : D[k] \in 1 .. n
      BY <1>4, ElementOfSeq
    <3>. QED
      BY <1>4, <3>1, SeqMonotonic
  <2>3. /\ Len(D \o more) = Len(D) + Len(more)
        /\ \A i \in 1 .. Len(D) + Len(more) :
              (D \o more)[i] = IF i <= Len(D) THEN D[i] ELSE more[i - Len(D)]
    BY ONLY <2>1, <2>2, ConcatProperties
  <2>4. Len(more) \in Nat
    BY <2>1, LenProperties
  <2>. QED
    BY <1>5, <2>1, <2>3, <2>4
<1>8. /\ S \in SUBSET (1 .. Len(D)) /\ T \in SUBSET (1 .. Len(E))
      /\ S \in SUBSET T /\ \A s \in S, t \in T \ S : s < t
  <2>1. \A k \in 1 .. Len(D) : k \in 1 .. Len(E) /\ E[k] = D[k]
    BY <1>5, <1>7
  <2>2. \A s \in S : s \in 1 .. Len(D) /\ s \in T
    BY <1>6, <2>1
  <2>3. \A t \in T \ S : t \in 1 .. Len(E) /\ t \notin 1 .. Len(D)
    BY <1>6, <2>1
  <2>. QED
    BY <1>5, <1>6, <2>2, <2>3
<1>9. /\ Len(P) = Cardinality(S) /\ Len(Q) = Cardinality(T) /\ IsFiniteSet(T)
      /\ \A j \in 1 .. Len(P) : Ascending(S)[j] \in S /\ P[j] = D[Ascending(S)[j]]
      /\ \A j \in 1 .. Len(Q) : Q[j] = E[Ascending(T)[j]]
  <2>1. PICK N : N = 1 .. n
    OBVIOUS
  <2>2. /\ D \in Seq(N) /\ S \in SUBSET (1 .. Len(D)) /\ P = Pick(D, S)
        /\ E \in Seq(N) /\ T \in SUBSET (1 .. Len(E)) /\ Q = Pick(E, T)
    <3>1. D \in Seq(N) /\ E \in Seq(N)
      BY ONLY <1>4, <2>1
    <3>2. P = Pick(D, S) /\ Q = Pick(E, T)
      BY ONLY <1>6
    <3>3. S \in SUBSET (1 .. Len(D)) /\ T \in SUBSET (1 .. Len(E))
      BY ONLY <1>8
    <3>. QED
      BY ONLY <3>1, <3>2, <3>3
  <2>3. /\ Len(P) = Cardinality(S)
        /\ \A j \in 1 .. Cardinality(S) :
              Ascending(S)[j] \in S /\ P[j] = D[Ascending(S)[j]]
    BY ONLY <2>2, PickFacts
  <2>4. /\ Len(Q) = Cardinality(T) /\ IsFiniteSet(T)
        /\ \A j \in 1 .. Cardinality(T) : Q[j] = E[Ascending(T)[j]]
    BY ONLY <2>2, PickFacts
  <2>. QED
    BY <2>3, <2>4
<1>10. /\ Cardinality(S) <= Cardinality(T)
       /\ \A j \in 1 .. Cardinality(S) : Ascending(T)[j] = Ascending(S)[j]
  <2>1. T \subseteq Nat
    BY <1>5, <1>8
  <2>. QED
    BY <1>8, <1>9, <2>1, AscendingPrefix
<1>11. Len(P) <= Len(Q) /\ \A j \in 1 .. Len(P) : Q[j] = P[j]
  <2>1. Len(P) <= Len(Q)
    BY <1>9, <1>10
  <2>2. ASSUME NEW j \in 1 .. Len(P) PROVE Q[j] = P[j]
    <3>1. PICK s : s = Ascending(S)[j]
      OBVIOUS
    <3>2. s \in S /\ P[j] = D[s] /\ Ascending(T)[j] = s
      BY <1>9, <1>10, <3>1
    <3>3. j \in 1 .. Len(Q)
      BY <1>5, <2>1
    <3>. QED
      BY <1>7, <1>8, <1>9, <3>2, <3>3
  <2>. QED
    BY <2>1, <2>2
<1>12. SentFlags' = SentFlags
  BY DEF SentFlags
<1>13. CASE Len(Q) = Len(P)
  <2>1. Q = P
    BY <1>4, <1>11, <1>13, SeqEqual
  <2>. QED
    BY <1>3, <1>12, <2>1
<1>14. CASE Len(Q) > Len(P)
  <2>1. IsPrefix(P, Q)
    <3>1. SubSeq(P, 1, Len(P)) = SubSeq(Q, 1, Len(P))
      <4>1. PICK m : m = Len(P)
        OBVIOUS
      <4>2. m \in Nat /\ m <= Len(P) /\ m <= Len(Q) /\ \A j \in 1 .. m : Q[j] = P[j]
        BY <1>5, <1>11, <4>1
      <4>3. /\ SubSeq(P, 1, m) = [j \in 1 .. m |-> P[j]]
            /\ SubSeq(Q, 1, m) = [j \in 1 .. m |-> Q[j]]
        BY <1>4, <1>5, <4>2
      <4>. QED
        BY <4>1, <4>2, <4>3
    <3>. QED
      BY <1>11, <3>1 DEF IsPrefix
  <2>2. \A j, k \in 1 .. Len(Q) : j < k => Q[j] < Q[k]
    BY <1>3 DEF Gapless
  <2>3. \A k \in 1 .. Len(Q), q \in 1 .. n :
           packets[q].kind = "reliable" /\ q < Q[k] => \E j \in 1 .. Len(Q) : Q[j] = q
    BY <1>3 DEF Gapless
  <2>4. \A p \in 1 .. n : SentFlags[p] = (packets[p].kind = "reliable")
    BY <1>5 DEF SentFlags
  <2>5. DOMAIN SentFlags = 1 .. n
    BY <1>5 DEF SentFlags
  <2>6. ASSUME NEW k \in Len(P) + 1 .. Len(Q)
        PROVE  Q[k] \in DOMAIN SentFlags /\ Sequenced!MayFollow(Q[k], SubSeq(Q, 1, k - 1))
    <3>1. k \in 1 .. Len(Q) /\ k \in Nat
      BY <1>5
    <3>2. Q[k] \in 1 .. n /\ Q[k] \in Nat
      BY <1>5, <3>1
    <3>3. PICK last : last = IF SubSeq(Q, 1, k - 1) = <<>> THEN 0
                             ELSE SubSeq(Q, 1, k - 1)[Len(SubSeq(Q, 1, k - 1))]
      OBVIOUS
    <3>4. /\ k = 1 => last = 0
          /\ k # 1 => last = Q[k - 1]
      <4>1. PICK h : h = SubSeq(Q, 1, k - 1)
        OBVIOUS
      <4>2. h \in Seq(1 .. n) /\ Len(h) = k - 1 /\ \A j \in 1 .. k - 1 : h[j] = Q[j]
        BY <1>4, <1>5, <3>1, <4>1
      <4>3. h = <<>> <=> k = 1
        BY <3>1, <4>2, EmptySeq
      <4>4. k # 1 => k - 1 \in 1 .. k - 1
        BY <3>1
      <4>. QED
        BY <3>3, <4>1, <4>2, <4>3, <4>4
    <3>5. last \in Nat /\ last < Q[k] /\ (k # 1 => k - 1 \in 1 .. Len(Q))
      <4>1. CASE k = 1
        BY <3>2, <3>4, <4>1
      <4>2. CASE k # 1
        <5>1. k - 1 \in 1 .. Len(Q) /\ k - 1 < k
          BY <1>5, <3>1, <4>2
        <5>2. Q[k - 1] \in 1 .. n /\ Q[k - 1] < Q[k]
          BY <1>5, <2>2, <3>1, <5>1
        <5>. QED
          BY <1>5, <3>4, <4>2, <5>1, <5>2
      <4>. QED
        BY <4>1, <4>2
    <3>6. ASSUME NEW q \in last + 1 .. Q[k] - 1 PROVE packets[q].kind # "reliable"
      <4>1. SUFFICES ASSUME packets[q].kind = "reliable" PROVE FALSE
        OBVIOUS
      <4>2. q \in Nat /\ last < q /\ q < Q[k] /\ q \in 1 .. n
        <5>1. PICK top : top = Q[k]
          OBVIOUS
        <5>2. top \in 1 .. n /\ last \in Nat /\ q \in last + 1 .. top - 1
          BY <3>2, <3>5, <5>1
        <5>3. q \in Nat /\ last < q /\ q < top /\ q \in 1 .. n
          BY <1>4, <5>2
        <5>. QED
          BY <5>1, <5>3
      <4>3. PICK j \in 1 .. Len(Q) : Q[j] = q
        BY <2>3, <3>1, <4>1, <4>2
      <4>4. j < k
        <5>. SUFFICES ASSUME ~ (j < k) PROVE FALSE
          OBVIOUS
        <5>1. j = k \/ k < j
          BY <1>5, <3>1
        <5>2. Q[k] <= Q[j]
          BY <1>5, <2>2, <3>1, <3>2, <4>3, <5>1
        <5>. QED
          BY <3>2, <4>2, <4>3, <5>2
      <4>5. k # 1 /\ (j = k - 1 \/ j < k - 1)
        BY <1>5, <3>1, <4>4
      <4>6. Q[j] <= Q[k - 1]
        BY <1>5, <2>2, <3>5, <4>3, <4>5
      <4>. QED
        BY <1>5, <3>4, <3>5, <4>2, <4>3, <4>5, <4>6
    <3>7. \A q \in last + 1 .. Q[k] - 1 : ~ SentFlags[q]
      <4>1. \A q \in last + 1 .. Q[k] - 1 : q \in 1 .. n
        BY <1>4, <3>2, <3>5
      <4>. QED
        BY <2>4, <3>6, <4>1
    <3>8. Q[k] > last
      BY <3>2, <3>5
    <3>. QED
      BY <2>5, <3>2, <3>3, <3>7, <3>8 DEF Sequenced!MayFollow, SentFlags
  <2>7. /\ Len(InSequence') > Len(InSequence)
        /\ IsPrefix(InSequence, InSequence')
        /\ \A k \in Len(InSequence) + 1 .. Len(InSequence') :
              /\ InSequence'[k] \in DOMAIN SentFlags
              /\ Sequenced!MayFollow(InSequence'[k], SubSeq(InSequence', 1, k - 1))
        /\ UNCHANGED SentFlags
    BY <1>3, <1>12, <1>14, <2>1, <2>6
  <2>. QED
    BY <2>7
    DEF Sequenced!Deliver, Sequenced!IsPrefix, IsPrefix, SentFlags, InSequence, Places
<1>. QED
  BY <1>5, <1>11, <1>13, <1>14

(* Sending a packet offers it.                                              *)
LEMMA SendOffers ==
    ASSUME ChannelInv, Gapless, NEW kind \in Kinds, Send(kind), Delivered' = Delivered
    PROVE  \E reliable \in BOOLEAN : Sequenced!Offer(reliable)
<1>. DEFINE n == Len(packets)
            new == NewPacket(kind)
            b == new.kind = "reliable"
<1>1. SentRight /\ WindowInv
  BY DEF ChannelInv
<1>2. /\ packets \in Seq(PacketRecords) /\ packets' \in Seq(PacketRecords)
      /\ n \in Nat /\ Len(packets') = n + 1
      /\ \A p \in 1 .. n : packets'[p] = packets[p]
      /\ packets'[n + 1] = new
  BY <1>1, SendFacts DEF SentRight
<1>3. DOMAIN packets = 1 .. n /\ DOMAIN packets' = 1 .. n + 1
  BY <1>2, LenProperties
<1>. HIDE DEF new
<1>4. PICK s, t : s = SentFlags /\ t = SentFlags'
  OBVIOUS
<1>5. /\ s = [p \in 1 .. n |-> packets[p].kind = "reliable"]
      /\ t = [p \in 1 .. n + 1 |-> packets'[p].kind = "reliable"]
  BY <1>3, <1>4 DEF SentFlags
<1>6. t = Append(s, b)
  <2>1. Append(s, b) = [p \in 1 .. n + 1 |-> IF p = n + 1 THEN b ELSE s[p]]
    <3>1. Len(s) = n /\ s \in Seq(BOOLEAN)
      BY <1>2, <1>5
    <3>. QED
      BY <1>2, <3>1
  <2>2. ASSUME NEW p \in 1 .. n + 1
        PROVE  (packets'[p].kind = "reliable") = (IF p = n + 1 THEN b ELSE s[p])
    <3>1. CASE p = n + 1
      BY <1>2, <3>1
    <3>2. CASE p # n + 1
      <4>1. p \in 1 .. n
        BY <1>2, <3>2
      <4>. QED
        BY <1>2, <1>5, <3>2, <4>1
    <3>. QED
      BY <3>1, <3>2
  <2>3. s \in Seq(BOOLEAN) /\ t \in Seq(BOOLEAN) /\ Len(t) = n + 1
    BY <1>2, <1>5
  <2>4. PICK a : a = Append(s, b)
    OBVIOUS
  <2>5. a \in Seq(BOOLEAN) /\ Len(a) = n + 1
    BY <1>2, <2>1, <2>3, <2>4, AppendProperties
  <2>6. ASSUME NEW p \in 1 .. n + 1 PROVE t[p] = a[p]
    <3>1. t[p] = (packets'[p].kind = "reliable")
      BY <1>5
    <3>2. a[p] = IF p = n + 1 THEN b ELSE s[p]
      BY <2>1, <2>4
    <3>. QED
      BY <2>2, <3>1, <3>2
  <2>. QED
    BY <2>3, <2>4, <2>5, <2>6, SeqEqual
<1>7. InSequence' = InSequence
  <2>1. PICK D : D = Delivered
    OBVIOUS
  <2>2. D \in Seq(1 .. n) /\ Delivered' = D
    BY <2>1 DEF Gapless
  <2>3. \A k \in DOMAIN D : packets'[D[k]] = packets[D[k]]
    <3>1. DOMAIN D = 1 .. Len(D) /\ \A k \in 1 .. Len(D) : D[k] \in 1 .. n
      BY <2>2, LenProperties, ElementOfSeq
    <3>. QED
      BY <1>2, <3>1
  <2>4. Places' = Places
    BY <2>1, <2>2, <2>3 DEF Places, IsSequenced
  <2>. QED
    BY <2>1, <2>2, <2>4 DEF InSequence
<1>8. b \in BOOLEAN
  OBVIOUS
<1>. HIDE DEF b
<1>9. SentFlags' = Append(SentFlags, b)
  BY <1>4, <1>6
<1>10. PICK reliable \in BOOLEAN : reliable = b
  BY <1>8
<1>11. Sequenced!Offer(reliable)
  BY <1>7, <1>9, <1>10 DEF Sequenced!Offer, SentFlags, InSequence, Places
<1>. QED
  BY <1>11

(* Reliable and unreliable packets of the channel reach the application in  *)
(* the order in which they were sent, none twice, and none before a         *)
(* reliable one that was sent earlier.                                      *)
THEOREM ChannelInSequence == Spec => ImplementsSequenced
<1>1. Init => SentFlags = <<>> /\ InSequence = <<>>
  <2>. SUFFICES ASSUME Init PROVE SentFlags = <<>> /\ InSequence = <<>>
    OBVIOUS
  <2>1. packets = <<>> /\ Delivered = <<>>
    BY DEF Init, Delivered
  <2>2. DOMAIN << >> = {}
    OBVIOUS
  <2>3. SentFlags = <<>>
    BY <2>1, <2>2 DEF SentFlags
  <2>4. Places = {}
    BY <2>1, <2>2 DEF Places
  <2>5. Pick(<<>>, {}) = <<>>
    <3>1. Cardinality({}) = 0
      BY FS_EmptySet
    <3>2. DOMAIN Ascending({}) = {}
      BY <3>1 DEF Ascending
    <3>. QED
      BY <3>2 DEF Pick
  <2>. QED
    BY <2>1, <2>3, <2>4, <2>5 DEF InSequence
<1>2. ChannelInv /\ Gapless /\ Gapless' /\ [Next]_vars
        => [(\E reliable \in BOOLEAN : Sequenced!Offer(reliable)) \/ Sequenced!Deliver]_
              <<SentFlags, InSequence>>
  <2>. SUFFICES ASSUME ChannelInv, Gapless, Gapless', [Next]_vars
                PROVE  \/ \E reliable \in BOOLEAN : Sequenced!Offer(reliable)
                       \/ Sequenced!Deliver
                       \/ UNCHANGED <<SentFlags, InSequence>>
    OBVIOUS
  <2>1. \/ \E kind \in Kinds : Send(kind) /\ Delivered' = Delivered
        \/ packets' = packets /\ Extends(Delivered, Delivered')
    BY ChannelStep
  <2>2. ASSUME NEW kind \in Kinds, Send(kind), Delivered' = Delivered
        PROVE  \E reliable \in BOOLEAN : Sequenced!Offer(reliable)
    BY <2>2, SendOffers
  <2>3. ASSUME packets' = packets, Extends(Delivered, Delivered')
        PROVE  Sequenced!Deliver \/ UNCHANGED <<SentFlags, InSequence>>
    BY <2>3, MoreDelivers
  <2>. QED
    BY <2>1, <2>2, <2>3
<1>3. Spec => []Gapless
  BY DeliveredGapless, ChannelRight, PTL
<1>. QED
  BY <1>1, <1>2, <1>3, ChannelRight, PTL
  DEF Spec, ImplementsSequenced, Sequenced!Spec, SentFlags, InSequence, Places

=============================================================================
