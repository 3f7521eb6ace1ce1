------------------------- MODULE ENetSequenceProofs -------------------------
(***************************************************************************)
(* What the theorems about channels rest on: quotients and remainders, the *)
(* least and the greatest of a set of numbers, the circle of sequence      *)
(* numbers for windows of any size and number, and lists.                  *)
(***************************************************************************)
EXTENDS ENetSequence, SequencesExt, WellFoundedInduction,
        FiniteSetTheorems, SequenceTheorems, TLAPS

-----------------------------------------------------------------------------
(* Quotients and remainders.                                                *)

(* A number divided by a window's size is a number.                         *)
LEMMA QuotientType == ASSUME NEW n \in Nat, NEW S \in Nat \ {0} PROVE n \div S \in Nat
OBVIOUS

(* A number modulo the size lies below it.                                  *)
LEMMA RemainderType == ASSUME NEW n \in Nat, NEW S \in Nat \ {0} PROVE n % S \in 0 .. S - 1
OBVIOUS

(* A number is its quotient times the size plus its remainder.              *)
LEMMA Division ==
    ASSUME NEW n \in Nat, NEW S \in Nat \ {0}
    PROVE  n = S * (n \div S) + (n % S)
OBVIOUS

(* Quotient and remainder are determined by what they are for.              *)
LEMMA DivisionFacts ==
    ASSUME NEW n \in Nat, NEW S \in Nat \ {0}
    PROVE  /\ n \div S \in Nat
           /\ n % S \in 0 .. S - 1
           /\ n = S * (n \div S) + (n % S)
<1>. DEFINE q == n \div S
            r == n % S
<1>1. q \in Nat /\ r \in 0 .. S - 1 /\ n = S * q + r
  BY QuotientType, RemainderType, Division
<1>. HIDE DEF q, r
<1>. QED
  BY <1>1 DEF q, r

(* Multiples of a size are in the order of their factors.                   *)
LEMMA ProductOrder ==
    ASSUME NEW a \in Int, NEW b \in Int, NEW S \in Nat \ {0}, S * a < S * (b + 1)
    PROVE  a <= b
OBVIOUS

(* Quotient and remainder are unique.                                       *)
LEMMA DivisionUnique ==
    ASSUME NEW n \in Nat, NEW S \in Nat \ {0}, NEW q \in Nat, NEW e \in 0 .. S - 1,
           n = S * q + e
    PROVE  n \div S = q /\ n % S = e
<1>. DEFINE k == n \div S
            f == n % S
<1>1. k \in Nat /\ f \in 0 .. S - 1 /\ n = S * k + f
  BY DivisionFacts
<1>. HIDE DEF k, f
<1>2. S * k < S * (q + 1) /\ S * q < S * (k + 1)
  BY <1>1
<1>3. k <= q /\ q <= k
  BY <1>1, <1>2, ProductOrder
<1>. QED
  BY <1>1, <1>3 DEF k, f

(* A remainder is unique below zero, too.                                   *)
LEMMA RemainderUnique ==
    ASSUME NEW n \in Int, NEW S \in Nat \ {0}, NEW q \in Int, NEW e \in 0 .. S - 1,
           n = S * q + e
    PROVE  n % S = e
<1>. DEFINE k == n \div S
            f == n % S
<1>1. k \in Int /\ f \in 0 .. S - 1 /\ n = S * k + f
  OBVIOUS
<1>. HIDE DEF k, f
<1>2. S * k < S * (q + 1) /\ S * q < S * (k + 1)
  BY <1>1
<1>3. k <= q /\ q <= k
  BY <1>1, <1>2, ProductOrder
<1>. QED
  BY <1>1, <1>3 DEF k, f

(* A number that is at most some multiples of the size above another lies   *)
(* at most as many quotients above it.                                      *)
LEMMA QuotientBound ==
    ASSUME NEW m \in Nat, NEW n \in Nat, NEW k \in Int, NEW S \in Nat \ {0},
           n <= m + S * k
    PROVE  n \div S <= m \div S + k
<1>. DEFINE a == m \div S
            b == n \div S
            e == m % S
            f == n % S
<1>1. /\ a \in Nat /\ e \in 0 .. S - 1 /\ m = S * a + e
      /\ b \in Nat /\ f \in 0 .. S - 1 /\ n = S * b + f
  BY DivisionFacts
<1>. HIDE DEF a, b, e, f
<1>2. S * b < S * ((a + k) + 1)
  <2>1. S * ((a + k) + 1) = S * a + S * k + S
    BY <1>1
  <2>2. S * b \in Int /\ S * a \in Int /\ S * k \in Int
    BY <1>1
  <2>. QED
    BY <1>1, <2>1, <2>2
<1>3. b <= a + k
  BY <1>1, <1>2, ProductOrder
<1>. QED
  BY <1>3 DEF a, b

(* Quotients are in the order of the numbers.                               *)
LEMMA QuotientOrder ==
    ASSUME NEW m \in Nat, NEW n \in Nat, NEW S \in Nat \ {0}, n <= m
    PROVE  n \div S <= m \div S
BY QuotientBound, n <= m + S * 0, n \div S <= m \div S + 0

(* Numbers whose quotients differ by k are less than k + 1 sizes apart.     *)
LEMMA QuotientDistance ==
    ASSUME NEW m \in Nat, NEW n \in Nat, NEW k \in Int, NEW S \in Nat \ {0},
           n \div S <= m \div S + k
    PROVE  n < m + S * (k + 1)
<1>. DEFINE a == m \div S
            b == n \div S
            e == m % S
            f == n % S
<1>1. /\ a \in Nat /\ e \in 0 .. S - 1 /\ m = S * a + e
      /\ b \in Nat /\ f \in 0 .. S - 1 /\ n = S * b + f
  BY DivisionFacts
<1>2. b <= a + k
  OBVIOUS
<1>. HIDE DEF a, b, e, f
<1>3. S * b <= S * a + S * k
  <2>1. S * b <= S * (a + k)
    BY <1>1, <1>2
  <2>2. S * (a + k) = S * a + S * k
    BY <1>1
  <2>. QED
    BY <2>1, <2>2
<1>4. S * (k + 1) = S * k + S
  OBVIOUS
<1>5. S * b \in Int /\ S * a \in Int /\ S * k \in Int
  BY <1>1
<1>. QED
  BY <1>1, <1>3, <1>4, <1>5

-----------------------------------------------------------------------------
(* Sets of numbers.                                                         *)

(* A set of numbers has a least one.                                        *)
LEMMA LeastNumber ==
    ASSUME NEW T, T \subseteq Nat, T # {}
    PROVE  \E m \in T : \A x \in T : m <= x
<1>. DEFINE R == {ss \in Nat \X Nat : ss[1] < ss[2]}
<1>1. IsWellFoundedOn(R, Nat)
  BY NatLessThanWellFounded DEF OpToRel
<1>2. PICK m \in T : \A x \in T : ~ (<<x, m>> \in R)
  <2>. HIDE DEF R
  <2>. QED
    BY <1>1, WFMin
<1>3. ASSUME NEW x \in T PROVE m <= x
  <2>1. <<x, m>> \in Nat \X Nat /\ <<x, m>>[1] = x /\ <<x, m>>[2] = m
    OBVIOUS
  <2>2. ~ (x < m)
    BY <1>2, <2>1
  <2>. QED
    BY <2>2
<1>. QED
  BY <1>3

(* A set of numbers none of which is above b has a greatest one.            *)
LEMMA GreatestNumber ==
    ASSUME NEW T, T \subseteq Nat, T # {}, NEW b \in Nat, \A x \in T : x <= b
    PROVE  \E m \in T : \A x \in T : x <= m
<1>. DEFINE U == {y \in Nat : \E x \in T : y = b - x}
<1>1. U \subseteq Nat
  OBVIOUS
<1>2. \A x \in T : b - x \in U
  OBVIOUS
<1>3. PICK u \in U : \A v \in U : u <= v
  <2>1. U # {}
    BY <1>2
  <2>. HIDE DEF U
  <2>. QED
    BY <1>1, <2>1, LeastNumber
<1>4. PICK m \in T : u = b - m
  OBVIOUS
<1>5. ASSUME NEW x \in T PROVE x <= m
  <2>1. u <= b - x
    BY <1>2, <1>3
  <2>. QED
    BY <1>4, <2>1
<1>. QED
  BY <1>5

-----------------------------------------------------------------------------
(* The circle of sequence numbers, of any size and number of windows.       *)

(* The constants of the circle of numbers, as the provers need them.        *)
LEMMA CircleFacts ==
    /\ Circle \in Nat \ {0}
    /\ Windows \in Nat \ {0}
    /\ Circle = WindowSize * Windows
BY SequenceAssumption DEF Circle

(* The window of the 16-bit number of command i is window i \div WindowSize *)
(* of the line of all commands, wound around the circle, and the numbers of *)
(* a window are in the same places on the line and on the circle.           *)
LEMMA WindowOfWire ==
    ASSUME NEW i \in Nat
    PROVE  /\ Wire(i) \in SeqNum
           /\ WindowOf(Wire(i)) = (i \div WindowSize) % Windows
           /\ WindowOf(Wire(i)) \in WindowNum
           /\ Wire(i) % WindowSize = i % WindowSize
<1>. DEFINE S == WindowSize
            W == Windows
            q == i \div Circle
            r == i % Circle
            d == r \div S
            e == r % S
<1>1. S \in Nat \ {0} /\ W \in Nat \ {0} /\ Circle = S * W /\ Circle \in Nat \ {0}
  BY CircleFacts, SequenceAssumption
<1>2. q \in Nat /\ r \in 0 .. Circle - 1 /\ i = Circle * q + r
  BY <1>1, DivisionFacts
<1>. HIDE DEF q, r
<1>3. d \in Nat /\ e \in 0 .. S - 1 /\ r = S * d + e
  <2>1. r \in Nat
    BY <1>1, <1>2
  <2>. HIDE DEF S
  <2>. QED
    BY <1>1, <2>1, DivisionFacts
<1>. HIDE DEF d, e
<1>. HIDE DEF S, W
<1>4. S * d < S * ((W - 1) + 1)
  BY <1>1, <1>2, <1>3
<1>5. d \in 0 .. W - 1
  BY <1>1, <1>3, <1>4, ProductOrder
<1>6. i = S * (W * q + d) + e
  <2>1. Circle * q = S * (W * q)
    BY <1>1, <1>2
  <2>2. S * (W * q + d) = S * (W * q) + S * d
    BY <1>1, <1>2, <1>3
  <2>. QED
    BY <1>1, <1>2, <1>3, <2>1, <2>2
<1>7. W * q + d \in Nat
  BY <1>1, <1>2, <1>3
<1>8. i \div S = W * q + d /\ i % S = e
  BY <1>1, <1>3, <1>6, <1>7, DivisionUnique
<1>9. (W * q + d) % W = d
  BY <1>1, <1>2, <1>5, <1>7, DivisionUnique
<1>. QED
  BY <1>1, <1>2, <1>5, <1>8, <1>9 DEF Wire, WindowOf, SeqNum, WindowNum, S, W, d, e, r

-----------------------------------------------------------------------------
(* Two numbers on the line and on the circle.                               *)

(* The windows of the line are those of the circle, counted on at every     *)
(* time around it.                                                          *)
LEMMA WindowOnLine ==
    ASSUME NEW i \in Nat
    PROVE  /\ i \div Circle \in Nat
           /\ Wire(i) \in 0 .. Circle - 1
           /\ i = Circle * (i \div Circle) + Wire(i)
           /\ i \div WindowSize \in Nat
           /\ WindowOf(Wire(i)) \in 0 .. Windows - 1
           /\ i \div WindowSize = Windows * (i \div Circle) + WindowOf(Wire(i))
<1>. DEFINE S == WindowSize
            W == Windows
            q == i \div Circle
            r == i % Circle
            d == r \div S
            e == r % S
<1>1. S \in Nat \ {0} /\ W \in Nat \ {0} /\ Circle = S * W /\ Circle \in Nat \ {0}
  BY CircleFacts, SequenceAssumption
<1>2. q \in Nat /\ r \in 0 .. Circle - 1 /\ i = Circle * q + r
  BY <1>1, DivisionFacts
<1>. HIDE DEF q, r
<1>3. d \in Nat /\ e \in 0 .. S - 1 /\ r = S * d + e
  <2>1. r \in Nat
    BY <1>1, <1>2
  <2>. HIDE DEF S
  <2>. QED
    BY <1>1, <2>1, DivisionFacts
<1>4. d \in 0 .. W - 1
  BY WindowOfWire DEF WindowNum, WindowOf, Wire, d, r, S, W
<1>. HIDE DEF d, e
<1>. HIDE DEF S, W
<1>5. i = S * (W * q + d) + e
  <2>1. Circle * q = S * (W * q)
    BY <1>1, <1>2
  <2>2. S * (W * q + d) = S * (W * q) + S * d
    BY <1>1, <1>2, <1>3
  <2>. QED
    BY <1>1, <1>2, <1>3, <2>1, <2>2
<1>6. W * q + d \in Nat
  BY <1>1, <1>2, <1>3
<1>7. i \div S = W * q + d
  BY <1>1, <1>3, <1>5, <1>6, DivisionUnique
<1>. QED
  BY <1>1, <1>2, <1>4, <1>6, <1>7 DEF Wire, WindowOf, S, W, d, q, r

(* The number k places after command i is the number of command i + k.      *)
LEMMA NumberAfter ==
    ASSUME NEW i \in Nat, NEW k \in Nat
    PROVE  (Wire(i) + k) % Circle = Wire(i + k)
<1>. DEFINE C == Circle
            q == i \div C
            w == Wire(i)
            p == (w + k) \div C
            e == (w + k) % C
<1>1. C \in Nat \ {0}
  BY CircleFacts
<1>2. q \in Nat /\ w \in 0 .. C - 1 /\ i = C * q + w
  BY WindowOnLine
<1>3. p \in Nat /\ e \in 0 .. C - 1 /\ w + k = C * p + e
  <2>. HIDE DEF C, w
  <2>1. w + k \in Nat
    BY <1>1, <1>2
  <2>. QED
    BY <1>1, <2>1, DivisionFacts
<1>. HIDE DEF q, w, p, e
<1>. HIDE DEF C
<1>4. C * (q + p) = C * q + C * p
  BY <1>1, <1>2, <1>3
<1>5. i + k = C * (q + p) + e
  <2>1. C * q \in Int /\ C * p \in Int
    BY <1>1, <1>2, <1>3
  <2>. QED
    BY <1>2, <1>3, <1>4, <2>1
<1>6. q + p \in Nat /\ i + k \in Nat
  BY <1>2, <1>3
<1>7. (i + k) % C = e
  BY <1>1, <1>3, <1>5, <1>6, DivisionUnique
<1>. QED
  BY <1>7 DEF e, w, C, Wire

(* Less than a circle apart, two commands are on the same round, or the     *)
(* later one is on the next and has the smaller number.                     *)
LEMMA Rounds ==
    ASSUME NEW r \in Nat, NEW i \in Nat, r <= i, i < r + Circle
    PROVE  \/ /\ i \div Circle = r \div Circle
              /\ Wire(i) = Wire(r) + (i - r)
           \/ /\ i \div Circle = r \div Circle + 1
              /\ Wire(i) = Wire(r) + (i - r) - Circle
              /\ Wire(i) < Wire(r)
<1>. DEFINE C == Circle
            q == i \div C
            w == Wire(i)
            p == r \div C
            v == Wire(r)
<1>1. C \in Nat \ {0}
  BY CircleFacts
<1>2. /\ q \in Nat /\ w \in 0 .. C - 1 /\ i = C * q + w
      /\ p \in Nat /\ v \in 0 .. C - 1 /\ r = C * p + v
  BY WindowOnLine
<1>0. i < r + C
  OBVIOUS
<1>. HIDE DEF q, w, p, v
<1>. HIDE DEF C
<1>3. C * q \in Int /\ C * p \in Int
  BY <1>1, <1>2
<1>4. C * p < C * (q + 1) /\ C * q < C * ((p + 1) + 1)
  <2>1. C * (q + 1) = C * q + C /\ C * ((p + 1) + 1) = C * p + C + C
    BY <1>1, <1>2
  <2>. QED
    BY <1>0, <1>1, <1>2, <1>3, <2>1
<1>5. q = p \/ q = p + 1
  BY <1>1, <1>2, <1>4, ProductOrder
<1>6. CASE q = p
  <2>1. w = v + (i - r)
    BY <1>1, <1>2, <1>3, <1>6
  <2>. QED
    BY <1>6, <2>1 DEF q, w, p, v, C
<1>7. CASE q = p + 1
  <2>1. C * q = C * p + C
    BY <1>1, <1>2, <1>7
  <2>2. w = v + (i - r) - C /\ w < v
    BY <1>0, <1>1, <1>2, <1>3, <2>1
  <2>. QED
    BY <1>7, <2>2 DEF q, w, p, v, C
<1>. QED
  BY <1>5, <1>6, <1>7

(* Windows less than a circle apart are the windows of commands less than a *)
(* circle apart.                                                            *)
LEMMA WithinCircle ==
    ASSUME NEW r \in Nat, NEW i \in Nat,
           i \div WindowSize - r \div WindowSize < Windows
    PROVE  i < r + Circle
<1>. DEFINE a == r \div WindowSize
            b == i \div WindowSize
            k == Windows - 1
<1>1. a \in Nat /\ b \in Nat /\ WindowSize \in Nat \ {0} /\ k \in Int /\ Windows \in Nat
  <2>1. a \in Nat /\ b \in Nat
    BY WindowOnLine
  <2>2. WindowSize \in Nat \ {0} /\ Windows \in Nat
    BY SequenceAssumption
  <2>. HIDE DEF a, b
  <2>. QED
    BY <2>1, <2>2
<1>2. b <= a + k
  <2>. HIDE DEF a, b
  <2>1. b - a < Windows
    BY DEF a, b
  <2>. QED
    BY <1>1, <2>1
<1>3. i < r + WindowSize * (k + 1)
  <2>. HIDE DEF k
  <2>. QED
    BY <1>1, <1>2, QuotientDistance
<1>4. k + 1 = Windows
  BY <1>1
<1>. HIDE DEF k
<1>5. Circle = WindowSize * (k + 1)
  BY <1>4, CircleFacts
<1>. QED
  BY <1>3, <1>5

(* The receiver measures how far ahead a command is by the window numbers   *)
(* on the circle.  It is right about every command less than a circle      *)
(* ahead.                                                                   *)
LEMMA AheadOnCircle ==
    ASSUME NEW r \in Nat, NEW i \in Nat, r <= i,
           i \div WindowSize - r \div WindowSize < Windows
    PROVE  WindowsAhead(Wire(i), Wire(r)) = i \div WindowSize - r \div WindowSize
<1>. DEFINE a == r \div WindowSize
            b == i \div WindowSize
            d == WindowOf(Wire(i))
            e == WindowOf(Wire(r))
            q == i \div Circle
            p == r \div Circle
<1>1. /\ b \in Nat /\ q \in Nat /\ d \in Int /\ b = Windows * q + d
      /\ a \in Nat /\ p \in Nat /\ e \in Int /\ a = Windows * p + e
      /\ Wire(i) \in Nat /\ Wire(r) \in Nat
  BY WindowOnLine
<1>2. Windows \in Nat /\ Circle \in Nat
  BY CircleFacts
<1>3. i < r + Circle
  BY WithinCircle
<1>4. \/ q = p /\ ~ (Wire(i) < Wire(r))
      \/ q = p + 1 /\ Wire(i) < Wire(r)
  <2>. DEFINE w == Wire(i)
              v == Wire(r)
  <2>1. \/ q = p /\ w = v + (i - r)
        \/ q = p + 1 /\ w < v
    BY <1>3, Rounds
  <2>2. w \in Nat /\ v \in Nat
    BY <1>1
  <2>. HIDE DEF w, v
  <2>3. \/ q = p /\ ~ (w < v)
        \/ q = p + 1 /\ w < v
    BY <2>1, <2>2
  <2>. QED
    BY <2>3 DEF w, v
<1>. HIDE DEF a, b, d, e, q, p
<1>5. WindowsAhead(Wire(i), Wire(r)) = d - e + (IF Wire(i) < Wire(r) THEN Windows ELSE 0)
  BY DEF WindowsAhead, d, e
<1>6. CASE q = p /\ ~ (Wire(i) < Wire(r))
  <2>1. WindowsAhead(Wire(i), Wire(r)) = d - e
    BY <1>1, <1>5, <1>6
  <2>2. Windows * q = Windows * p /\ Windows * p \in Int
    BY <1>1, <1>2, <1>6
  <2>3. d - e = b - a
    BY <1>1, <2>2
  <2>. QED
    BY <2>1, <2>3 DEF a, b
<1>7. CASE q = p + 1 /\ Wire(i) < Wire(r)
  <2>1. WindowsAhead(Wire(i), Wire(r)) = d - e + Windows
    BY <1>1, <1>5, <1>7
  <2>2. Windows * q = Windows * p + Windows /\ Windows * p \in Int
    BY <1>1, <1>2, <1>7
  <2>3. d - e + Windows = b - a
    BY <1>1, <1>2, <2>2
  <2>. QED
    BY <2>1, <2>3 DEF a, b
<1>. QED
  BY <1>4, <1>6, <1>7

(* A command behind the last one dispatched is taken to be as many windows  *)
(* short of a circle ahead as it is behind.                                 *)
LEMMA BehindOnCircle ==
    ASSUME NEW r \in Nat, NEW i \in Nat, i < r,
           r \div WindowSize - i \div WindowSize < Windows
    PROVE  WindowsAhead(Wire(i), Wire(r))
              = Windows - (r \div WindowSize - i \div WindowSize)
<1>. DEFINE a == r \div WindowSize
            b == i \div WindowSize
            d == WindowOf(Wire(i))
            e == WindowOf(Wire(r))
            q == i \div Circle
            p == r \div Circle
<1>1. /\ b \in Nat /\ q \in Nat /\ d \in Int /\ b = Windows * q + d
      /\ a \in Nat /\ p \in Nat /\ e \in Int /\ a = Windows * p + e
      /\ Wire(i) \in Nat /\ Wire(r) \in Nat
  BY WindowOnLine
<1>2. Windows \in Nat /\ Circle \in Nat
  BY CircleFacts
<1>3. r < i + Circle
  BY WithinCircle
<1>4. \/ p = q /\ Wire(i) < Wire(r)
      \/ p = q + 1 /\ ~ (Wire(i) < Wire(r))
  <2>. DEFINE w == Wire(i)
              v == Wire(r)
  <2>1. \/ p = q /\ v = w + (r - i)
        \/ p = q + 1 /\ v < w
    BY <1>3, Rounds
  <2>2. w \in Nat /\ v \in Nat
    BY <1>1
  <2>. HIDE DEF w, v
  <2>3. \/ p = q /\ w < v
        \/ p = q + 1 /\ ~ (w < v)
    BY <2>1, <2>2
  <2>. QED
    BY <2>3 DEF w, v
<1>. HIDE DEF a, b, d, e, q, p
<1>5. WindowsAhead(Wire(i), Wire(r)) = d - e + (IF Wire(i) < Wire(r) THEN Windows ELSE 0)
  BY DEF WindowsAhead, d, e
<1>6. CASE p = q /\ Wire(i) < Wire(r)
  <2>1. WindowsAhead(Wire(i), Wire(r)) = d - e + Windows
    BY <1>1, <1>5, <1>6
  <2>2. Windows * q = Windows * p /\ Windows * p \in Int
    BY <1>1, <1>2, <1>6
  <2>3. d - e + Windows = Windows - (a - b)
    BY <1>1, <1>2, <2>2
  <2>. QED
    BY <2>1, <2>3 DEF a, b
<1>7. CASE p = q + 1 /\ ~ (Wire(i) < Wire(r))
  <2>1. WindowsAhead(Wire(i), Wire(r)) = d - e
    BY <1>1, <1>5, <1>7
  <2>2. Windows * p = Windows * q + Windows /\ Windows * q \in Int
    BY <1>1, <1>2, <1>7
  <2>3. d - e = Windows - (a - b)
    BY <1>1, <1>2, <2>2
  <2>. QED
    BY <2>1, <2>3 DEF a, b
<1>. QED
  BY <1>4, <1>6, <1>7

(* Seen from command r, and less than a circle ahead of it, the numbers of  *)
(* commands f and g are in the order the receiver's scan takes them to be   *)
(* in, and differ if the commands do.                                       *)
LEMMA OrderOnCircle ==
    ASSUME NEW r \in Nat, NEW f \in Nat, NEW g \in Nat,
           r < f, r < g, f < r + Circle, g < r + Circle
    PROVE  /\ (IF Wire(f) >= Wire(r)
                 THEN Wire(g) >= Wire(r) /\ Wire(g) <= Wire(f)
                 ELSE Wire(g) >= Wire(r) \/ Wire(g) <= Wire(f))
              <=> g <= f
           /\ Wire(f) = Wire(g) <=> f = g
           /\ Wire(f) # Wire(r)
           /\ (Wire(f) - Wire(r)) % Circle = f - r
<1>. DEFINE C == Circle
            u == Wire(r)
            v == Wire(f)
            w == Wire(g)
<1>0. f < r + C /\ g < r + C
  OBVIOUS
<1>1. C \in Nat \ {0}
  BY CircleFacts
<1>2. u \in 0 .. C - 1 /\ v \in 0 .. C - 1 /\ w \in 0 .. C - 1
  BY WindowOnLine
<1>3. v = u + (f - r) \/ (v = u + (f - r) - C /\ v < u)
  BY Rounds
<1>4. w = u + (g - r) \/ (w = u + (g - r) - C /\ w < u)
  BY Rounds
<1>. HIDE DEF u, v, w
<1>. HIDE DEF C
<1>5. /\ (IF v >= u THEN w >= u /\ w <= v ELSE w >= u \/ w <= v) <=> g <= f
      /\ v = w <=> f = g
      /\ v # u
  BY <1>0, <1>1, <1>2, <1>3, <1>4
<1>6. (v - u) % C = f - r
  <2>. DEFINE x == f - r
  <2>1. x \in 0 .. C - 1
    BY <1>0, <1>1
  <2>2. v - u = C * 0 + x \/ v - u = C * (-1) + x
    <3>1. C * 0 = 0 /\ C * (-1) = - C
      BY <1>1
    <3>. QED
      BY <1>1, <1>2, <1>3, <3>1
  <2>. HIDE DEF x
  <2>3. v - u \in Int
    BY <1>2
  <2>4. (v - u) % C = x
    BY <1>1, <2>1, <2>2, <2>3, RemainderUnique
  <2>. QED
    BY <2>4 DEF x
<1>. QED
  BY <1>5, <1>6 DEF C, u, v, w

-----------------------------------------------------------------------------
(* Lists.                                                                   *)

(* A list with one more element.                                            *)
LEMMA Inserted ==
    ASSUME NEW T, NEW s \in Seq(T), NEW t \in 0 .. Len(s), NEW e \in T
    PROVE  /\ InsertAt(s, t + 1, e) \in Seq(T)
           /\ Len(InsertAt(s, t + 1, e)) = Len(s) + 1
           /\ \A k \in 1 .. Len(s) + 1 :
                 InsertAt(s, t + 1, e)[k] =
                    IF k <= t THEN s[k] ELSE IF k = t + 1 THEN e ELSE s[k - 1]
<1>. DEFINE a == SubSeq(s, 1, t)
            b == <<e>>
            c == SubSeq(s, t + 1, Len(s))
<1>1. Len(s) \in Nat /\ \A k \in 1 .. Len(s) : s[k] \in T
  BY LenProperties, ElementOfSeq
<1>2. /\ a \in Seq(T) /\ Len(a) = t
      /\ \A k \in 1 .. t : a[k] = s[k]
  <2>1. 1 \in Int /\ t \in Int /\ \A k \in 1 .. t : s[k] \in T
    BY <1>1
  <2>2. /\ SubSeq(s, 1, t) \in Seq(T)
        /\ Len(SubSeq(s, 1, t)) = IF 1 <= t THEN t - 1 + 1 ELSE 0
        /\ \A k \in 1 .. t - 1 + 1 : SubSeq(s, 1, t)[k] = s[1 + k - 1]
    BY <2>1, SubSeqProperties
  <2>. HIDE DEF a
  <2>. QED
    BY <1>1, <2>1, <2>2 DEF a
<1>3. /\ c \in Seq(T) /\ Len(c) = Len(s) - t
      /\ \A k \in 1 .. Len(s) - t : c[k] = s[t + k]
  <2>1. t + 1 \in Int /\ Len(s) \in Int /\ \A k \in t + 1 .. Len(s) : s[k] \in T
    BY <1>1
  <2>2. /\ SubSeq(s, t + 1, Len(s)) \in Seq(T)
        /\ Len(SubSeq(s, t + 1, Len(s))) = IF t + 1 <= Len(s) THEN Len(s) - (t + 1) + 1 ELSE 0
        /\ \A k \in 1 .. Len(s) - (t + 1) + 1 : SubSeq(s, t + 1, Len(s))[k] = s[t + 1 + k - 1]
    BY <2>1, SubSeqProperties
  <2>. QED
    BY <1>1, <2>1, <2>2
<1>4. b \in Seq(T) /\ Len(b) = 1 /\ b[1] = e
  OBVIOUS
<1>5. InsertAt(s, t + 1, e) = a \o b \o c
  <2>1. (t + 1) - 1 = t
    BY <1>1
  <2>. QED
    BY <2>1 DEF InsertAt
<1>. HIDE DEF a, b, c
<1>6. /\ a \o b \in Seq(T) /\ Len(a \o b) = t + 1
      /\ \A k \in 1 .. t + 1 : (a \o b)[k] = IF k <= t THEN s[k] ELSE e
  <2>1. /\ a \o b \in Seq(T) /\ Len(a \o b) = Len(a) + Len(b)
        /\ \A k \in 1 .. Len(a) + Len(b) : (a \o b)[k] = IF k <= Len(a) THEN a[k] ELSE b[k - Len(a)]
    BY <1>2, <1>4, ConcatProperties
  <2>2. ASSUME NEW k \in 1 .. t + 1 PROVE (a \o b)[k] = IF k <= t THEN s[k] ELSE e
    <3>1. (a \o b)[k] = IF k <= t THEN a[k] ELSE b[k - t]
      BY <1>2, <1>4, <2>1
    <3>2. k <= t => k \in 1 .. t
      BY <1>1
    <3>3. ~ (k <= t) => k - t = 1
      BY <1>1
    <3>. QED
      BY <1>2, <1>4, <3>1, <3>2, <3>3
  <2>. QED
    BY <1>2, <1>4, <2>1, <2>2
<1>. DEFINE ab == a \o b
<1>. HIDE DEF ab
<1>7. /\ ab \o c \in Seq(T) /\ Len(ab \o c) = Len(ab) + Len(c)
      /\ \A k \in 1 .. Len(ab) + Len(c) : (ab \o c)[k] = IF k <= Len(ab) THEN ab[k] ELSE c[k - Len(ab)]
  BY <1>3, <1>6, ConcatProperties DEF ab
<1>8. Len(ab) + Len(c) = Len(s) + 1 /\ Len(ab) = t + 1
  BY <1>1, <1>3, <1>6 DEF ab
<1>9. ASSUME NEW k \in 1 .. Len(s) + 1
      PROVE  (ab \o c)[k] = IF k <= t THEN s[k] ELSE IF k = t + 1 THEN e ELSE s[k - 1]
  <2>1. (ab \o c)[k] = IF k <= t + 1 THEN ab[k] ELSE c[k - (t + 1)]
    BY <1>7, <1>8
  <2>2. CASE k <= t + 1
    <3>1. k \in 1 .. t + 1
      BY <1>1, <2>2
    <3>2. ab[k] = IF k <= t THEN s[k] ELSE e
      BY <1>6, <3>1 DEF ab
    <3>. QED
      BY <1>1, <2>1, <2>2, <3>2
  <2>3. CASE ~ (k <= t + 1)
    <3>1. k - (t + 1) \in 1 .. Len(s) - t /\ t + (k - (t + 1)) = k - 1
      BY <1>1, <2>3
    <3>2. c[k - (t + 1)] = s[k - 1]
      BY <1>3, <3>1
    <3>. QED
      BY <1>1, <2>1, <2>3, <3>2
  <2>. QED
    BY <2>2, <2>3
<1>. QED
  BY <1>5, <1>7, <1>8, <1>9 DEF ab
=============================================================================
