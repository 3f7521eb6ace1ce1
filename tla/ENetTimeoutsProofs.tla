-------------------------- MODULE ENetTimeoutsProofs --------------------------
(***************************************************************************)
(* The round trip that an acknowledgement tells, for words and headers of  *)
(* any sizes, service times that start and pauses that end anywhere.       *)
(*                                                                         *)
(* The true times lie on a line; the host sees them modulo Word, and of a  *)
(* sent time it sees what is left modulo Stamp.  The lemmas say that the   *)
(* upper bits that enet_protocol_handle_acknowledge puts in again are      *)
(* those of the true time, or of one so far ahead that it is taken for the *)
(* future.                                                                 *)
(***************************************************************************)
EXTENDS ENetTimeouts, TLAPS

(* A number divided by a window's size is a number.                         *)
LEMMA QuotientType == ASSUME NEW n \in Nat, NEW S \in Nat \ {0} PROVE n \div S \in Nat
OBVIOUS

(* A number modulo the size lies below it.                                  *)
LEMMA RemainderType == ASSUME NEW n \in Nat, NEW S \in Nat \ {0} PROVE n % S \in 0 .. S - 1
OBVIOUS

(* A number is its quotient times the size plus its remainder.              *)
LEMMA Division ==
    ASSUME NEW n \in Nat, NEW S \in Nat \ {0}
    PROVE  n = S * (n \div S) + (n % S)
OBVIOUS

(* Quotient and remainder are determined by what they are for.              *)
LEMMA DivisionFacts ==
    ASSUME NEW n \in Nat, NEW S \in Nat \ {0}
    PROVE  /\ n \div S \in Nat
           /\ n % S \in 0 .. S - 1
           /\ n = S * (n \div S) + (n % S)
<1>. DEFINE q == n \div S
            r == n % S
<1>1. q \in Nat /\ r \in 0 .. S - 1 /\ n = S * q + r
  BY QuotientType, RemainderType, Division
<1>. HIDE DEF q, r
<1>. QED
  BY <1>1 DEF q, r

(* Multiples of a size are in the order of their factors.                   *)
LEMMA ProductOrder ==
    ASSUME NEW a \in Int, NEW b \in Int, NEW S \in Nat \ {0}, S * a < S * (b + 1)
    PROVE  a <= b
OBVIOUS

(* Quotient and remainder are unique.                                       *)
LEMMA DivisionUnique ==
    ASSUME NEW n \in Nat, NEW S \in Nat \ {0}, NEW q \in Nat, NEW e \in 0 .. S - 1,
           n = S * q + e
    PROVE  n \div S = q /\ n % S = e
<1>. DEFINE k == n \div S
            f == n % S
<1>1. k \in Nat /\ f \in 0 .. S - 1 /\ n = S * k + f
  BY DivisionFacts
<1>. HIDE DEF k, f
<1>2. S * k < S * (q + 1) /\ S * q < S * (k + 1)
  BY <1>1
<1>3. k <= q /\ q <= k
  BY <1>1, <1>2, ProductOrder
<1>. QED
  BY <1>1, <1>3 DEF k, f

(* A remainder is unique below zero, too.                                   *)
LEMMA RemainderUnique ==
    ASSUME NEW n \in Int, NEW S \in Nat \ {0}, NEW q \in Int, NEW e \in 0 .. S - 1,
           n = S * q + e
    PROVE  n % S = e
<1>. DEFINE k == n \div S
            f == n % S
<1>1. k \in Int /\ f \in 0 .. S - 1 /\ n = S * k + f
  OBVIOUS
<1>. HIDE DEF k, f
<1>2. S * k < S * (q + 1) /\ S * q < S * (k + 1)
  BY <1>1
<1>3. k <= q /\ q <= k
  BY <1>1, <1>2, ProductOrder
<1>. QED
  BY <1>1, <1>3 DEF k, f

-----------------------------------------------------------------------------

(* A word is some headers long, and the future is at least half of it.      *)
LEMMA TimeFacts ==
    /\ Word \in Nat \ {0} /\ Overflow \in Nat \ {0} /\ Stamp \in Nat \ {0}
    /\ Stamp <= Overflow /\ 2 * Overflow <= Word
    /\ Stamp \div 2 \in Nat /\ Stamp = 2 * (Stamp \div 2)
    /\ Word \div Stamp \in Nat /\ Word = Stamp * (Word \div Stamp)
<1>1. /\ Word \in Nat \ {0} /\ Overflow \in Nat \ {0} /\ Stamp \in Nat \ {0}
      /\ Stamp <= Overflow /\ 2 * Overflow <= Word
      /\ Stamp % 2 = 0 /\ Word % Stamp = 0
  BY TimeAssumption
<1>2. Stamp \div 2 \in Nat /\ Stamp = 2 * (Stamp \div 2) + (Stamp % 2)
  BY <1>1, DivisionFacts
<1>3. Word \div Stamp \in Nat /\ Word = Stamp * (Word \div Stamp) + (Word % Stamp)
  BY <1>1, DivisionFacts
<1>. QED
  BY <1>1, <1>2, <1>3

(* What a header has of a time is the same whether it is taken of the time  *)
(* or of the word; the time and the word differ by some headers; and the    *)
(* word's last header ends within the word.                                 *)
LEMMA StampOfWord ==
    ASSUME NEW T \in Nat
    PROVE  /\ T % Word \in 0 .. Word - 1
           /\ (T % Word) % Stamp = T % Stamp
           /\ T % Stamp \in 0 .. Stamp - 1
           /\ (T % Word) - (T % Stamp) \in Nat
           /\ (T % Word) - (T % Stamp) + Stamp <= Word
<1>. DEFINE m == Word \div Stamp
            k == T \div Word
            t == T % Word
            j == t \div Stamp
            r == t % Stamp
<1>1. /\ Stamp \in Nat \ {0} /\ m \in Nat /\ Word \in Nat \ {0} /\ Word = Stamp * m
  BY TimeFacts
<1>. HIDE DEF m
<1>2. k \in Nat /\ t \in 0 .. Word - 1 /\ T = Word * k + t
  BY <1>1, DivisionFacts
<1>. HIDE DEF k, t
<1>3. j \in Nat /\ r \in 0 .. Stamp - 1 /\ t = Stamp * j + r
  <2>1. t \in Nat
    BY <1>2
  <2>. QED
    BY <1>1, <2>1, DivisionFacts
<1>. HIDE DEF j, r
<1>4. T = Stamp * (m * k + j) + r /\ m * k + j \in Nat
  <2>1. Word * k = Stamp * (m * k)
    BY <1>1, <1>2
  <2>2. m * k \in Nat
    BY <1>1, <1>2
  <2>3. Stamp * (m * k + j) = Stamp * (m * k) + Stamp * j
    BY <1>1, <1>3, <2>2
  <2>. QED
    BY <1>1, <1>2, <1>3, <2>1, <2>2, <2>3
<1>5. T % Stamp = r
  BY <1>1, <1>3, <1>4, DivisionUnique
<1>6. j + 1 <= m
  <2>1. Stamp * j < Stamp * ((m - 1) + 1)
    <3>1. Stamp * j \in Nat
      BY <1>1, <1>3
    <3>. QED
      BY <1>1, <1>2, <1>3, <3>1
  <2>. QED
    BY <1>1, <1>3, <2>1, ProductOrder
<1>7. Stamp * j + Stamp <= Word
  <2>1. Stamp * (j + 1) = Stamp * j + Stamp
    BY <1>1, <1>3
  <2>2. m - (j + 1) \in Nat /\ Stamp * (m - (j + 1)) \in Nat
    BY <1>1, <1>3, <1>6
  <2>3. Stamp * m = Stamp * (j + 1) + Stamp * (m - (j + 1))
    BY <1>1, <1>3
  <2>. QED
    BY <1>1, <1>3, <2>1, <2>2, <2>3
<1>8. Stamp * j \in Nat
  BY <1>1, <1>3
<1>. QED
  BY <1>2, <1>3, <1>5, <1>7, <1>8 DEF t, r

(* The sent time is made whole: it lies behind the present time by the true *)
(* delay, or else, and only if half a header's time has passed, it is one   *)
(* header too late and so ahead of the present time.                        *)
LEMMA SentTimeWhole ==
    ASSUME NEW T \in Nat, NEW A \in Nat, A <= T, T - A < Stamp
    PROVE  LET behind == ((T % Word) - SentTime(A % Stamp, T % Word)) % Word
           IN  \/ behind = T - A
               \/ behind = (T - A) + (Word - Stamp) /\ T - A >= Stamp \div 2
<1>. DEFINE t == T % Word
            k == T \div Stamp
            r == T % Stamp
            j == A \div Stamp
            q == A % Stamp
            H == Stamp \div 2
            s == SentTime(q, t)
            whole == t - (t % Stamp) + q
<1>1. /\ Word \in Nat \ {0} /\ Stamp \in Nat \ {0} /\ 2 * Stamp <= Word
      /\ H \in Nat /\ Stamp = 2 * H
  BY TimeFacts
<1>2. /\ t \in 0 .. Word - 1 /\ t % Stamp = r /\ t - r \in Nat
      /\ t - r + Stamp <= Word
  BY StampOfWord
<1>3. /\ k \in Nat /\ r \in 0 .. Stamp - 1 /\ T = Stamp * k + r
      /\ j \in Nat /\ q \in 0 .. Stamp - 1 /\ A = Stamp * j + q
  BY <1>1, DivisionFacts
<1>4. q % Stamp = q
  <2>. HIDE DEF q
  <2>1. q \in Nat /\ q = Stamp * 0 + q
    BY <1>1, <1>3
  <2>. QED
    BY <1>1, <1>3, <2>1, DivisionUnique
<1>5. /\ whole = t - r + q
      /\ s = IF q >= H /\ ~ (r >= H) THEN (whole - Stamp) % Word ELSE whole
  BY <1>2, <1>4 DEF SentTime, UpperHalf
<1>. HIDE DEF t, k, r, j, q, H, s, whole
<1>. DEFINE delay == T - A
<1>6. delay \in 0 .. Stamp - 1
  BY <1>1
<1>7. \/ j = k /\ q = r - delay
      \/ j = k - 1 /\ q = r - delay + Stamp
  <2>1. Stamp * j < Stamp * (k + 1) /\ Stamp * (k - 1) < Stamp * (j + 1)
    <3>1. Stamp * (k + 1) = Stamp * k + Stamp /\ Stamp * (j + 1) = Stamp * j + Stamp
          /\ Stamp * (k - 1) = Stamp * k - Stamp
      BY <1>1, <1>3
    <3>2. Stamp * k \in Nat /\ Stamp * j \in Nat
      BY <1>1, <1>3
    <3>. QED
      BY <1>1, <1>3, <3>1, <3>2
  <2>2. j <= k /\ k - 1 <= j
    BY <1>1, <1>3, <2>1, ProductOrder
  <2>3. j = k \/ j = k - 1
    BY <1>3, <2>2
  <2>4. CASE j = k
    <3>1. Stamp * k \in Nat
      BY <1>1, <1>3
    <3>. QED
      BY <1>3, <2>4, <3>1
  <2>5. CASE j = k - 1
    <3>1. Stamp * k \in Nat /\ Stamp * j = Stamp * k - Stamp
      BY <1>1, <1>3, <2>5
    <3>. QED
      BY <1>1, <1>3, <2>5, <3>1
  <2>. QED
    BY <2>3, <2>4, <2>5
<1>. HIDE DEF delay
<1>8. ASSUME NEW x \in Int, x = t - delay \/ x = (t - delay) % Word
      PROVE  (t - x) % Word = delay
  <2>1. delay \in 0 .. Word - 1 /\ t - delay \in Int
    BY <1>1, <1>2, <1>6
  <2>2. CASE x = t - delay
    BY <1>1, <1>2, <2>1, <2>2, RemainderUnique, t - x = Word * 0 + delay, t - x \in Int
  <2>3. CASE x = (t - delay) % Word
    <3>1. CASE delay <= t
      <4>1. t - delay = Word * 0 + (t - delay) /\ t - delay \in 0 .. Word - 1
        BY <1>1, <1>2, <1>6, <3>1
      <4>2. x = t - delay
        BY <1>1, <2>1, <2>3, <4>1, RemainderUnique
      <4>. QED
        BY <2>2, <4>2
    <3>2. CASE ~ (delay <= t)
      <4>1. t - delay = Word * (-1) + (t - delay + Word) /\ t - delay + Word \in 0 .. Word - 1
        BY <1>1, <1>2, <2>1, <3>2
      <4>2. x = t - delay + Word
        BY <1>1, <2>1, <2>3, <4>1, RemainderUnique
      <4>3. t - x = Word * (-1) + delay /\ t - x \in Int
        BY <1>1, <1>2, <1>6, <4>2
      <4>. QED
        BY <1>1, <2>1, <4>3, RemainderUnique
    <3>. QED
      BY <3>1, <3>2
  <2>. QED
    BY <1>8, <2>2, <2>3
<1>9. ASSUME s = t - delay + Stamp
      PROVE  (t - s) % Word = delay + (Word - Stamp)
  <2>1. t - s = Word * (-1) + (delay + (Word - Stamp)) /\ t - s \in Int
    BY <1>1, <1>2, <1>6, <1>9
  <2>2. delay + (Word - Stamp) \in 0 .. Word - 1
    BY <1>1, <1>6
  <2>. QED
    BY <1>1, <2>1, <2>2, RemainderUnique
<1>10. CASE j = k
  <2>1. q = r - delay
    BY <1>3, <1>7, <1>10
  <2>2. whole = t - delay /\ ~ (q >= H /\ ~ (r >= H))
    BY <1>1, <1>2, <1>3, <1>5, <1>6, <2>1
  <2>3. s = t - delay /\ s \in Int
    BY <1>2, <1>5, <1>6, <2>2
  <2>4. (t - s) % Word = delay
    BY <1>8, <2>3
  <2>. QED
    BY <2>4 DEF t, s, q, delay
<1>11. CASE j = k - 1
  <2>1. q = r - delay + Stamp
    BY <1>3, <1>7, <1>11
  <2>2. whole = t - delay + Stamp
    BY <1>1, <1>2, <1>3, <1>5, <1>6, <2>1
  <2>3. CASE q >= H /\ ~ (r >= H)
    <3>1. s = (t - delay) % Word
      <4>1. whole - Stamp = t - delay
        BY <1>1, <1>2, <1>6, <2>2
      <4>. QED
        BY <1>5, <2>3, <4>1
    <3>2. s \in Int
      BY <1>1, <1>2, <1>6, <3>1
    <3>3. (t - s) % Word = delay
      BY <1>8, <3>1, <3>2
    <3>. QED
      BY <3>3 DEF t, s, q, delay
  <2>4. CASE ~ (q >= H /\ ~ (r >= H))
    <3>1. s = t - delay + Stamp
      BY <1>5, <2>2, <2>4
    <3>2. delay >= H
      BY <1>1, <1>3, <1>6, <2>1, <2>4
    <3>3. (t - s) % Word = delay + (Word - Stamp)
      BY <1>9, <3>1
    <3>. QED
      BY <3>2, <3>3 DEF t, s, q, H, delay
  <2>. QED
    BY <2>3, <2>4
<1>. QED
  BY <1>7, <1>10, <1>11

(* What the invariant says of the times: every acknowledgement that may     *)
(* come was sent for something before now.                                  *)
TimesRight ==
    /\ now \in Nat /\ start \in Nat
    /\ \A a \in acks : a.at \in Nat /\ a.at <= now

(* Time goes on, and only what is sent now may be acknowledged besides.     *)
LEMMA TimesStepwise == TimesRight /\ [Next]_vars => TimesRight'
<1>. SUFFICES ASSUME TimesRight, [Next]_vars PROVE TimesRight'
  OBVIOUS
<1>1. CASE Queue
  BY <1>1 DEF TimesRight, Queue
<1>2. ASSUME NEW pause \in 0 .. MaxPause, Service(pause)
      PROVE  TimesRight'
  <2>. DEFINE at == now + pause
  <2>1. MaxPause \in Nat
    BY TimeoutsAssumption
  <2>2. now' = at /\ start' = start
    BY <1>2 DEF Service
  <2>3. at \in Nat /\ now <= at
    BY <2>1 DEF TimesRight
  <2>. DEFINE t == (start + at) % Word
              check == CheckTimeouts(t)
              queue == check.again \o outgoing
              sending == [i \in DOMAIN queue |-> Sending(queue[i], at, t)]
  <2>4. \/ acks' = {}
        \/ acks' = {a \in acks : at - a.at <= Lifetime} \union
                      {[id |-> c.id, at |-> at] : c \in ToSet(sending)}
    <3>. HIDE DEF check
    <3>. QED
      BY <1>2 DEF Service, check
  <2>. HIDE DEF sending
  <2>5. \A a \in acks' : a \in acks \/ a.at = at
    BY <2>4
  <2>. HIDE DEF at
  <2>. QED
    BY <2>2, <2>3, <2>5 DEF TimesRight
<1>3. ASSUME NEW a \in acks, Acknowledge(a)
      PROVE  TimesRight'
  BY <1>3 DEF TimesRight, Acknowledge
<1>4. CASE UNCHANGED vars
  BY <1>4 DEF TimesRight, vars
<1>. QED
  BY <1>1, <1>2, <1>3, <1>4 DEF Next

(* enet_protocol_handle_acknowledge never ignores an acknowledgement that   *)
(* comes before half of what a header can tell of time has passed, and      *)
(* takes from it the true round trip; one that is handled before that time  *)
(* is full gives no false one.  With 16 bits in a header, this is half a    *)
(* minute and a minute, and it holds across the wrap of these and of the    *)
(* 32 bits of the host's time.                                              *)
THEOREM RoundTripsTrue == Spec => []RoundTripTrue
<1>1. Init => TimesRight
  BY TimeoutsAssumption DEF Init, TimesRight, Times
<1>2. TimesRight => RoundTripTrue
  <2>. SUFFICES ASSUME TimesRight PROVE RoundTripTrue
    OBVIOUS
  <2>. SUFFICES ASSUME NEW a \in acks, now - a.at < Stamp
                PROVE  /\ now - a.at < Stamp \div 2 => ~ IsIgnored(a)
                       /\ IsIgnored(a) \/ RoundTrip(a) = Larger(now - a.at, 1)
    <3>1. \A d \in Nat : d < Stamp \div 2 => d < Stamp
      BY TimeFacts
    <3>2. \A a \in acks : now - a.at \in Nat
      BY DEF TimesRight
    <3>. QED
      BY <3>1, <3>2 DEF RoundTripTrue
  <2>. DEFINE T == start + now
              A == start + a.at
              s == ReceivedSentTime(a)
              behind == (serviceTime - s) % Word
              H == Stamp \div 2
  <2>1. T \in Nat /\ A \in Nat /\ A <= T /\ T - A = now - a.at
    BY DEF TimesRight
  <2>2. \/ behind = T - A
        \/ behind = (T - A) + (Word - Stamp) /\ T - A >= H
    <3>1. T - A < Stamp
      BY <2>1
    <3>2. s = SentTime(A % Stamp, T % Word) /\ serviceTime = T % Word
      BY DEF ReceivedSentTime, serviceTime
    <3>. HIDE DEF T, A, s
    <3>. QED
      BY <2>1, <3>1, <3>2, SentTimeWhole
  <2>3. /\ IsIgnored(a) <=> behind >= Overflow
        /\ ~ IsIgnored(a) => RoundTrip(a) = Larger(behind, 1)
    BY DEF IsIgnored, RoundTrip, Difference, Less
  <2>. HIDE DEF T, A, s, behind, H
  <2>4. CASE behind = T - A
    <3>1. ~ (behind >= Overflow)
      BY <2>1, <2>4, TimeFacts
    <3>. QED
      BY <2>1, <2>3, <2>4, <3>1
  <2>5. CASE behind = (T - A) + (Word - Stamp) /\ T - A >= H
    <3>1. behind >= Overflow
      BY <2>1, <2>5, TimeFacts
    <3>2. ~ (now - a.at < H)
      BY <2>1, <2>5, TimeFacts DEF H
    <3>. QED
      BY <2>3, <3>1, <3>2 DEF H
  <2>. QED
    BY <2>2, <2>4, <2>5
<1>. QED
  BY <1>1, <1>2, TimesStepwise, PTL DEF Spec
=============================================================================
