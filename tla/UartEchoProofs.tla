---------------------------- MODULE UartEchoProofs ----------------------------
(* The echo firmware loses nothing that it accepted, for every size of its    *)
(* ring and of the UART's buffers, every width of the indices and any input.  *)
EXTENDS UartEcho, SequenceTheorems, TLAPS

-----------------------------------------------------------------------------
(* Division and indices that wrap around.                                  *)

\* Quotient and remainder.
LEMMA DivMod ==
  ASSUME NEW a \in Nat, NEW n \in Nat \ {0}
  PROVE  /\ a \div n \in Nat /\ a % n \in 0 .. n - 1
         /\ a = n * (a \div n) + (a % n)
OBVIOUS

\* They are the only ones.
LEMMA UniqueRemainder ==
  ASSUME NEW n \in Nat \ {0}, NEW q \in Nat, NEW k \in Nat, NEW r \in 0 .. n-1, NEW s \in 0 .. n-1,
         n * q + r = n * k + s
  PROVE  q = k /\ r = s
<1>1. CASE q >= k+1
  <2>1. n * q >= n * k + n
    BY <1>1
  <2> QED
    BY <2>1
<1>2. CASE k >= q + 1
  <2>1. n * k >= n * q + n
    BY <1>2
  <2> QED
    BY <2>1
<1> QED
  BY <1>1, <1>2

\* So a number that is written with a remainder has that one.
LEMMA Remainder ==
  ASSUME NEW n \in Nat \ {0}, NEW q \in Nat, NEW r \in 0 .. n-1
  PROVE  (n * q + r) % n = r
<1> DEFINE a == n * q + r
       k == a \div n
       s == a % n
<1>1. a \in Nat /\ n * q + r = a
  OBVIOUS
<1> HIDE DEF a
<1>2. k \in Nat /\ s \in 0 .. n - 1 /\ a = n * k + s
  BY <1>1, DivMod
<1> HIDE DEF k, s
<1>3. n * q + r = n * k + s
  BY <1>1, <1>2
<1>4. s = r
  BY <1>2, <1>3, UniqueRemainder
<1> QED
  BY <1>1, <1>4 DEF s

\* An index that wraps around counts on.
LEMMA CountsOn ==
  ASSUME NEW n \in Nat \ {0}, NEW a \in Nat
  PROVE  ((a % n) + 1) % n = (a + 1) % n
<1>1. /\ a \div n \in Nat /\ a % n \in 0 .. n - 1
      /\ a = n * (a \div n) + (a % n)
  BY DivMod
<1> DEFINE q == a \div n
           r == a % n
<1>2. q \in Nat /\ r \in 0 .. n-1 /\ a = n * q + r
  BY <1>1
<1> HIDE DEF q, r
<1>3. CASE r + 1 < n
  <2>1. a + 1 = n * q + (r + 1) /\ r + 1 \in 0 .. n - 1 /\ r + 1 = n * 0 + (r+1)
    BY <1>2, <1>3
  <2>2. (a + 1) % n = r + 1 /\ (r + 1) % n = r + 1
    BY <1>2, <2>1, Remainder
  <2> QED
    BY <2>2 DEF r
<1>4. CASE r + 1 = n
  <2>1. a + 1 = n * (q + 1) + 0 /\ 0 \in 0 .. n - 1 /\ r + 1 = n * 1 + 0 /\ q + 1 \in Nat
    BY <1>2, <1>4
  <2>2. (a + 1) % n = 0
    BY <2>1, Remainder
  <2>3. (r + 1) % n = 0
    BY <2>1, Remainder
  <2> QED
    BY <2>2, <2>3 DEF r
<1> QED
  BY <1>2, <1>3, <1>4

\* tx_write - tx_read in words is how far the one is ahead of the other.
LEMMA Distance ==
  ASSUME NEW n \in Nat \ {0}, NEW a \in Nat, NEW d \in 0 .. n - 1
  PROVE  (((a + d) % n) + n - (a % n)) % n = d
<1> DEFINE q == a \div n
           r == a % n
           k == (a + d) \div n
           s == (a + d) % n
<1>2. q \in Nat /\ r \in 0 .. n-1 /\ a = n * q + r
  BY DivMod
<1>3. k \in Nat /\ s \in 0 .. n-1 /\ a + d = n * k + s
  <2>1. a + d \in Nat
    OBVIOUS
  <2> QED
    BY <2>1, DivMod
<1> HIDE DEF q, r, k, s
<1>4. CASE r + d < n
  <2>1. a + d = n * q + (r + d) /\ r + d \in 0 .. n - 1
    BY <1>2, <1>4
  <2>2. s = r + d
    BY <1>2, <1>3, <2>1, UniqueRemainder
  <2>3. s + n - r = n * 1 + d
    BY <1>2, <2>2
  <2>4. (s + n - r) % n = d
    BY <2>3, Remainder
  <2> QED
    BY <2>4 DEF s, r
<1>5. CASE r + d >= n
  <2>1. a + d = n * (q + 1) + (r + d - n) /\ r + d - n \in 0 .. n - 1 /\ q + 1 \in Nat
    BY <1>2, <1>5
  <2>2. s = r + d - n
    BY <1>2, <1>3, <2>1, UniqueRemainder
  <2>3. s + n - r = n * 0 + d
    BY <1>2, <2>2
  <2>4. (s + n - r) % n = d
    BY <2>3, Remainder
  <2> QED
    BY <2>4 DEF s, r
<1> QED
  BY <1>2, <1>4, <1>5

\* Indices less than a ring apart have places of their own.
LEMMA OtherPlace ==
  ASSUME NEW c \in Nat \ {0}, NEW a \in Nat, NEW d \in 1 .. c - 1
  PROVE  (a + d) % c # a % c
<1> DEFINE q == a \div c
           r == a % c
<1>1. q \in Nat /\ r \in 0 .. c-1 /\ a = c * q + r
  BY DivMod
<1> HIDE DEF q, r
<1>2. CASE r + d < c
  <2>1. a + d = c * q + (r + d) /\ r + d \in 0 .. c - 1
    BY <1>1, <1>2
  <2>2. (a + d) % c = r + d
    BY <1>1, <2>1, Remainder
  <2> QED
    BY <1>1, <2>2 DEF r
<1>3. CASE r + d >= c
  <2>1. a + d = c * (q + 1) + (r + d - c) /\ r + d - c \in 0 .. c - 1 /\ q + 1 \in Nat
    BY <1>1, <1>3
  <2>2. (a + d) % c = r + d - c
    BY <2>1, Remainder
  <2> QED
    BY <1>1, <2>2 DEF r
<1> QED
  BY <1>1, <1>2, <1>3

\* The place that lies j behind an index.
LEMMA PlaceBehind ==
  ASSUME NEW c \in Nat \ {0}, NEW n \in Nat \ {0}, n % c = 0, NEW a \in Nat, NEW j \in Nat
  PROVE  ((a % n) + j) % c = (a + j) % c
<1> DEFINE q == a \div n
           r == a % n
           m == n \div c
           k == (r + j) \div c
           s == (r + j) % c
<1>1. q \in Nat /\ r \in 0 .. n - 1 /\ a = n * q + r
  BY DivMod
<1>2. m \in Nat /\ n = c * m + 0
  BY DivMod
<1>3. k \in Nat /\ s \in 0 .. c - 1 /\ r + j = c * k + s
  <2>1. r + j \in Nat
    BY <1>1
  <2> HIDE DEF r
  <2> QED
    BY <2>1, DivMod
<1> HIDE DEF q, r, k, s, m
<1>4. a + j = c * (m * q + k) + s
  BY <1>1, <1>2, <1>3
<1>5. m * q + k \in Nat
  BY <1>1, <1>2, <1>3
<1>6. (a + j) % c = s
  BY <1>3, <1>4, <1>5, Remainder
<1> QED
  BY <1>6 DEF s, r

\* The mask finds the place of an index, whether or not it has wrapped around.
LEMMA SamePlace ==
  ASSUME NEW c \in Nat \ {0}, NEW n \in Nat \ {0}, n % c = 0, NEW a \in Nat
  PROVE  (a % n) % c = a % c
<1>1. \A j \in Nat : ((a % n) + j) % c = (a + j) % c
  BY PlaceBehind
<1>2. ((a % n) + 0) % c = (a + 0) % c
  BY <1>1
<1>3. a % n \in Nat
  BY DivMod
<1> QED
  BY <1>2, <1>3

-----------------------------------------------------------------------------
(* The inductive invariant.                                                *)

\* The indices are the lengths of the streams, as far as a word holds them, and
\* the ring has a place for what is not sent.
Counted ==
    /\ Len(sent) <= Len(pushed) /\ Len(pushed) - Len(sent) <= TxBufferCapacity
    /\ tx_read = Len(sent) % Word /\ tx_write = Len(pushed) % Word

\* What is sent was pushed, and what is not is in its place of the ring.
InPlace ==
    /\ \A i \in 1 .. Len(sent) : sent[i] = pushed[i]
    /\ \A i \in 1 .. Len(pushed) :
         i > Len(sent) => buffer[(i - 1) % TxBufferCapacity] = pushed[i]

\* Until the banner is queued nothing else happens.
BannerQueued ==
    /\ \A i \in 1 .. Len(pushed) : i <= BannerLength => pushed[i] = i
    /\ IF main \in {"setup", "queue"}
       THEN Len(pushed) = index /\ sent = <<>>
       ELSE Len(pushed) >= BannerLength

\* The handler runs when the main program sleeps, and then only has the source
\* claimed.
OneAtATime ==
    /\ enabled <=> main = "wfi"
    /\ trap # "none" => main = "wfi"
    /\ claimed <=> trap \in {"receive", "send", "ier", "complete"}

\* Outside of what sets it, the interrupt enable register follows the ring.
IerFollowsRing ==
    main \in {"unmask", "wfi"} /\ trap \in {"none", "claim", "complete"} =>
        ier = {"rx"} \cup (IF tx_read # tx_write THEN {"tx"} ELSE {})

IInv ==
    /\ TypeOK /\ Counted /\ InPlace
    /\ BannerQueued /\ OneAtATime /\ IerFollowsRing

-----------------------------------------------------------------------------
\* What the assumption says of the constants, one by one.
LEMMA Constants ==
  /\ TxBufferCapacity \in Nat \ {0} /\ Word \in Nat \ {0}
  /\ RxFifo \in Nat \ {0} /\ TxFifo \in Nat \ {0}
  /\ Word % TxBufferCapacity = 0 /\ TxBufferCapacity < Word
  /\ BannerLength \in Nat /\ BannerLength <= TxBufferCapacity
  /\ MaxInput \in Nat
BY UartEchoAssumption

\* The place that lies k behind an index, wherever the index wraps around.
LEMMA PlaceInRing ==
  ASSUME NEW a \in Nat, NEW k \in Nat
  PROVE  ((a % Word) + k) % TxBufferCapacity = (a + k) % TxBufferCapacity
<1> DEFINE c == TxBufferCapacity
           n == Word
<1>1. c \in Nat \ {0} /\ n \in Nat \ {0} /\ n % c = 0
  BY Constants
<1> HIDE DEF c, n
<1>2. \A j \in Nat : ((a % n) + j) % c = (a + j) % c
  BY <1>1, PlaceBehind
<1> QED
  BY <1>2 DEF c, n

\* Indices that are equal are no distance apart.
LEMMA WordOverWord == Word % Word = 0
<1> DEFINE n == Word
           q == 1
           r == 0
<1>1. n \in Nat \ {0} /\ q \in Nat /\ r \in 0 .. n - 1 /\ n * q + r = n
  BY Constants
<1> HIDE DEF n, q, r
<1>2. (n * q + r) % n = r
  BY <1>1, Remainder
<1> QED
  BY <1>1, <1>2 DEF n, r

\* What the firmware computes from the wrapped indices is the distance of the
\* counts behind them.
LEMMA Wrapped ==
  ASSUME NEW a \in Nat, NEW b \in Nat, a <= b, b - a <= TxBufferCapacity
  PROVE  /\ a % Word \in 0 .. Word - 1 /\ b % Word \in 0 .. Word - 1
         /\ ((b % Word) + Word - (a % Word)) % Word = b - a
         /\ a % Word = b % Word <=> a = b
<1> DEFINE d == b - a
<1>1. d \in 0 .. Word - 1 /\ a + d = b
  BY Constants
<1>2. a % Word \in 0 .. Word - 1 /\ b % Word \in 0 .. Word - 1
  BY Constants, DivMod
<1> HIDE DEF d
<1>3. (((a + d) % Word) + Word - (a % Word)) % Word = d
  BY <1>1, Constants, Distance
<1>4. ASSUME b % Word = a % Word PROVE d = 0
  <2> DEFINE r == a % Word
  <2>1. r \in Nat /\ (r + Word - r) % Word = d
    BY <1>1, <1>2, <1>3, <1>4
  <2> HIDE DEF r
  <2>2. r + Word - r = Word
    BY <2>1, Constants
  <2> QED
    BY <2>1, <2>2, WordOverWord
<1> QED
  BY <1>1, <1>2, <1>3, <1>4 DEF d

\* So it is how much is not sent yet.
LEMMA UsedIsWaiting ==
  ASSUME Counted, sent \in Seq(Byte), pushed \in Seq(Byte)
  PROVE  /\ Used = Len(pushed) - Len(sent)
         /\ tx_read = tx_write <=> Len(pushed) = Len(sent)
<1> DEFINE a == Len(sent)
           b == Len(pushed)
<1>1. a \in Nat /\ b \in Nat /\ a <= b /\ b - a <= TxBufferCapacity
      /\ tx_read = a % Word /\ tx_write = b % Word
  BY Constants DEF Counted
<1> HIDE DEF a, b
<1>2. Used = b - a /\ (tx_read = tx_write <=> a = b)
  BY <1>1, Wrapped DEF Used
<1> QED
  BY <1>2 DEF a, b

\* It holds when the firmware starts.
LEMMA InitIInv == Init => IInv
<1> SUFFICES ASSUME Init PROVE IInv
  OBVIOUS
<1>1. 0 % Word = 0
  BY Constants
<1>2. TypeOK
  <2>1. Used = 0
    <3>1. 0 + Word - 0 = Word
      BY Constants
    <3> QED
      BY <3>1, WordOverWord DEF Init, Used
  <2>2. buffer \in [0 .. TxBufferCapacity - 1 -> Byte \cup {0}]
    BY DEF Init
  <2>3. rx \in Seq(Byte) /\ tx \in Seq(Byte) /\ {pushed, sent} \subseteq Seq(Byte)
        /\ Len(rx) = 0 /\ Len(tx) = 0
    BY DEF Init
  <2>4. {tx_read, tx_write} \subseteq 0 .. Word - 1
    BY Constants DEF Init
  <2>5. Used <= TxBufferCapacity
    BY <2>1, Constants
  <2>6. index \in 0 .. BannerLength /\ input \in 0 .. MaxInput /\ ier \subseteq {"rx", "tx"}
    BY Constants DEF Init
  <2>7. Len(rx) <= RxFifo /\ Len(tx) <= TxFifo
    BY <2>3, Constants
  <2> QED
    BY <2>2, <2>3, <2>4, <2>5, <2>6, <2>7 DEF Init, TypeOK
<1> QED
  BY <1>1, <1>2, Constants
     DEF Init, IInv, Counted, InPlace, BannerQueued, OneAtATime, IerFollowsRing

-----------------------------------------------------------------------------
(* What the main program and the handler share.                            *)

\* The ring by itself.
RingTypes ==
    /\ buffer \in [0 .. TxBufferCapacity - 1 -> Byte \cup {0}]
    /\ {tx_read, tx_write} \subseteq 0 .. Word - 1
    /\ Used <= TxBufferCapacity
    /\ pushed \in Seq(Byte) /\ sent \in Seq(Byte)

RingOK == RingTypes /\ Counted /\ InPlace

\* Indices that are counted right keep their bounds.
LEMMA CountedBounds ==
  ASSUME NEW a \in Nat, NEW b \in Nat, a <= b, b - a <= TxBufferCapacity,
         NEW read, NEW write, read = a % Word, write = b % Word
  PROVE  /\ {read, write} \subseteq 0 .. Word - 1
         /\ (write + Word - read) % Word <= TxBufferCapacity
<1>1. /\ a % Word \in 0 .. Word - 1 /\ b % Word \in 0 .. Word - 1
      /\ ((b % Word) + Word - (a % Word)) % Word = b - a
  BY Wrapped
<1> QED
  BY <1>1

\* tx_push puts a byte into a place that holds nothing that is still to send.
LEMMA PushRing ==
  ASSUME RingOK, NEW byte \in Byte, Push(byte), UNCHANGED sent
  PROVE  /\ RingOK'
         /\ pushed' = pushed \/ pushed' = Append(pushed, byte)
         /\ Len(pushed) - Len(sent) < TxBufferCapacity =>
              pushed' = Append(pushed, byte)
<1> DEFINE a == Len(sent)
           b == Len(pushed)
           w == b % TxBufferCapacity
<1>1. a \in Nat /\ b \in Nat /\ a <= b /\ b - a <= TxBufferCapacity /\ Used = b - a
  BY UsedIsWaiting DEF RingOK, RingTypes, Counted
<1>2. CASE Full
  <2>1. UNCHANGED <<ring, pushed>> /\ b - a = TxBufferCapacity
    BY <1>1, <1>2 DEF Push, Full
  <2>2. RingOK'
    BY <2>1 DEF RingOK, RingTypes, Counted, InPlace, ring, Used
  <2> QED
    BY <1>1, <2>1, <2>2, Constants
<1>3. CASE ~Full
  <2>1. /\ pushed' = Append(pushed, byte) /\ tx_read' = tx_read
        /\ buffer' = [buffer EXCEPT ![tx_write % TxBufferCapacity] = byte]
        /\ tx_write' = (tx_write + 1) % Word
    BY <1>3 DEF Push
  <2>2. b - a < TxBufferCapacity
    BY <1>1, <1>3, Constants DEF Full
  <2>3. /\ pushed' \in Seq(Byte) /\ Len(pushed') = b + 1
        /\ \A i \in 1 .. b : pushed'[i] = pushed[i]
        /\ pushed'[b + 1] = byte
    BY <2>1 DEF RingOK, RingTypes
  <2>4. tx_write % TxBufferCapacity = w /\ w \in 0 .. TxBufferCapacity - 1
    BY <1>1, Constants, SamePlace, DivMod DEF RingOK, Counted
  <2>5. Counted'
    <3>1. tx_write' = (b + 1) % Word
      BY <1>1, <2>1, Constants, CountsOn DEF RingOK, Counted
    <3>2. Len(sent') = a /\ a <= b + 1 /\ b + 1 - a <= TxBufferCapacity
      BY <1>1, <2>2, Constants
    <3> QED
      BY <2>1, <2>3, <3>1, <3>2 DEF RingOK, Counted
  <2>6. buffer' \in [0 .. TxBufferCapacity - 1 -> Byte \cup {0}] /\ buffer'[w] = byte
        /\ \A k \in 0 .. TxBufferCapacity - 1 : k # w => buffer'[k] = buffer[k]
    BY <2>1, <2>4 DEF RingOK, RingTypes
  <2>7. ASSUME NEW i \in 1 .. b, i > a
        PROVE  buffer'[(i - 1) % TxBufferCapacity] = pushed'[i]
    <3>1. i - 1 \in Nat
      OBVIOUS
    <3>2. (i - 1) % TxBufferCapacity # w
      <4> DEFINE j == i - 1
                 d == b - j
      <4>1. j \in Nat /\ d \in 1 .. TxBufferCapacity - 1 /\ j + d = b
        BY <1>1, <2>2, <2>7, Constants
      <4> HIDE DEF j, d
      <4> QED
        BY <4>1, Constants, OtherPlace DEF j
    <3>3. (i - 1) % TxBufferCapacity \in 0 .. TxBufferCapacity - 1
      BY <3>1, Constants, DivMod
    <3> QED
      BY <2>3, <2>6, <2>7, <3>2, <3>3 DEF RingOK, InPlace
  <2>8. InPlace'
    <3>1. \A i \in 1 .. b + 1 :
            i > a => buffer'[(i - 1) % TxBufferCapacity] = pushed'[i]
      <4> SUFFICES ASSUME NEW i \in 1 .. b + 1, i > a
                   PROVE  buffer'[(i - 1) % TxBufferCapacity] = pushed'[i]
        OBVIOUS
      <4>1. CASE i = b + 1
        BY <1>1, <2>3, <2>6, <4>1
      <4>2. CASE i \in 1 .. b
        BY <2>7, <4>2
      <4> QED
        BY <1>1, <4>1, <4>2
    <3>2. \A i \in 1 .. a : sent[i] = pushed'[i]
      BY <1>1, <2>3 DEF RingOK, InPlace
    <3> QED
      BY <2>3, <3>1, <3>2 DEF InPlace
  <2>9. RingTypes'
    <3>1. /\ Len(sent') = a /\ Len(pushed') = b + 1 /\ b + 1 \in Nat
          /\ a <= b + 1 /\ b + 1 - a <= TxBufferCapacity
      BY <1>1, <2>2, <2>3, Constants
    <3>2. {tx_read', tx_write'} \subseteq 0 .. Word - 1 /\ Used' <= TxBufferCapacity
      BY <1>1, <2>5, <3>1, CountedBounds DEF Counted, Used
    <3> QED
      BY <2>3, <2>6, <3>2 DEF RingOK, RingTypes
  <2> QED
    BY <2>1, <2>5, <2>8, <2>9 DEF RingOK
<1> QED
  BY <1>2, <1>3

\* uart_service_tx sends the oldest byte that is not sent.
LEMMA SendRing ==
  ASSUME RingOK, SendOne, tx \in Seq(Byte), Len(tx) <= TxFifo
  PROVE  /\ RingOK' /\ pushed' = pushed /\ pushed # <<>>
         /\ tx' \in Seq(Byte) /\ Len(tx') <= TxFifo
<1> DEFINE a == Len(sent)
           b == Len(pushed)
           byte == buffer[tx_read % TxBufferCapacity]
<1>1. a \in Nat /\ b \in Nat /\ a < b /\ b - a <= TxBufferCapacity
  BY UsedIsWaiting DEF RingOK, RingTypes, Counted, SendOne
<1>2. tx_read % TxBufferCapacity = a % TxBufferCapacity
  BY <1>1, Constants, SamePlace DEF RingOK, Counted
<1>3. byte = pushed[a + 1] /\ byte \in Byte
  <2>1. a + 1 \in 1 .. b /\ a + 1 > a /\ (a + 1) - 1 = a
    BY <1>1
  <2>2. buffer[((a + 1) - 1) % TxBufferCapacity] = pushed[a + 1]
    BY <2>1 DEF RingOK, InPlace
  <2>3. pushed[a + 1] \in Byte
    BY <2>1 DEF RingOK, RingTypes
  <2> QED
    BY <1>2, <2>1, <2>2, <2>3
<1>4. /\ pushed' = pushed /\ buffer' = buffer /\ tx_write' = tx_write
      /\ sent' = Append(sent, byte) /\ tx' = Append(tx, byte)
      /\ tx_read' = (tx_read + 1) % Word /\ Len(tx) < TxFifo
  BY DEF SendOne, HoldingEmpty
<1> HIDE DEF byte
<1>5. /\ sent' \in Seq(Byte) /\ Len(sent') = a + 1 /\ sent'[a + 1] = byte
      /\ \A i \in 1 .. a : sent'[i] = sent[i]
  BY <1>3, <1>4 DEF RingOK, RingTypes
<1>6. tx' \in Seq(Byte) /\ Len(tx') <= TxFifo
  BY <1>3, <1>4, Constants
<1>7. Counted'
  <2>1. tx_read' = (a + 1) % Word
    BY <1>1, <1>4, Constants, CountsOn DEF RingOK, Counted
  <2>2. a + 1 <= b /\ b - (a + 1) <= TxBufferCapacity
    BY <1>1, Constants
  <2> QED
    BY <1>4, <1>5, <2>1, <2>2 DEF RingOK, Counted
<1>8. InPlace'
  <2>1. \A i \in 1 .. a + 1 : sent'[i] = pushed[i]
    BY <1>1, <1>3, <1>5 DEF RingOK, InPlace
  <2>2. \A i \in 1 .. b : i > a + 1 => buffer[(i - 1) % TxBufferCapacity] = pushed[i]
    BY <1>1 DEF RingOK, InPlace
  <2> QED
    BY <1>4, <1>5, <2>1, <2>2 DEF InPlace
<1>9. RingTypes'
  <2>1. a + 1 \in Nat /\ a + 1 <= b /\ b - (a + 1) <= TxBufferCapacity
    BY <1>1, Constants
  <2>2. {tx_read', tx_write'} \subseteq 0 .. Word - 1 /\ Used' <= TxBufferCapacity
    BY <1>1, <1>4, <1>5, <1>7, <2>1, CountedBounds DEF Counted, Used
  <2> QED
    BY <1>4, <1>5, <2>2 DEF RingOK, RingTypes
<1> QED
  BY <1>1, <1>4, <1>6, <1>7, <1>8, <1>9 DEF RingOK

\* Whoever leaves the ring alone leaves it in order.
LEMMA QuietRing ==
  ASSUME RingOK, UNCHANGED <<ring, history>>
  PROVE  RingOK'
BY DEF RingOK, RingTypes, Counted, InPlace, ring, history, Used

\* The types of what is not the ring.
OtherTypes ==
    /\ main \in {"setup", "queue", "send", "ier", "unmask", "wfi"}
    /\ trap \in {"none", "claim", "receive", "send", "ier", "complete"}
    /\ index \in 0 .. BannerLength
    /\ enabled \in BOOLEAN /\ claimed \in BOOLEAN
    /\ rx \in Seq(Byte) /\ Len(rx) <= RxFifo
    /\ tx \in Seq(Byte) /\ Len(tx) <= TxFifo
    /\ ier \subseteq {"rx", "tx"}
    /\ input \in 0 .. MaxInput

\* The invariant is about the ring, or about the rest.
LEMMA Parts ==
  IInv <=> /\ OtherTypes /\ RingOK
           /\ BannerQueued /\ OneAtATime /\ IerFollowsRing
BY DEF IInv, TypeOK, OtherTypes, RingOK, RingTypes

\* The same of the next state.
LEMMA PartsPrimed ==
  IInv' <=> /\ OtherTypes' /\ RingOK'
            /\ BannerQueued' /\ OneAtATime' /\ IerFollowsRing'
BY DEF IInv, TypeOK, OtherTypes, RingOK, RingTypes

-----------------------------------------------------------------------------
(* The devices.                                                            *)

\* What the host does leaves the firmware alone.
LEMMA HostIInv ==
  ASSUME IInv, HostSends \/ HostDrains \/ HostReconnects
  PROVE  IInv'
<1>1. OtherTypes /\ RingOK /\ BannerQueued /\ OneAtATime /\ IerFollowsRing
  BY Parts
<1>2. UNCHANGED <<main, trap, index, enabled, ring, ier, claimed, history>>
  BY DEF HostSends, HostDrains, HostReconnects
<1>3. OtherTypes'
  <2>1. CASE HostSends
    <3>1. input' \in 1 .. MaxInput /\ BannerLength + input' \in Byte
      BY <1>1, <2>1, Constants DEF HostSends, OtherTypes, Byte
    <3>2. rx' \in Seq(Byte) /\ Len(rx') <= RxFifo
      <4>1. CASE Len(rx) < RxFifo
        BY <1>1, <2>1, <3>1, <4>1, Constants DEF HostSends, OtherTypes
      <4>2. CASE ~(Len(rx) < RxFifo)
        BY <1>1, <2>1, <4>2 DEF HostSends, OtherTypes
      <4> QED
        BY <4>1, <4>2
    <3> QED
      BY <1>1, <2>1, <3>1, <3>2 DEF HostSends, OtherTypes
  <2>2. CASE HostDrains \/ HostReconnects
    <3>1. <<>> \in Seq(Byte) /\ Len(<<>>) = 0 /\ 0 <= RxFifo /\ 0 <= TxFifo
      BY Constants
    <3> QED
      BY <1>1, <2>2, <3>1 DEF HostDrains, HostReconnects, OtherTypes
  <2> QED
    BY <2>1, <2>2
<1>4. RingOK'
  BY <1>1, <1>2, QuietRing
<1>5. BannerQueued' /\ OneAtATime' /\ IerFollowsRing'
  BY <1>1, <1>2 DEF BannerQueued, OneAtATime, IerFollowsRing, ring, history
<1> QED
  BY <1>3, <1>4, <1>5, PartsPrimed

-----------------------------------------------------------------------------
(* firmware_main.                                                          *)

\* The banner is queued into an empty ring that nobody reads, which has room.
LEMMA QueueIInv ==
  ASSUME IInv, Queue
  PROVE  IInv'
<1>1. OtherTypes /\ RingOK /\ BannerQueued /\ OneAtATime /\ IerFollowsRing
  BY Parts
<1>2. /\ main = "queue" /\ trap = "none" /\ UNCHANGED <<trap, claimed, input>>
      /\ UNCHANGED <<enabled, rx, tx, ier, sent>> /\ main' \in {"queue", "send"}
  BY DEF Queue, Main, uart
<1>3. /\ pushed \in Seq(Byte) /\ sent = <<>> /\ Len(sent) = 0 /\ Len(pushed) = index
      /\ index \in 0 .. BannerLength
      /\ \A i \in 1 .. Len(pushed) : i <= BannerLength => pushed[i] = i
  BY <1>1, <1>2 DEF RingOK, RingTypes, BannerQueued, OtherTypes
<1>4. CASE index < BannerLength /\ index' = index + 1 /\ main' = "queue" /\ Push(index')
  <2>1. index' \in Byte /\ index' \in 0 .. BannerLength
    BY <1>3, <1>4, Constants DEF Byte
  <2>2. RingOK' /\ pushed' = Append(pushed, index')
    BY <1>1, <1>2, <1>3, <1>4, <2>1, Constants, PushRing
  <2>3. BannerQueued'
    <3>1. /\ Len(pushed') = index' /\ pushed'[index'] = index'
          /\ \A i \in 1 .. index : pushed'[i] = pushed[i]
      BY <1>3, <1>4, <2>1, <2>2
    <3>2. \A i \in 1 .. Len(pushed') : i <= BannerLength => pushed'[i] = i
      BY <1>3, <1>4, <3>1
    <3> QED
      BY <1>2, <1>3, <1>4, <3>1, <3>2 DEF BannerQueued
  <2>4. OtherTypes' /\ OneAtATime' /\ IerFollowsRing'
    BY <1>1, <1>2, <1>4, <2>1 DEF OtherTypes, OneAtATime, IerFollowsRing
  <2> QED
    BY <2>2, <2>3, <2>4, PartsPrimed
<1>5. CASE index = BannerLength /\ UNCHANGED index /\ main' = "send"
           /\ UNCHANGED <<ring, pushed>>
  <2>1. RingOK'
    BY <1>1, <1>2, <1>5, QuietRing DEF history
  <2>2. BannerQueued'
    BY <1>2, <1>3, <1>5, Constants DEF BannerQueued
  <2>3. OtherTypes' /\ OneAtATime' /\ IerFollowsRing'
    BY <1>1, <1>2, <1>5 DEF OtherTypes, OneAtATime, IerFollowsRing
  <2> QED
    BY <2>1, <2>2, <2>3, PartsPrimed
<1> QED
  BY <1>4, <1>5 DEF Queue, Main

\* The other steps of the main program push nothing.
LEMMA MainIInv ==
  ASSUME IInv, Setup \/ MainSends \/ MainSetsIer \/ Unmask
  PROVE  IInv'
<1>1. OtherTypes /\ RingOK /\ BannerQueued /\ OneAtATime /\ IerFollowsRing
  BY Parts
<1>2. /\ trap = "none" /\ UNCHANGED <<trap, claimed, input, index, pushed, rx>>
  BY DEF Setup, MainSends, MainSetsIer, Unmask, Main, SendOne, SendDone, SetIer,
         uart, history
<1>3. CASE Setup
  <2>1. RingOK'
    BY <1>1, <1>3, QuietRing DEF Setup
  <2>2. BannerQueued'
    BY <1>1, <1>2, <1>3 DEF Setup, Main, BannerQueued, history
  <2>3. OtherTypes' /\ OneAtATime' /\ IerFollowsRing'
    BY <1>1, <1>2, <1>3 DEF Setup, Main, OtherTypes, OneAtATime, IerFollowsRing
  <2> QED
    BY <2>1, <2>2, <2>3, PartsPrimed
<1>4. CASE Main("send", "send") /\ SendOne /\ UNCHANGED <<index, enabled>>
  <2>1. RingOK' /\ tx' \in Seq(Byte) /\ Len(tx') <= TxFifo
    BY <1>1, <1>4, SendRing DEF OtherTypes
  <2>2. BannerQueued'
    BY <1>1, <1>2, <1>4 DEF Main, BannerQueued
  <2>3. OtherTypes' /\ OneAtATime' /\ IerFollowsRing'
    BY <1>1, <1>2, <1>4, <2>1
       DEF Main, SendOne, OtherTypes, OneAtATime, IerFollowsRing
  <2> QED
    BY <2>1, <2>2, <2>3, PartsPrimed
<1>5. CASE Main("send", "ier") /\ SendDone /\ UNCHANGED <<index, enabled>>
  <2>1. RingOK'
    BY <1>1, <1>5, QuietRing DEF SendDone
  <2>2. BannerQueued'
    BY <1>1, <1>2, <1>5 DEF Main, SendDone, BannerQueued, history
  <2>3. OtherTypes' /\ OneAtATime' /\ IerFollowsRing'
    BY <1>1, <1>2, <1>5
       DEF Main, SendDone, uart, OtherTypes, OneAtATime, IerFollowsRing
  <2> QED
    BY <2>1, <2>2, <2>3, PartsPrimed
<1>6. CASE MainSetsIer
  <2>1. RingOK'
    BY <1>1, <1>6, QuietRing DEF MainSetsIer, SetIer
  <2>2. BannerQueued'
    BY <1>1, <1>2, <1>6 DEF MainSetsIer, SetIer, Main, BannerQueued, history
  <2>3. ier' = {"rx"} \cup (IF tx_read' # tx_write' THEN {"tx"} ELSE {})
    BY <1>6 DEF MainSetsIer, SetIer, ring
  <2>4. IerFollowsRing'
    BY <2>3 DEF IerFollowsRing
  <2>5. ier' \subseteq {"rx", "tx"}
    BY <2>3
  <2>6. OtherTypes' /\ OneAtATime'
    BY <1>1, <1>2, <1>6, <2>5
       DEF MainSetsIer, SetIer, Main, OtherTypes, OneAtATime
  <2> QED
    BY <2>1, <2>2, <2>4, <2>6, PartsPrimed
<1>7. CASE Unmask
  <2>1. RingOK'
    BY <1>1, <1>7, QuietRing DEF Unmask
  <2>2. BannerQueued'
    BY <1>1, <1>2, <1>7 DEF Unmask, Main, BannerQueued, history
  <2>3. OtherTypes' /\ OneAtATime' /\ IerFollowsRing'
    BY <1>1, <1>2, <1>7
       DEF Unmask, Main, uart, ring, OtherTypes, OneAtATime, IerFollowsRing
  <2> QED
    BY <2>1, <2>2, <2>3, PartsPrimed
<1> QED
  BY <1>3, <1>4, <1>5, <1>6, <1>7 DEF MainSends

-----------------------------------------------------------------------------
(* machine_trap.                                                           *)

\* What is pushed behind the banner leaves it where it is.
LEMMA PushedBehind ==
  ASSUME NEW stream \in Seq(Byte), NEW byte \in Byte, NEW longer,
         longer = stream \/ longer = Append(stream, byte),
         Len(stream) >= BannerLength,
         \A i \in 1 .. Len(stream) : i <= BannerLength => stream[i] = i
  PROVE  /\ Len(longer) >= BannerLength
         /\ \A i \in 1 .. Len(longer) : i <= BannerLength => longer[i] = i
<1>1. CASE longer = stream
  BY <1>1
<1>2. CASE longer = Append(stream, byte)
  <2>1. Len(longer) = Len(stream) + 1 /\ \A i \in 1 .. Len(stream) : longer[i] = stream[i]
    BY <1>2
  <2> QED
    BY <2>1, Constants
<1> QED
  BY <1>1, <1>2

\* The handler echoes what there is to read.
LEMMA ReceiveIInv ==
  ASSUME IInv, Receive
  PROVE  IInv'
<1>1. OtherTypes /\ RingOK /\ BannerQueued /\ OneAtATime /\ IerFollowsRing
  BY Parts
<1>2. /\ trap = "receive" /\ main = "wfi" /\ trap' \in {"receive", "send"}
      /\ UNCHANGED <<main, index, enabled, input, tx, ier, claimed, sent>>
  BY <1>1 DEF Receive, Trap, OneAtATime
<1>3. OneAtATime' /\ IerFollowsRing'
  BY <1>1, <1>2 DEF OneAtATime, IerFollowsRing
<1>4. CASE DataReady /\ Push(Head(rx)) /\ rx' = Tail(rx)
  <2>1. Head(rx) \in Byte /\ rx' \in Seq(Byte) /\ Len(rx') <= RxFifo
    BY <1>1, <1>4, Constants DEF DataReady, OtherTypes
  <2>2. RingOK' /\ (pushed' = pushed \/ pushed' = Append(pushed, Head(rx)))
    BY <1>1, <1>2, <1>4, <2>1, PushRing
  <2>3. BannerQueued'
    BY <1>1, <1>2, <2>1, <2>2, PushedBehind DEF RingOK, RingTypes, BannerQueued
  <2>4. OtherTypes'
    BY <1>1, <1>2, <2>1 DEF OtherTypes
  <2> QED
    BY <1>3, <2>2, <2>3, <2>4, PartsPrimed
<1>5. CASE UNCHANGED <<ring, rx, pushed>>
  <2>1. RingOK'
    BY <1>1, <1>2, <1>5, QuietRing DEF history
  <2>2. BannerQueued' /\ OtherTypes'
    BY <1>1, <1>2, <1>5 DEF BannerQueued, OtherTypes
  <2> QED
    BY <1>3, <2>1, <2>2, PartsPrimed
<1> QED
  BY <1>4, <1>5 DEF Receive

\* It sends what the UART takes.
LEMMA TrapSendsIInv ==
  ASSUME IInv, TrapSends
  PROVE  IInv'
<1>1. OtherTypes /\ RingOK /\ BannerQueued /\ OneAtATime /\ IerFollowsRing
  BY Parts
<1>2. /\ trap = "send" /\ main = "wfi" /\ trap' \in {"send", "ier"}
      /\ UNCHANGED <<main, index, enabled, input, claimed, rx, ier, pushed>>
  BY <1>1 DEF TrapSends, Trap, SendOne, SendDone, uart, history, OneAtATime
<1>3. OneAtATime' /\ IerFollowsRing' /\ BannerQueued'
  BY <1>1, <1>2 DEF OneAtATime, IerFollowsRing, BannerQueued
<1>4. CASE SendOne
  <2>1. RingOK' /\ tx' \in Seq(Byte) /\ Len(tx') <= TxFifo
    BY <1>1, <1>4, SendRing DEF OtherTypes
  <2> QED
    BY <1>1, <1>2, <1>3, <2>1, PartsPrimed DEF OtherTypes
<1>5. CASE SendDone
  <2>1. RingOK' /\ UNCHANGED tx
    BY <1>1, <1>5, QuietRing DEF SendDone, uart
  <2> QED
    BY <1>1, <1>2, <1>3, <2>1, PartsPrimed DEF OtherTypes
<1> QED
  BY <1>4, <1>5 DEF TrapSends

\* It is entered, claims, asks for the interrupts it needs, and completes.
LEMMA TrapIInv ==
  ASSUME IInv, Interrupt \/ Claim \/ TrapSetsIer \/ Complete
  PROVE  IInv'
<1>1. OtherTypes /\ RingOK /\ BannerQueued /\ OneAtATime /\ IerFollowsRing
  BY Parts
<1>2. UNCHANGED <<main, index, enabled, input, rx, tx, ring, history>>
  BY DEF Interrupt, Claim, TrapSetsIer, Complete, Trap, SetIer, uart
<1>3. RingOK' /\ BannerQueued'
  BY <1>1, <1>2, QuietRing DEF BannerQueued, history
<1>4. CASE Interrupt \/ Claim \/ Complete
  <2>1. UNCHANGED ier
    BY <1>4 DEF Interrupt, Claim, Complete, uart
  <2>2. OtherTypes' /\ OneAtATime'
    <3>1. CASE Interrupt
      BY <1>1, <1>2, <2>1, <3>1 DEF Interrupt, OtherTypes, OneAtATime
    <3>2. CASE Claim
      <4>1. /\ trap = "claim" /\ claimed' \in BOOLEAN
            /\ \/ trap' = "receive" /\ claimed'
               \/ trap' = "none" /\ claimed' = claimed
        BY <1>1, <3>2 DEF Claim, Trap, OtherTypes
      <4>2. OneAtATime'
        BY <1>1, <1>2, <4>1 DEF OneAtATime
      <4>3. OtherTypes'
        BY <1>1, <1>2, <2>1, <4>1 DEF OtherTypes
      <4> QED
        BY <4>2, <4>3
    <3>3. CASE Complete
      <4>1. trap = "complete" /\ trap' = "none" /\ claimed' = FALSE
        BY <3>3 DEF Complete, Trap
      <4>2. OneAtATime'
        BY <1>1, <1>2, <4>1 DEF OneAtATime
      <4>3. OtherTypes'
        BY <1>1, <1>2, <2>1, <4>1 DEF OtherTypes
      <4> QED
        BY <4>2, <4>3
    <3> QED
      BY <1>4, <3>1, <3>2, <3>3
  <2>3. IerFollowsRing'
    BY <1>1, <1>2, <1>4, <2>1
       DEF Interrupt, Claim, Complete, Trap, IerFollowsRing, ring
  <2> QED
    BY <1>3, <2>2, <2>3, PartsPrimed
<1>5. CASE TrapSetsIer
  <2>1. /\ ier' = {"rx"} \cup (IF tx_read' # tx_write' THEN {"tx"} ELSE {})
        /\ trap = "ier" /\ trap' = "complete" /\ UNCHANGED claimed
    BY <1>5 DEF TrapSetsIer, SetIer, Trap, ring
  <2>2. ier' \subseteq {"rx", "tx"} /\ IerFollowsRing'
    BY <2>1 DEF IerFollowsRing
  <2>3. OneAtATime'
    BY <1>1, <1>2, <2>1 DEF OneAtATime
  <2>4. OtherTypes'
    BY <1>1, <1>2, <2>1, <2>2 DEF OtherTypes
  <2> QED
    BY <1>3, <2>2, <2>3, <2>4, PartsPrimed
<1> QED
  BY <1>4, <1>5

-----------------------------------------------------------------------------
\* The inductive invariant of the firmware.
THEOREM Inductive == Spec => []IInv
<1>1. IInv /\ UNCHANGED vars => IInv'
  <2> SUFFICES ASSUME IInv, UNCHANGED vars PROVE IInv'
    OBVIOUS
  <2>1. OtherTypes' /\ RingOK' /\ BannerQueued' /\ OneAtATime' /\ IerFollowsRing'
    BY Parts, QuietRing
       DEF vars, ring, uart, history, OtherTypes, BannerQueued, OneAtATime, IerFollowsRing
  <2> QED
    BY <2>1, PartsPrimed
<1>2. IInv /\ [Next]_vars => IInv'
  BY <1>1, HostIInv, QueueIInv, MainIInv, ReceiveIInv, TrapSendsIInv, TrapIInv
     DEF Next, Cpu
<1> QED
  BY <1>2, InitIInv, PTL DEF Spec

\* Type correctness: neither the ring nor the UART's buffers overflow.
THEOREM TypeCorrect == Spec => []TypeOK
BY Inductive, PTL DEF IInv

\* What of stream p is behind its beginning s.
Behind(s, p) == [i \in 1 .. Len(p) - Len(s) |-> p[Len(s) + i]]

\* The ring holds what is not sent, wherever the indices wrap around.
LEMMA ContentsAreBehind ==
  ASSUME IInv
  PROVE  Contents = Behind(sent, pushed)
<1> DEFINE a == Len(sent)
           b == Len(pushed)
<1>1. /\ a \in Nat /\ b \in Nat /\ a <= b /\ Used = b - a
      /\ tx_read = a % Word /\ tx_read \in Nat
  BY UsedIsWaiting, Constants DEF IInv, TypeOK, Counted
<1> HIDE DEF a, b
<1>2. ASSUME NEW i \in 1 .. b - a
      PROVE  buffer[(tx_read + i - 1) % TxBufferCapacity] = pushed[a + i]
  <2> DEFINE k == i - 1
  <2>1. /\ k \in Nat /\ a + i \in 1 .. b /\ a + i > a
        /\ (a + i) - 1 = a + k /\ tx_read + i - 1 = tx_read + k
    BY <1>1
  <2> HIDE DEF k
  <2>2. (tx_read + k) % TxBufferCapacity = (a + k) % TxBufferCapacity
    <3>1. ((a % Word) + k) % TxBufferCapacity = (a + k) % TxBufferCapacity
      <4>1. a \in Nat /\ k \in Nat
        BY <1>1, <2>1
      <4> QED
        BY <4>1, PlaceInRing
    <3> QED
      BY <1>1, <3>1
  <2>3. buffer[((a + i) - 1) % TxBufferCapacity] = pushed[a + i]
    BY <2>1 DEF IInv, InPlace, a, b
  <2> QED
    BY <2>1, <2>2, <2>3
<1>3. Contents = [i \in 1 .. b - a |-> pushed[a + i]]
  BY <1>1, <1>2 DEF Contents
<1> QED
  BY <1>3 DEF Behind, a, b

\* Every byte that tx_push accepts is sent once, in its place: what was sent and
\* what the ring holds are the accepted stream, wherever the indices wrap.
THEOREM EchoAlwaysInOrder == Spec => []EchoInOrder
<1>1. IInv => EchoInOrder
  <2> SUFFICES ASSUME IInv PROVE sent \o Contents = pushed
    BY DEF EchoInOrder
  <2> DEFINE a == Len(sent)
             b == Len(pushed)
             c == Contents
  <2>1. /\ sent \in Seq(Byte) /\ pushed \in Seq(Byte)
        /\ a \in Nat /\ b \in Nat /\ a <= b
        /\ \A i \in 1 .. b : pushed[i] \in Byte
    BY DEF IInv, TypeOK, Counted
  <2>2. c = [i \in 1 .. b - a |-> pushed[a + i]]
    BY ContentsAreBehind DEF Behind
  <2> HIDE DEF a, b, c
  <2>3. /\ c \in Seq(Byte) /\ Len(c) = b - a
        /\ \A i \in 1 .. b - a : c[i] = pushed[a + i]
    <3>1. \A i \in 1 .. b - a : pushed[a + i] \in Byte
      BY <2>1
    <3> QED
      BY <2>1, <2>2, <3>1
  <2>4. /\ sent \o c \in Seq(Byte) /\ Len(sent \o c) = Len(sent) + Len(c)
        /\ \A i \in 1 .. Len(sent) + Len(c) :
             (sent \o c)[i] = IF i <= Len(sent) THEN sent[i] ELSE c[i - Len(sent)]
    BY <2>1, <2>3, ConcatProperties
  <2>5. Len(sent) = a /\ Len(pushed) = b /\ Len(sent) + Len(c) = b
    BY <2>1, <2>3 DEF a, b
  <2>6. ASSUME NEW i \in 1 .. b PROVE (sent \o c)[i] = pushed[i]
    <3>1. CASE i <= a
      <4>1. sent[i] = pushed[i]
        BY <2>1, <2>5, <3>1 DEF IInv, InPlace
      <4>2. i \in 1 .. Len(sent) + Len(c) /\ i <= Len(sent)
        BY <2>5, <3>1
      <4> QED
        BY <2>4, <4>1, <4>2
    <3>2. CASE i > a
      <4>1. i - a \in 1 .. b - a /\ a + (i - a) = i /\ ~(i <= a)
        BY <2>1, <3>2
      <4>2. i \in 1 .. Len(sent) + Len(c) /\ ~(i <= Len(sent)) /\ i - Len(sent) = i - a
        BY <2>5, <4>1
      <4>3. (sent \o c)[i] = c[i - a]
        BY <2>4, <4>2
      <4>4. c[i - a] = pushed[i]
        BY <2>3, <4>1
      <4> QED
        BY <4>3, <4>4
    <3>3. i <= a \/ i > a
      BY <2>1
    <3> QED
      BY <3>1, <3>2, <3>3
  <2>7. sent \o c = pushed
    <3> DEFINE d == sent \o c
    <3>1. d \in Seq(Byte) /\ Len(d) = Len(pushed) /\ \A i \in 1 .. Len(d) : d[i] = pushed[i]
      BY <2>4, <2>5, <2>6
    <3> HIDE DEF d
    <3>2. d = pushed
      BY <2>1, <3>1
    <3> QED
      BY <3>2 DEF d
  <2> QED
    BY <2>7 DEF c
<1> QED
  BY <1>1, Inductive, PTL

\* The banner is whole and comes before every echoed byte.
THEOREM BannerAlwaysFirst == Spec => []BannerFirst
<1>1. IInv => BannerFirst
  BY DEF IInv, BannerQueued, BannerFirst
<1> QED
  BY <1>1, Inductive, PTL

\* The firmware never sleeps on a byte to read, or on one it could send.
THEOREM NeverSleepsOnWork == Spec => []NoSleepingWork
<1>1. IInv => NoSleepingWork
  BY DEF IInv, OneAtATime, IerFollowsRing, NoSleepingWork, Line
<1> QED
  BY <1>1, Inductive, PTL

-----------------------------------------------------------------------------
(* The pipe that the firmware implements.                                  *)

\* The types of what is behind the beginning of a stream.
LEMMA BehindTypes ==
  ASSUME NEW s \in Seq(Byte), NEW p \in Seq(Byte), Len(s) <= Len(p)
  PROVE  /\ Behind(s, p) \in Seq(Byte) /\ Len(Behind(s, p)) = Len(p) - Len(s)
         /\ \A i \in 1 .. Len(p) - Len(s) : Behind(s, p)[i] = p[Len(s) + i]
<1>1. \A i \in 1 .. Len(p) - Len(s) : Len(s) + i \in 1 .. Len(p)
  OBVIOUS
<1>2. Len(p) - Len(s) \in Nat
  OBVIOUS
<1> QED
  BY <1>1, <1>2 DEF Behind

\* What is pushed goes to its end.
LEMMA PushedGoesBehind ==
  ASSUME NEW s \in Seq(Byte), NEW p \in Seq(Byte), Len(s) <= Len(p), NEW b \in Byte
  PROVE  Behind(s, Append(p, b)) = Append(Behind(s, p), b)
<1> DEFINE q == Append(p, b)
           w == Behind(s, p)
           v == Behind(s, q)
<1>1. /\ q \in Seq(Byte) /\ Len(q) = Len(p) + 1 /\ q[Len(p) + 1] = b
      /\ \A i \in 1 .. Len(p) : q[i] = p[i]
  OBVIOUS
<1> HIDE DEF q
<1>0. Len(s) <= Len(q)
  BY <1>1
<1>2. /\ w \in Seq(Byte) /\ Len(w) = Len(p) - Len(s)
      /\ \A i \in 1 .. Len(p) - Len(s) : w[i] = p[Len(s) + i]
  BY BehindTypes
<1>3. /\ v \in Seq(Byte) /\ Len(v) = Len(q) - Len(s)
      /\ \A i \in 1 .. Len(q) - Len(s) : v[i] = q[Len(s) + i]
  BY <1>0, <1>1, BehindTypes
<1> HIDE DEF v, w
<1>4. Len(v) = Len(w) + 1
  BY <1>1, <1>2, <1>3
<1>5. ASSUME NEW i \in 1 .. Len(w) PROVE v[i] = w[i]
  <2>1. i \in 1 .. Len(p) - Len(s) /\ Len(s) + i \in 1 .. Len(p)
        /\ i \in 1 .. Len(q) - Len(s)
    BY <1>1, <1>2
  <2> QED
    BY <1>1, <1>2, <1>3, <2>1
<1>6. v[Len(w) + 1] = b
  <2>1. Len(w) + 1 \in 1 .. Len(q) - Len(s) /\ Len(s) + (Len(w) + 1) = Len(p) + 1
    BY <1>1, <1>2
  <2> QED
    BY <1>1, <1>3, <2>1
<1>7. v = Append(w, b)
  <2>1. /\ Append(w, b) \in Seq(Byte) /\ Len(Append(w, b)) = Len(w) + 1
        /\ \A i \in 1 .. Len(w) : Append(w, b)[i] = w[i]
        /\ Append(w, b)[Len(w) + 1] = b
    BY <1>2
  <2>2. ASSUME NEW i \in 1 .. Len(v) PROVE v[i] = Append(w, b)[i]
    <3>1. i \in 1 .. Len(w) \/ i = Len(w) + 1
      BY <1>2, <1>4
    <3> QED
      BY <1>5, <1>6, <2>1, <3>1
  <2> QED
    BY <1>3, <1>4, <2>1, <2>2, SeqEqual
<1> QED
  BY <1>7 DEF q, v, w

\* What is sent is taken from its beginning.
LEMMA SentIsTaken ==
  ASSUME NEW s \in Seq(Byte), NEW p \in Seq(Byte), Len(s) < Len(p), NEW b \in Byte
  PROVE  /\ Behind(s, p) # <<>> /\ Head(Behind(s, p)) = p[Len(s) + 1]
         /\ Behind(Append(s, b), p) = Tail(Behind(s, p))
<1> DEFINE r == Append(s, b)
           w == Behind(s, p)
           v == Behind(r, p)
<1>1. r \in Seq(Byte) /\ Len(r) = Len(s) + 1
  OBVIOUS
<1> HIDE DEF r
<1>0. Len(r) <= Len(p) /\ Len(s) <= Len(p)
  BY <1>1
<1>2. /\ w \in Seq(Byte) /\ Len(w) = Len(p) - Len(s)
      /\ \A i \in 1 .. Len(p) - Len(s) : w[i] = p[Len(s) + i]
  BY BehindTypes
<1>3. /\ v \in Seq(Byte) /\ Len(v) = Len(p) - Len(r)
      /\ \A i \in 1 .. Len(p) - Len(r) : v[i] = p[Len(r) + i]
  BY <1>0, <1>1, BehindTypes
<1> HIDE DEF v, w
<1>4. w # <<>> /\ Head(w) = p[Len(s) + 1]
  BY <1>2
<1>5. Tail(w) \in Seq(Byte) /\ Len(Tail(w)) = Len(w) - 1
      /\ \A i \in 1 .. Len(w) - 1 : Tail(w)[i] = w[i + 1]
  BY <1>2, <1>4
<1>6. ASSUME NEW i \in 1 .. Len(v) PROVE v[i] = Tail(w)[i]
  <2>1. /\ i \in 1 .. Len(w) - 1 /\ i + 1 \in 1 .. Len(p) - Len(s)
        /\ Len(r) + i = Len(s) + (i + 1)
    BY <1>1, <1>2, <1>3
  <2> QED
    BY <1>2, <1>3, <1>5, <2>1
<1>7. v = Tail(w)
  <2>1. Len(v) = Len(Tail(w))
    BY <1>1, <1>2, <1>3, <1>5
  <2> QED
    BY <1>3, <1>5, <1>6, <2>1, SeqEqual
<1> QED
  BY <1>4, <1>7 DEF r, v, w

\* The greeting is behind the main program, and the ring is what is not sent.
PipeInv ==
    /\ IInv
    /\ main \notin {"setup", "queue"} => index = BannerLength
    /\ Contents = Behind(sent, pushed)

\* It holds of every behaviour.
LEMMA PipeInductive == Spec => []PipeInv
<1> DEFINE Past == main \notin {"setup", "queue"} => index = BannerLength
<1>1. Init => Past
  BY DEF Init
<1>2. Past /\ [Next]_vars => Past'
  BY DEF Next, Cpu, HostSends, HostDrains, HostReconnects, Setup, Queue, MainSends,
         MainSetsIer, Unmask, Main, Interrupt, Claim, Receive, TrapSends,
         TrapSetsIer, Complete, Trap, vars
<1>3. IInv => Contents = Behind(sent, pushed)
  BY ContentsAreBehind
<1> QED
  BY <1>1, <1>2, <1>3, Inductive, PTL DEF Spec, PipeInv

\* The bounds of what waits.
LEMMA Waiting ==
  ASSUME PipeInv
  PROVE  /\ sent \in Seq(Byte) /\ pushed \in Seq(Byte)
         /\ Len(sent) <= Len(pushed) /\ Contents \in Seq(Byte)
         /\ Len(Contents) = Len(pushed) - Len(sent) /\ Len(Contents) = Used
         /\ Len(Contents) <= TxBufferCapacity
<1>1. /\ Counted /\ sent \in Seq(Byte) /\ pushed \in Seq(Byte)
      /\ Len(sent) <= Len(pushed) /\ Len(pushed) - Len(sent) <= TxBufferCapacity
      /\ Contents = Behind(sent, pushed)
  BY DEF PipeInv, IInv, TypeOK, Counted
<1>2. Used = Len(pushed) - Len(sent)
  BY <1>1, UsedIsWaiting
<1>3. /\ Behind(sent, pushed) \in Seq(Byte)
      /\ Len(Behind(sent, pushed)) = Len(pushed) - Len(sent)
  BY <1>1, BehindTypes
<1> QED
  BY <1>1, <1>2, <1>3

\* tx_push appends a byte to the queue, unless there is no place.
LEMMA PushAppends ==
  ASSUME PipeInv, PipeInv', NEW b \in Byte, Push(b), UNCHANGED sent
  PROVE  Contents' = IF Len(Contents) < TxBufferCapacity THEN Append(Contents, b)
                     ELSE Contents
<1>1. Contents = Behind(sent, pushed) /\ Contents' = Behind(sent', pushed')
  BY DEF PipeInv
<1>2. CASE Full
  BY <1>1, <1>2, Waiting, Constants DEF Full, Push
<1>3. CASE ~Full
  <2>1. Len(Contents) < TxBufferCapacity
    BY <1>3, Waiting, Constants DEF Full
  <2>2. pushed' = Append(pushed, b)
    BY <1>3 DEF Push
  <2>3. Behind(sent, Append(pushed, b)) = Append(Behind(sent, pushed), b)
    BY Waiting, PushedGoesBehind
  <2> QED
    BY <1>1, <2>1, <2>2, <2>3
<1> QED
  BY <1>2, <1>3

\* The loop of uart_service_tx sends what is first in the queue.
LEMMA SendTakesFirst ==
  ASSUME PipeInv, PipeInv', SendOne
  PROVE  /\ Contents # <<>> /\ Len(tx) < TxFifo
         /\ Contents' = Tail(Contents) /\ tx' = Append(tx, Head(Contents))
         /\ UNCHANGED rx
<1> DEFINE b == buffer[tx_read % TxBufferCapacity]
<1>1. /\ tx_read # tx_write /\ Len(tx) < TxFifo /\ UNCHANGED <<pushed, rx>>
      /\ sent' = Append(sent, b) /\ tx' = Append(tx, b)
  BY DEF SendOne, HoldingEmpty
<1> HIDE DEF b
<1>2. Len(sent) < Len(pushed)
  <2>1. Counted
    BY DEF PipeInv, IInv
  <2>2. tx_read = tx_write <=> Len(pushed) = Len(sent)
    BY <2>1, Waiting, UsedIsWaiting
  <2>3. Len(sent) \in Nat /\ Len(pushed) \in Nat /\ Len(sent) <= Len(pushed)
    BY Waiting
  <2> QED
    BY <1>1, <2>2, <2>3
<1>3. sent' \in Seq(Byte) /\ \A i \in 1 .. Len(sent') : sent'[i] = pushed'[i]
  BY DEF PipeInv, IInv, TypeOK, InPlace
<1>4. Len(sent') = Len(sent) + 1 /\ sent'[Len(sent) + 1] = b
  <2>1. sent \in Seq(Byte)
    BY Waiting
  <2> QED
    BY <1>1, <2>1
<1>5. b = pushed[Len(sent) + 1] /\ b \in Byte
  <2>1. Len(sent) + 1 \in 1 .. Len(sent')
    BY <1>3, <1>4, Waiting
  <2> QED
    BY <1>1, <1>3, <1>4, <2>1
<1>6. /\ Behind(sent, pushed) # <<>>
      /\ Head(Behind(sent, pushed)) = pushed[Len(sent) + 1]
      /\ Behind(Append(sent, b), pushed) = Tail(Behind(sent, pushed))
  BY <1>2, <1>5, Waiting, SentIsTaken
<1>7. Contents = Behind(sent, pushed) /\ Contents' = Behind(sent', pushed')
  BY DEF PipeInv
<1> QED
  BY <1>1, <1>5, <1>6, <1>7

\* Whoever leaves the ring alone leaves the queue alone.
LEMMA QuietContents == UNCHANGED ring => Contents' = Contents
BY DEF Contents, Used, ring

\* Queueing a byte of the banner is greeting.
LEMMA QueueGreets ==
  ASSUME PipeInv, PipeInv', Queue
  PROVE  [Pipe!Next]_Pipe!vars
<1>1. CASE index = BannerLength
  <2>1. UNCHANGED <<ring, index, rx, tx>>
    BY <1>1, Constants DEF Queue, uart
  <2> QED
    BY <2>1, QuietContents DEF Pipe!vars
<1>2. CASE index # BannerLength
  <2>1. /\ index < BannerLength /\ index' = index + 1 /\ Push(index')
        /\ UNCHANGED <<rx, tx, sent>> /\ main = "queue"
    BY <1>2 DEF Queue, uart, Main
  <2>2. /\ index \in 0 .. BannerLength /\ index' \in Byte
    BY <2>1, Constants DEF PipeInv, IInv, TypeOK, Byte
  <2>3. Len(Contents) = index
    BY <2>1, <2>2, Waiting DEF PipeInv, IInv, BannerQueued
  <2>4. Len(Contents) < TxBufferCapacity
    BY <2>1, <2>2, <2>3, Constants
  <2>5. Contents' = Append(Contents, index')
    BY <2>1, <2>2, <2>4, PushAppends
  <2>6. /\ Len([i \in 1 .. BannerLength |-> i]) = BannerLength
        /\ [i \in 1 .. BannerLength |-> i][index'] = index'
    BY <2>1, <2>2, Constants
  <2>7. Pipe!Greet
    BY <2>1, <2>4, <2>5, <2>6 DEF Pipe!Greet
  <2> QED
    BY <2>7 DEF Pipe!Next
<1> QED
  BY <1>1, <1>2

\* Reading a byte in the handler is echoing it.
LEMMA ReceiveEchoes ==
  ASSUME PipeInv, PipeInv', Receive
  PROVE  [Pipe!Next]_Pipe!vars
<1>1. trap = "receive" /\ UNCHANGED <<index, tx, sent>>
  BY DEF Receive, Trap
<1>2. CASE ~DataReady
  <2>1. UNCHANGED <<ring, rx>>
    BY <1>2 DEF Receive
  <2> QED
    BY <1>1, <2>1, QuietContents DEF Pipe!vars
<1>3. CASE DataReady
  <2>1. rx # <<>> /\ rx' = Tail(rx) /\ Push(Head(rx))
    BY <1>3 DEF Receive, DataReady
  <2>2. Head(rx) \in Byte
    BY <2>1 DEF PipeInv, IInv, TypeOK
  <2>3. Contents' = IF Len(Contents) < TxBufferCapacity THEN Append(Contents, Head(rx))
                    ELSE Contents
    BY <1>1, <2>1, <2>2, PushAppends
  <2>4. index = BannerLength
    BY <1>1 DEF PipeInv, IInv, OneAtATime
  <2>5. Len([i \in 1 .. BannerLength |-> i]) = BannerLength
    BY Constants
  <2>6. Pipe!Echo
    BY <1>1, <2>1, <2>3, <2>4, <2>5 DEF Pipe!Echo
  <2> QED
    BY <2>6 DEF Pipe!Next
<1> QED
  BY <1>2, <1>3

\* Bytes go out one by one, from the main program as from the handler.
LEMMA SendingSends ==
  ASSUME PipeInv, PipeInv', MainSends \/ TrapSends
  PROVE  [Pipe!Next]_Pipe!vars
<1>1. UNCHANGED index /\ (SendOne \/ SendDone)
  BY DEF MainSends, TrapSends, Trap
<1>2. CASE SendOne
  <2>1. Pipe!Send
    BY <1>1, <1>2, SendTakesFirst DEF Pipe!Send
  <2> QED
    BY <2>1 DEF Pipe!Next
<1>3. CASE SendDone
  BY <1>1, <1>3, QuietContents DEF SendDone, uart, Pipe!vars
<1> QED
  BY <1>1, <1>2, <1>3

\* The host's side is the same on both levels.
LEMMA HostIsHost ==
  ASSUME PipeInv, HostSends \/ HostDrains \/ HostReconnects
  PROVE  [Pipe!Next]_Pipe!vars
<1>1. UNCHANGED <<ring, index>> /\ Contents' = Contents
  BY QuietContents DEF HostSends, HostDrains, HostReconnects
<1>2. CASE HostSends
  <2>1. CASE Len(rx) < RxFifo
    <3>1. BannerLength + input' \in Byte /\ rx' = Append(rx, BannerLength + input')
      BY <1>2, <2>1, Constants DEF HostSends, PipeInv, IInv, TypeOK, Byte
    <3>2. Pipe!HostSends
      BY <1>1, <1>2, <2>1, <3>1 DEF HostSends, Pipe!HostSends
    <3> QED
      BY <3>2 DEF Pipe!Next
  <2>2. CASE ~(Len(rx) < RxFifo)
    BY <1>1, <1>2, <2>2 DEF HostSends, Pipe!vars
  <2> QED
    BY <2>1, <2>2
<1>3. CASE HostDrains
  BY <1>1, <1>3 DEF HostDrains, Pipe!HostDrains, Pipe!Next
<1>4. CASE HostReconnects
  BY <1>1, <1>4 DEF HostReconnects, Pipe!HostReconnects, Pipe!Next
<1> QED
  BY <1>2, <1>3, <1>4

\* The firmware implements a pipe: a greeting, then an echo through a queue that
\* loses bytes only when it is full, for every size and every width.
THEOREM ImplementsPipe == Spec => ImplementsEchoPipe
<1>1. Init /\ PipeInv => Pipe!Init
  <2> SUFFICES ASSUME Init, PipeInv PROVE Pipe!Init
    OBVIOUS
  <2>1. Contents \in Seq(Byte) /\ Len(Contents) = 0
    BY Waiting DEF Init
  <2>2. Contents = <<>>
    BY <2>1
  <2> QED
    BY <2>2 DEF Init, Pipe!Init
<1>2. PipeInv /\ PipeInv' /\ [Next]_vars => [Pipe!Next]_Pipe!vars
  <2> SUFFICES ASSUME PipeInv, PipeInv', [Next]_vars PROVE [Pipe!Next]_Pipe!vars
    OBVIOUS
  <2>1. CASE \/ Setup \/ MainSetsIer \/ Unmask \/ Interrupt \/ Claim
             \/ TrapSetsIer \/ Complete \/ UNCHANGED vars
    <3>1. UNCHANGED <<ring, rx, tx, index>>
      BY <2>1 DEF Setup, MainSetsIer, Unmask, Interrupt, Claim, TrapSetsIer, Complete,
                  SetIer, Trap, uart, vars
    <3> QED
      BY <3>1, QuietContents DEF Pipe!vars
  <2> QED
    BY <2>1, QueueGreets, ReceiveEchoes, SendingSends, HostIsHost DEF Next, Cpu
<1> QED
  BY <1>1, <1>2, PipeInductive, PTL DEF Spec, ImplementsEchoPipe, Pipe!Spec
=============================================================================
