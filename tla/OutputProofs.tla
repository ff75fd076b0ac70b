---------------------------- MODULE OutputProofs ----------------------------
(***************************************************************************)
(* What is kept of a guest's output, of which each component keeps the     *)
(* newest part: the raw history of the terminal, for every capacity, every *)
(* size of the drain buffer and every byte the guest may print; and the    *)
(* output the scale benchmark looks for its markers in, for every script   *)
(* and every way it is cut into quanta, with the figures it measures.      *)
(***************************************************************************)
EXTENDS Terminal, ScaleBoot, SequenceTheorems, TLAPS

-----------------------------------------------------------------------------
(* The terminal.                                                           *)

\* What remains of a sequence without its first n elements.
LEMMA DropFirstProperties ==
    ASSUME NEW S, NEW s \in Seq(S), NEW n \in 0 .. Len(s)
    PROVE  /\ DropFirst(s, n) \in Seq(S)
           /\ Len(DropFirst(s, n)) = Len(s) - n
           /\ \A i \in 1 .. Len(s) - n : DropFirst(s, n)[i] = s[i + n]
  BY DEF DropFirst

\* Sequences with the same elements are equal.
LEMMA SameElements ==
    ASSUME NEW S, NEW s \in Seq(S), NEW t \in Seq(S), Len(s) = Len(t),
           \A i \in 1 .. Len(s) : s[i] = t[i]
    PROVE  s = t
  OBVIOUS

\* To drop n elements and then m is to drop n + m.
LEMMA DropTwice ==
    ASSUME NEW S, NEW s \in Seq(S), NEW n \in 0 .. Len(s), NEW m \in 0 .. Len(s) - n
    PROVE  DropFirst(DropFirst(s, n), m) = DropFirst(s, n + m)
<1>1. /\ DropFirst(s, n) \in Seq(S) /\ Len(DropFirst(s, n)) = Len(s) - n
      /\ \A i \in 1 .. Len(s) - n : DropFirst(s, n)[i] = s[i + n]
  BY DropFirstProperties
<1>2. /\ DropFirst(DropFirst(s, n), m) \in Seq(S)
      /\ Len(DropFirst(DropFirst(s, n), m)) = Len(s) - n - m
      /\ \A i \in 1 .. Len(s) - n - m :
           DropFirst(DropFirst(s, n), m)[i] = DropFirst(s, n)[i + m]
  BY <1>1, DropFirstProperties
<1>3. n + m \in 0 .. Len(s)
  OBVIOUS
<1>4. /\ DropFirst(s, n + m) \in Seq(S) /\ Len(DropFirst(s, n + m)) = Len(s) - (n + m)
      /\ \A i \in 1 .. Len(s) - (n + m) : DropFirst(s, n + m)[i] = s[i + (n + m)]
  BY <1>3, DropFirstProperties
<1>5. ASSUME NEW i \in 1 .. Len(s) - n - m
      PROVE  DropFirst(DropFirst(s, n), m)[i] = DropFirst(s, n + m)[i]
  <2>1. i + m \in 1 .. Len(s) - n /\ i \in 1 .. Len(s) - (n + m)
    OBVIOUS
  <2>2. DropFirst(DropFirst(s, n), m)[i] = s[(i + m) + n]
    BY <1>1, <1>2, <2>1
  <2>3. DropFirst(s, n + m)[i] = s[i + (n + m)]
    BY <1>4, <2>1
  <2>4. (i + m) + n = i + (n + m)
    OBVIOUS
  <2> QED BY <2>2, <2>3, <2>4
<1> QED BY <1>2, <1>4, <1>5, SameElements

\* To drop from a concatenation is to drop from its first part, while it lasts.
LEMMA DropFromFirst ==
    ASSUME NEW S, NEW s \in Seq(S), NEW t \in Seq(S), NEW n \in 0 .. Len(s)
    PROVE  DropFirst(s \o t, n) = DropFirst(s, n) \o t
<1> DEFINE u == s \o t
           d == DropFirst(s, n)
<1>1. /\ u \in Seq(S) /\ Len(u) = Len(s) + Len(t)
      /\ \A i \in 1 .. Len(u) : u[i] = IF i <= Len(s) THEN s[i] ELSE t[i - Len(s)]
  OBVIOUS
<1>2. /\ d \in Seq(S) /\ Len(d) = Len(s) - n
      /\ \A i \in 1 .. Len(s) - n : d[i] = s[i + n]
  BY DropFirstProperties
<1> HIDE DEF u, d
<1>3. n \in 0 .. Len(u)
  BY <1>1
<1>4. /\ DropFirst(u, n) \in Seq(S) /\ Len(DropFirst(u, n)) = Len(u) - n
      /\ \A i \in 1 .. Len(u) - n : DropFirst(u, n)[i] = u[i + n]
  BY <1>1, <1>3, DropFirstProperties
<1>5. /\ d \o t \in Seq(S) /\ Len(d \o t) = Len(u) - n
      /\ \A i \in 1 .. Len(u) - n :
           (d \o t)[i] = IF i <= Len(d) THEN d[i] ELSE t[i - Len(d)]
  <2> d \in Seq(S)
    BY <1>2
  <2>1. /\ d \o t \in Seq(S) /\ Len(d \o t) = Len(d) + Len(t)
        /\ \A i \in 1 .. Len(d) + Len(t) :
             (d \o t)[i] = IF i <= Len(d) THEN d[i] ELSE t[i - Len(d)]
    BY ConcatProperties
  <2>2. Len(d) + Len(t) = Len(u) - n
    BY <1>1, <1>2
  <2> QED BY <2>1, <2>2
<1>6. ASSUME NEW i \in 1 .. Len(u) - n
      PROVE  DropFirst(u, n)[i] = (d \o t)[i]
  <2>1. i + n \in 1 .. Len(u) /\ DropFirst(u, n)[i] = u[i + n]
    BY <1>1, <1>4
  <2>2. CASE i <= Len(d)
    <3>1. i \in 1 .. Len(s) - n /\ i + n <= Len(s)
      BY <1>2, <2>2
    <3> QED BY <1>1, <1>2, <1>5, <2>1, <2>2, <3>1
  <2>3. CASE ~(i <= Len(d))
    <3>1. ~(i + n <= Len(s)) /\ (i + n) - Len(s) = i - Len(d)
      BY <1>2, <2>3
    <3> QED BY <1>1, <1>5, <2>1, <2>3, <3>1
  <2> QED BY <2>2, <2>3
<1>7. DropFirst(u, n) = d \o t
  BY <1>4, <1>5, <1>6, SameElements
<1> QED BY <1>7 DEF u, d

\* And from its second part when the first is gone.
LEMMA DropFromSecond ==
    ASSUME NEW S, NEW s \in Seq(S), NEW t \in Seq(S), NEW n \in 0 .. Len(t)
    PROVE  DropFirst(s \o t, Len(s) + n) = DropFirst(t, n)
<1> DEFINE u == s \o t
           m == Len(s) + n
<1>1. /\ u \in Seq(S) /\ Len(u) = Len(s) + Len(t)
      /\ \A i \in 1 .. Len(u) : u[i] = IF i <= Len(s) THEN s[i] ELSE t[i - Len(s)]
  OBVIOUS
<1>2. m \in 0 .. Len(u) /\ Len(u) - m = Len(t) - n /\ m = Len(s) + n
  BY <1>1
<1> HIDE DEF u, m
<1>3. /\ DropFirst(u, m) \in Seq(S) /\ Len(DropFirst(u, m)) = Len(u) - m
      /\ \A i \in 1 .. Len(u) - m : DropFirst(u, m)[i] = u[i + m]
  BY <1>1, <1>2, DropFirstProperties
<1>4. /\ DropFirst(t, n) \in Seq(S) /\ Len(DropFirst(t, n)) = Len(t) - n
      /\ \A i \in 1 .. Len(t) - n : DropFirst(t, n)[i] = t[i + n]
  BY DropFirstProperties
<1>5. ASSUME NEW i \in 1 .. Len(t) - n
      PROVE  DropFirst(u, m)[i] = DropFirst(t, n)[i]
  <2>1. i + m \in 1 .. Len(u) /\ ~(i + m <= Len(s)) /\ (i + m) - Len(s) = i + n
    BY <1>1, <1>2
  <2>2. u[i + m] = t[i + n]
    BY <1>1, <2>1
  <2> QED BY <1>2, <1>3, <1>4, <2>2
<1>6. DropFirst(u, m) = DropFirst(t, n)
  BY <1>2, <1>3, <1>4, <1>5, SameElements
<1> QED BY <1>6 DEF u, m

\* How much goes of the old bytes and of the piece: either the piece fits and
\* the old bytes make room, or the old bytes go and so does part of the piece.
LEMMA RoomForPiece ==
    ASSUME NEW c \in Nat, NEW a \in Nat, NEW b \in Nat
    PROVE  LET gone == Minus(a, c)
               cut == AtMost(Minus(a - gone + b, c), a - gone)
               skip == Minus(b, c)
               all == Minus(a + b, c)
           IN /\ gone \in 0 .. a /\ cut \in 0 .. a - gone /\ skip \in 0 .. b
              /\ \/ skip = 0 /\ gone + cut = all /\ gone + cut \in 0 .. a
                 \/ gone + cut = a /\ all = a + skip
  BY DEF Minus, AtMost

\* A piece that is pushed onto the newest bytes of a stream leaves the newest
\* bytes of the stream with the piece at its end (push_guest_bytes).
LEMMA PushedIsNewest ==
    ASSUME NEW S, NEW s \in Seq(S), NEW b \in Seq(S)
    PROVE  Pushed(Newest(s, RawCapacity), b) = Newest(s \o b, RawCapacity)
<1> DEFINE gone == Minus(Len(s), RawCapacity)
           skip == Minus(Len(b), RawCapacity)
           all == Minus(Len(s) + Len(b), RawCapacity)
           cut == AtMost(Minus(Len(s) - gone + Len(b), RawCapacity), Len(s) - gone)
<1>1. RawCapacity \in Nat /\ Len(s) \in Nat /\ Len(b) \in Nat
  BY TerminalAssumption
<1>4. /\ gone \in 0 .. Len(s) /\ cut \in 0 .. Len(s) - gone /\ skip \in 0 .. Len(b)
      /\ \/ skip = 0 /\ gone + cut = all /\ gone + cut \in 0 .. Len(s)
         \/ gone + cut = Len(s) /\ all = Len(s) + skip
  BY <1>1, RoomForPiece
<1>5. Len(s \o b) = Len(s) + Len(b) /\ Newest(s \o b, RawCapacity) = DropFirst(s \o b, all)
  BY DEF Newest
<1>6. Newest(s, RawCapacity) = DropFirst(s, gone)
  BY DEF Newest
<1>7. DropFirst(s, gone) \in Seq(S) /\ Len(DropFirst(s, gone)) = Len(s) - gone
  BY <1>4, DropFirstProperties
<1>8. Pushed(DropFirst(s, gone), b) = DropFirst(DropFirst(s, gone), cut) \o DropFirst(b, skip)
  BY <1>7 DEF Pushed
<1> HIDE DEF gone, cut, skip, all
<1>9. DropFirst(DropFirst(s, gone), cut) = DropFirst(s, gone + cut)
  BY <1>4, DropTwice
<1>10. CASE skip = 0 /\ gone + cut = all /\ gone + cut \in 0 .. Len(s)
  <2>1. DropFirst(b, skip) = b
    BY <1>10 DEF DropFirst
  <2>2. DropFirst(s \o b, all) = DropFirst(s, all) \o b
    BY <1>10, DropFromFirst
  <2> QED BY <1>5, <1>6, <1>8, <1>9, <1>10, <2>1, <2>2
<1>11. CASE gone + cut = Len(s) /\ all = Len(s) + skip
  <2>1. DropFirst(s \o b, all) = DropFirst(b, skip)
    BY <1>4, <1>11, DropFromSecond
  <2>2. DropFirst(s, Len(s)) = << >>
    BY DEF DropFirst
  <2>3. DropFirst(b, skip) \in Seq(S)
    BY <1>4, DropFirstProperties
  <2> QED BY <1>5, <1>6, <1>8, <1>9, <1>11, <2>1, <2>2, <2>3
<1> QED BY <1>4, <1>10, <1>11

\* The history never holds more than its capacity.
LEMMA NewestFits ==
    ASSUME NEW S, NEW s \in Seq(S)
    PROVE  Newest(s, RawCapacity) \in Seq(S)
             /\ Len(Newest(s, RawCapacity)) <= RawCapacity
<1>1. Minus(Len(s), RawCapacity) \in 0 .. Len(s)
  BY TerminalAssumption DEF Minus
<1>2. Len(s) - Minus(Len(s), RawCapacity) <= RawCapacity
  BY TerminalAssumption DEF Minus
<1> QED BY <1>1, <1>2, DropFirstProperties DEF Newest

IInv == TypeOK /\ HistoryIsNewest

\* The typing of the terminal and the contents of its raw history.
THEOREM Inductive == Spec => []IInv
<1>1. Init => IInv
  BY TerminalAssumption
     DEF Init, IInv, TypeOK, HistoryIsNewest, Newest, Minus, DropFirst
<1>2. ASSUME IInv, [Next]_vars PROVE IInv'
  <2> USE <1>2 DEF IInv
  <2>1. CASE GuestPrints
    BY <2>1 DEF GuestPrints, TypeOK, HistoryIsNewest
  <2>2. CASE Drain
    <3> DEFINE count == AtMost(DrainBytes, Len(tx))
               bytes == SubSeq(tx, 1, count)
    <3>1. count \in 0 .. Len(tx) /\ bytes \in Seq(Byte)
      BY TerminalAssumption DEF AtMost, TypeOK
    <3>2. tx' \in Seq(Byte)
      BY <2>2, <3>1, DropFirstProperties DEF Drain, TypeOK
    <3>3. parser' = parser \o bytes /\ parser' \in Seq(Byte)
      BY <2>2, <3>1 DEF Drain, TypeOK
    <3>4. raw_bytes' = Newest(parser', RawCapacity)
      BY <2>2, <3>1, <3>3, PushedIsNewest DEF Drain, TypeOK, HistoryIsNewest
    <3>5. raw_bytes' \in Seq(Byte) /\ Len(raw_bytes') <= RawCapacity
      BY <3>3, <3>4, NewestFits
    <3> QED BY <2>2, <3>2, <3>3, <3>4, <3>5
            DEF Drain, TypeOK, HistoryIsNewest
  <2>3. CASE SetMode
    BY <2>3 DEF SetMode, TypeOK, HistoryIsNewest
  <2>4. CASE Clear
    BY <2>4, TerminalAssumption
       DEF Clear, TypeOK, HistoryIsNewest, Newest, Minus, DropFirst
  <2>5. CASE UNCHANGED vars
    BY <2>5 DEF vars, TypeOK, HistoryIsNewest
  <2> QED BY <2>1, <2>2, <2>3, <2>4, <2>5 DEF Next
<1> QED BY <1>1, <1>2, PTL DEF Spec

\* TypeOK: the raw history keeps to its bound.
THEOREM TypeCorrect == Spec => []TypeOK
  BY Inductive, PTL DEF IInv

\* HistoryIsNewest: the raw view is the end of what the screen shows.
THEOREM HistoryAlwaysNewest == Spec => []HistoryIsNewest
  BY Inductive, PTL DEF IInv

-----------------------------------------------------------------------------
(* The scale benchmark: markers.                                           *)

\* What the assumption says of the constants, one by one.
LEMMA BenchConstants ==
    /\ Population \in Nat \ {0} /\ MeasuredTicks \in Nat \ {0}
    /\ BootTickLimit \in Nat /\ WarmupTicks \in Nat /\ Budget \in Nat
    /\ Keep \in Nat /\ MaxPrint \in Nat
    /\ Prompt \in Seq(STRING) /\ Len(Prompt) = 2
    /\ Ready \in Seq(STRING) /\ Len(Ready) = 2
    /\ Script \in Seq(STRING) /\ Len(Script) \in Nat
    /\ Len(Booting) \in Nat /\ Len(Booting) <= Len(Script)
<1>1. Booting \in Seq(STRING) /\ Benching \in Seq(STRING)
  BY ScaleBootAssumption
<1>2. Script \in Seq(STRING) /\ Len(Script) = Len(Booting) + Len(Benching)
  BY <1>1 DEF Script
<1> QED
  BY <1>1, <1>2, ScaleBootAssumption

\* A marker is in a sequence where its two tokens are, one behind the other.
Pair(s, marker, i) == s[i] = marker[1] /\ s[i + 1] = marker[2]

LEMMA ContainsPair ==
    ASSUME NEW s \in Seq(STRING), NEW marker \in Seq(STRING), Len(marker) = 2
    PROVE  contains(s, marker) <=> \E i \in 1 .. Len(s) - 1 : Pair(s, marker, i)
<1>1. Len(s) + 1 - Len(marker) = Len(s) - 1 /\ Len(s) \in Nat
  OBVIOUS
<1>2. ASSUME NEW i \in 1 .. Len(s) - 1
      PROVE  SubSeq(s, i, i + Len(marker) - 1) = marker <=> Pair(s, marker, i)
  <2> DEFINE part == SubSeq(s, i, i + 1)
  <2>1. i + Len(marker) - 1 = i + 1
    OBVIOUS
  <2>2. /\ part \in Seq(STRING) /\ Len(part) = 2
        /\ part[1] = s[i] /\ part[2] = s[i + 1]
    OBVIOUS
  <2> HIDE DEF part
  <2>3. (part[1] = marker[1] /\ part[2] = marker[2]) => part = marker
    <3> SUFFICES ASSUME part[1] = marker[1], part[2] = marker[2]
                 PROVE  part = marker
      OBVIOUS
    <3>1. \A j \in 1 .. 2 : j = 1 \/ j = 2
      OBVIOUS
    <3>2. \A j \in 1 .. 2 : part[j] = marker[j]
      BY <3>1
    <3> QED
      BY <2>2, <3>2, SameElements
  <2>4. part = marker <=> Pair(s, marker, i)
    BY <2>2, <2>3 DEF Pair
  <2> QED
    BY <2>1, <2>4 DEF part
<1> QED
  BY <1>1, <1>2 DEF contains

\* What is kept of the first p tokens of the script: the newest of them.
KeptOf(out, p) ==
    /\ out \in Seq(STRING) /\ Len(out) = AtMost(p, Keep)
    /\ \A i \in 1 .. Len(out) : out[i] = Script[p - Len(out) + i]

\* A marker is in the first p tokens where the script has it.
LEMMA PrefixContains ==
    ASSUME NEW p \in 0 .. Len(Script), NEW marker \in Seq(STRING), Len(marker) = 2
    PROVE  contains(SubSeq(Script, 1, p), marker)
             <=> \E i \in 1 .. p - 1 : Pair(Script, marker, i)
<1> DEFINE s == SubSeq(Script, 1, p)
<1>1. s \in Seq(STRING) /\ Len(s) = p /\ \A i \in 1 .. p : s[i] = Script[i]
  BY BenchConstants
<1> HIDE DEF s
<1>2. contains(s, marker) <=> \E i \in 1 .. p - 1 : Pair(s, marker, i)
  BY <1>1, ContainsPair
<1>3. ASSUME NEW i \in 1 .. p - 1
      PROVE  Pair(s, marker, i) <=> Pair(Script, marker, i)
  <2>1. i \in 1 .. p /\ i + 1 \in 1 .. p
    OBVIOUS
  <2> QED
    BY <1>1, <2>1 DEF Pair
<1> QED
  BY <1>2, <1>3 DEF s

\* drain_boot_uart keeps the newest tokens, whatever it kept before.
LEMMA DrainedKeeps ==
    ASSUME NEW p \in Nat, NEW n \in Nat, p + n <= Len(Script), NEW out, KeptOf(out, p)
    PROVE  KeptOf(Drained(out, SubSeq(Script, p + 1, p + n)), p + n)
<1> DEFINE bytes == SubSeq(Script, p + 1, p + n)
           all == out \o bytes
           d == Len(all) - Keep
<1>1. /\ bytes \in Seq(STRING) /\ Len(bytes) = n
      /\ \A i \in 1 .. n : bytes[i] = Script[p + i]
  BY BenchConstants
<1>2. /\ out \in Seq(STRING) /\ Len(out) \in Nat
      /\ Len(out) = AtMost(p, Keep) /\ Len(out) <= p
      /\ \A i \in 1 .. Len(out) : out[i] = Script[p - Len(out) + i]
  BY BenchConstants DEF KeptOf, AtMost
<1> HIDE DEF bytes
<1>3. /\ all \in Seq(STRING) /\ Len(all) = Len(out) + n
      /\ \A i \in 1 .. Len(all) :
           all[i] = IF i <= Len(out) THEN out[i] ELSE bytes[i - Len(out)]
  <2>1. out \in Seq(STRING) /\ bytes \in Seq(STRING)
    BY <1>1, <1>2
  <2>2. /\ all \in Seq(STRING) /\ Len(all) = Len(out) + Len(bytes)
        /\ \A i \in 1 .. Len(out) + Len(bytes) :
             all[i] = IF i <= Len(out) THEN out[i] ELSE bytes[i - Len(out)]
    BY <2>1, ConcatProperties
  <2> QED
    BY <1>1, <2>2
<1> HIDE DEF all
<1>4. ASSUME NEW i \in 1 .. Len(all)
      PROVE  all[i] = Script[(p + n) - Len(all) + i]
  <2>1. CASE i <= Len(out)
    <3>1. i \in 1 .. Len(out) /\ (p + n) - Len(all) + i = p - Len(out) + i
      BY <1>2, <1>3, <2>1
    <3> QED
      BY <1>2, <1>3, <2>1, <3>1
  <2>2. CASE ~(i <= Len(out))
    <3>1. i - Len(out) \in 1 .. n /\ p + (i - Len(out)) = (p + n) - Len(all) + i
      BY <1>2, <1>3, <2>2
    <3>2. all[i] = bytes[i - Len(out)]
      BY <1>3, <2>2
    <3> QED
      BY <1>1, <3>1, <3>2
  <2> QED
    BY <2>1, <2>2
<1>5. CASE Len(all) > Keep
  <2> DEFINE kept == SubSeq(all, d + 1, Len(all))
  <2>1. d \in Nat /\ d <= Len(all) /\ Len(all) - d = Keep
    BY <1>3, <1>2, <1>5, BenchConstants
  <2>2. /\ kept \in Seq(STRING) /\ Len(kept) = Keep
        /\ \A i \in 1 .. Keep : kept[i] = all[i + d]
    BY <1>3, <2>1, BenchConstants
  <2>3. d + 1 = Len(all) - Keep + 1
    OBVIOUS
  <2> HIDE DEF kept, d
  <2>4. AtMost(p + n, Keep) = Keep
    BY <1>2, <1>3, <1>5, BenchConstants DEF AtMost
  <2>5. ASSUME NEW i \in 1 .. Keep PROVE kept[i] = Script[(p + n) - Keep + i]
    <3>1. Len(all) \in Nat /\ Keep \in Nat /\ Len(all) - d = Keep /\ d \in Nat
      BY <1>2, <1>3, <2>1, BenchConstants
    <3>2. i + d \in 1 .. Len(all)
      BY <3>1
    <3>3. (p + n) - Len(all) + (i + d) = (p + n) - Keep + i
      BY <3>1
    <3> QED
      BY <1>4, <2>2, <3>2, <3>3
  <2>6. KeptOf(kept, p + n)
    BY <2>2, <2>4, <2>5 DEF KeptOf
  <2>7. Drained(out, bytes) = kept
    BY <1>5, <2>3 DEF Drained, all, kept
  <2> QED
    BY <2>6, <2>7 DEF bytes
<1>6. CASE ~(Len(all) > Keep)
  <2>1. AtMost(p + n, Keep) = Len(all)
    BY <1>2, <1>3, <1>6, BenchConstants DEF AtMost
  <2>2. KeptOf(all, p + n)
    BY <1>3, <1>4, <2>1 DEF KeptOf
  <2>3. Drained(out, bytes) = all
    BY <1>6 DEF Drained, all
  <2> QED
    BY <2>2, <2>3 DEF bytes
<1> QED
  BY <1>5, <1>6

\* So a marker that was completed by the newest n tokens is in what is kept, if
\* they leave room for the token before them.
LEMMA MarkerIsKept ==
    ASSUME NEW p \in Nat, NEW n \in Nat, p + n <= Len(Script), n <= Keep - 1,
           NEW all, KeptOf(all, p + n),
           NEW marker \in Seq(STRING), Len(marker) = 2,
           contains(SubSeq(Script, 1, p + n), marker),
           ~contains(SubSeq(Script, 1, p), marker)
    PROVE  contains(all, marker)
<1>1. PICK k \in 1 .. (p + n) - 1 : Pair(Script, marker, k)
  <2>1. p + n \in 0 .. Len(Script)
    BY BenchConstants
  <2> QED
    BY <2>1, PrefixContains
<1>2. ~(k \in 1 .. p - 1)
  <2>1. p \in 0 .. Len(Script)
    BY BenchConstants
  <2> QED
    BY <1>1, <2>1, PrefixContains
<1> DEFINE d == (p + n) - Len(all)
<1>3. /\ all \in Seq(STRING) /\ Len(all) \in Nat /\ Len(all) = AtMost(p + n, Keep)
      /\ \A i \in 1 .. Len(all) : all[i] = Script[d + i]
  BY DEF KeptOf
<1>4. d \in Nat /\ d < k /\ Len(all) = (p + n) - d
  BY <1>1, <1>2, <1>3, BenchConstants DEF AtMost
<1> HIDE DEF d
<1>5. /\ k - d \in 1 .. Len(all) - 1
      /\ k - d \in 1 .. Len(all) /\ (k - d) + 1 \in 1 .. Len(all)
      /\ d + (k - d) = k /\ d + ((k - d) + 1) = k + 1
  BY <1>1, <1>4
<1>6. Pair(all, marker, k - d)
  BY <1>1, <1>3, <1>5 DEF Pair
<1> QED
  BY <1>3, <1>5, <1>6, ContainsPair

\* What the benchmark keeps of a guest that is not ready is the newest it has
\* printed, and it has acted on every marker in what the guest has printed.
BootInv ==
    /\ BenchOK
    /\ \A g \in Guests : ~ready[g] => KeptOf(output[g], printed[g])
    /\ MarkerFound

\* A turn of the boot, with what its guest prints.
LEMMA BootTurnKeeps ==
    ASSUME BootInv, BootTurn
    PROVE  BootInv'
<1> USE DEF BootInv, BenchOK
<1>1. turn \in Guests /\ turn' = turn + 1 /\ UNCHANGED <<phase, ticks, retired>>
  BY DEF BootTurn
<1>2. turn' \in 0 .. Population + 1
  BY <1>1, BenchConstants DEF Guests
<1>3. CASE ready[turn]
  BY <1>1, <1>2, <1>3 DEF BootTurn, guestVars, MarkerFound, BenchOK
<1>4. CASE ~ready[turn]
  <2> DEFINE p == printed[turn]
             Bytes(n) == SubSeq(Script, p + 1, p + n)
  <2>1. PICK n \in Prints(turn) :
          LET all == Drained(output[turn], Bytes(n))
          IN /\ printed' = [printed EXCEPT ![turn] = @ + n]
             /\ flooded' = [flooded EXCEPT ![turn] = @ \/ n > Keep - 1]
             /\ command_sent' =
                  [command_sent EXCEPT ![turn] = @ \/ contains(all, Prompt)]
             /\ ready' = [ready EXCEPT ![turn] = contains(all, Ready)]
             /\ output' =
                  [output EXCEPT ![turn] = IF contains(all, Ready) THEN <<>> ELSE all]
    BY <1>4 DEF BootTurn
  <2> DEFINE all == Drained(output[turn], Bytes(n))
             prompted == contains(all, Prompt)
             found == contains(all, Ready)
  <2>2. p \in Nat /\ n \in Nat /\ p + n <= Len(Script)
    <3>1. p \in 0 .. Len(Script)
      BY <1>1
    <3> QED
      BY <3>1, BenchConstants DEF Prints
  <2>3. KeptOf(output[turn], p)
    BY <1>1, <1>4
  <2>4. KeptOf(all, p + n)
    BY <2>2, <2>3, DrainedKeeps
  <2>5. all \in Seq(STRING) /\ Len(all) <= Keep
    BY <2>2, <2>4, BenchConstants DEF KeptOf, AtMost
  <2>6. found \in BOOLEAN /\ prompted \in BOOLEAN
    BY DEF contains
  <2>7. /\ printed' = [printed EXCEPT ![turn] = p + n]
        /\ flooded' = [flooded EXCEPT ![turn] = flooded[turn] \/ n > Keep - 1]
        /\ command_sent' = [command_sent EXCEPT ![turn] = command_sent[turn] \/ prompted]
        /\ ready' = [ready EXCEPT ![turn] = found]
        /\ output' = [output EXCEPT ![turn] = IF found THEN <<>> ELSE all]
    BY <2>1
  <2> HIDE DEF all, prompted, found, p
  <2>8. ASSUME NEW marker \in {Prompt, Ready}, n <= Keep - 1,
               contains(SubSeq(Script, 1, p + n), marker),
               ~contains(SubSeq(Script, 1, p), marker)
        PROVE  contains(all, marker)
    <3>1. marker \in Seq(STRING) /\ Len(marker) = 2
      BY BenchConstants
    <3> QED
      BY <2>2, <2>4, <2>8, <3>1, MarkerIsKept
  <2>9. /\ output' \in [Guests -> Seq(STRING)]
        /\ \A g \in Guests : Len(output'[g]) <= Keep
    <3> DEFINE out == IF found THEN <<>> ELSE all
    <3>1. out \in Seq(STRING) /\ Len(out) <= Keep
      <4>1. CASE found
        BY <4>1, BenchConstants
      <4>2. CASE ~found
        BY <2>5, <4>2
      <4> QED
        BY <4>1, <4>2
    <3>2. output' = [output EXCEPT ![turn] = out]
      BY <2>7
    <3> HIDE DEF out
    <3> QED
      BY <1>1, <3>1, <3>2
  <2>10. printed' \in [Guests -> 0 .. Len(Script)]
    BY <1>1, <2>2, <2>7, BenchConstants
  <2>11. /\ command_sent' \in [Guests -> BOOLEAN] /\ ready' \in [Guests -> BOOLEAN]
         /\ flooded' \in [Guests -> BOOLEAN]
    BY <1>1, <2>6, <2>7
  <2>12. BenchOK'
    BY <1>1, <1>2, <2>9, <2>10, <2>11
  <2>13. \A g \in Guests : ~ready'[g] => KeptOf(output'[g], printed'[g])
    BY <1>1, <2>4, <2>7
  <2>14. MarkerFound'
    <3> SUFFICES ASSUME NEW g \in Guests, ~flooded'[g]
                 PROVE  LET seen == SubSeq(Script, 1, printed'[g])
                        IN /\ contains(seen, Prompt) => command_sent'[g]
                           /\ contains(seen, Ready) => ready'[g]
      BY DEF MarkerFound
    <3>1. CASE g # turn
      BY <2>7, <3>1 DEF MarkerFound
    <3>2. CASE g = turn
      <4>1. ~flooded[turn] /\ ~(n > Keep - 1)
        BY <1>1, <2>7, <3>2
      <4>2. n <= Keep - 1
        BY <2>2, <4>1, BenchConstants
      <4>3. /\ contains(SubSeq(Script, 1, p), Prompt) => command_sent[turn]
            /\ ~contains(SubSeq(Script, 1, p), Ready)
        BY <1>1, <1>4, <4>1 DEF MarkerFound, p
      <4>4. /\ contains(SubSeq(Script, 1, p + n), Prompt)
                 => command_sent[turn] \/ prompted
            /\ contains(SubSeq(Script, 1, p + n), Ready) => found
        BY <2>8, <4>2, <4>3 DEF prompted, found
      <4>5. /\ printed'[g] = p + n /\ ready'[g] = found
            /\ command_sent'[g] = (command_sent[turn] \/ prompted)
        BY <1>1, <2>7, <3>2
      <4> QED
        BY <4>4, <4>5
    <3> QED
      BY <3>1, <3>2
  <2> QED
    BY <2>12, <2>13, <2>14
<1> QED
  BY <1>3, <1>4

-----------------------------------------------------------------------------
(* The scale benchmark: phases and figures.                                *)

\* The phase that the head of a loop leaves for, case by case.
LEMMA AfterWhen ==
    /\ phase = "boot" /\ AllReady => After = "warmup"
    /\ phase = "boot" /\ ~AllReady => After \in {"boot", "failed"}
    /\ phase = "warmup" /\ ticks = WarmupTicks => After = "measure"
    /\ phase = "warmup" /\ ticks # WarmupTicks => After = "warmup"
    /\ phase = "measure" /\ ticks = MeasuredTicks => After = "done"
    /\ phase = "measure" /\ ticks # MeasuredTicks => After = "measure"
  BY DEF After

\* What a loop leaves for is a phase, and only a boot of guests that are all
\* ready is left for the measurement.
LEMMA LoopHeadEffect ==
    ASSUME LoopHead
    PROVE  /\ phase' \in {"boot", "warmup", "measure", "done", "failed"}
           /\ phase' = After /\ turn = 0 /\ turn' \in {0, 1}
           /\ phase' = phase => turn' = 1 /\ ticks' = ticks
           /\ phase' # phase => turn' = 0 /\ ticks' = 0
           /\ phase \in {"boot", "warmup", "measure"}
           /\ UNCHANGED <<guestVars, retired>>
  BY AfterWhen DEF LoopHead

\* The other steps leave the guests alone.
LEMMA OtherStepsKeep ==
    ASSUME BootInv,
           LoopHead \/ Turn \/ Fail \/ EndTick \/ Exit \/ UNCHANGED benchVars
    PROVE  BootInv'
<1>1. UNCHANGED guestVars
  BY LoopHeadEffect DEF Turn, Fail, EndTick, Exit, benchVars
<1>2. (\A g \in Guests : ~ready[g] => KeptOf(output[g], printed[g]))' /\ MarkerFound'
  BY <1>1 DEF BootInv, guestVars, MarkerFound
<1>3. /\ phase' \in {"boot", "warmup", "measure", "done", "failed"}
      /\ ticks' \in Nat /\ turn' \in 0 .. Population + 1 /\ retired' \in Nat
  <2> USE BenchConstants DEF BootInv, BenchOK
  <2>1. CASE LoopHead
    BY <2>1, LoopHeadEffect
  <2>2. CASE Turn
    <3>1. PICK n \in Runs(turn) :
            retired' = IF phase = "measure" THEN retired + n ELSE retired
      BY <2>2 DEF Turn
    <3>2. n \in Nat
      BY <3>1 DEF Runs
    <3> QED
      BY <2>2, <3>1, <3>2 DEF Turn, Guests
  <2>3. CASE Fail \/ EndTick \/ Exit \/ UNCHANGED benchVars
    BY <2>3 DEF Fail, EndTick, Exit, benchVars
  <2> QED
    BY <2>1, <2>2, <2>3
<1>4. BenchOK'
  BY <1>1, <1>3 DEF BootInv, BenchOK, guestVars
<1> QED
  BY <1>2, <1>4 DEF BootInv

\* The figures, as far as they are measured: whole budgets, of whole ticks and
\* of the guests that had their turn in this one.
Measured ==
    /\ phase \in {"warmup", "measure", "done"} => AllReady
    /\ phase \in {"boot", "warmup"} => retired = 0
    /\ phase = "measure" =>
         IF turn = 0
         THEN ticks <= MeasuredTicks /\ retired = ticks * (Population * Budget)
         ELSE /\ ticks < MeasuredTicks
              /\ retired = ticks * (Population * Budget) + (turn - 1) * Budget
    /\ Saturated

\* Budgets add up: to the next guest's, and to the next tick's.
LEMMA BudgetsAddUp ==
    ASSUME NEW m \in Nat, NEW b \in Nat, NEW k \in Nat, NEW t \in Nat
    PROVE  /\ (t * k + m * b) + b = t * k + (m + 1) * b
           /\ t * (m * b) + m * b = (t + 1) * (m * b)
           /\ 0 * k = 0 /\ t * k + 0 * b = t * k
           /\ t * (m * b) = m * t * b
<1>1. (m + 1) * b = m * b + b
  OBVIOUS
<1>2. (t + 1) * (m * b) = t * (m * b) + m * b
  OBVIOUS
<1>3. t * (m * b) = m * t * b
  OBVIOUS
<1> QED
  BY <1>1, <1>2, <1>3

\* A step of the measurement, or of what comes before it.
LEMMA MeasuredIsKept ==
    ASSUME BenchOK, Measured, [BenchNext]_benchVars
    PROVE  Measured'
<1>1. CASE LoopHead
  <2>1. /\ AllReady' <=> AllReady
        /\ UNCHANGED retired
    BY <1>1, LoopHeadEffect DEF AllReady, guestVars
  <2>2. CASE phase = "boot"
    BY <1>1, <2>1, <2>2, LoopHeadEffect, AfterWhen DEF Measured, Saturated
  <2>3. CASE phase = "warmup"
    BY <1>1, <2>1, <2>3, LoopHeadEffect, AfterWhen, BenchConstants, BudgetsAddUp
       DEF Measured, Saturated
  <2>4. CASE phase = "measure"
    BY <1>1, <2>1, <2>4, LoopHeadEffect, AfterWhen, BenchConstants, BudgetsAddUp
       DEF Measured, Saturated, BenchOK
  <2> QED
    BY <1>1, <2>2, <2>3, <2>4, LoopHeadEffect
<1>2. CASE BootTurn
  BY <1>2 DEF BootTurn, Measured, Saturated
<1>3. CASE Turn
  <2>1. /\ turn \in Guests /\ turn' = turn + 1
        /\ UNCHANGED <<phase, ticks, ready>> /\ AllReady /\ (AllReady' <=> AllReady)
    BY <1>3 DEF Turn, guestVars, AllReady, Measured
  <2>2. retired' = IF phase = "measure" THEN retired + Budget ELSE retired
    BY <1>3, <2>1 DEF Turn, Runs, AllReady
  <2>3. turn \in Nat /\ turn # 0 /\ turn - 1 \in Nat /\ turn' - 1 = (turn - 1) + 1
        /\ turn' # 0
    BY <2>1, BenchConstants DEF Guests
  <2>4. CASE phase = "measure"
    <3>1. retired' = ticks * (Population * Budget) + (turn' - 1) * Budget
      BY <2>2, <2>3, <2>4, BenchConstants, BudgetsAddUp DEF Measured, BenchOK
    <3> QED
      BY <2>1, <2>3, <2>4, <3>1 DEF Measured, Saturated
  <2>5. CASE phase # "measure"
    BY <1>3, <2>1, <2>2, <2>5 DEF Measured, Saturated, Turn
  <2> QED
    BY <2>4, <2>5
<1>4. CASE Fail
  BY <1>4 DEF Fail, Measured, Saturated
<1>5. CASE EndTick
  <2>1. /\ turn = Population + 1 /\ turn' = 0 /\ ticks' = ticks + 1
        /\ UNCHANGED <<phase, retired>> /\ (AllReady' <=> AllReady)
    BY <1>5 DEF EndTick, guestVars, AllReady
  <2>2. CASE phase = "measure"
    <3>1. retired = ticks * (Population * Budget) + Population * Budget
          /\ ticks < MeasuredTicks
      BY <2>1, <2>2, BenchConstants DEF Measured
    <3>2. retired' = ticks' * (Population * Budget) /\ ticks' <= MeasuredTicks
      BY <2>1, <3>1, BenchConstants, BudgetsAddUp DEF BenchOK
    <3> QED
      BY <2>1, <2>2, <3>2 DEF Measured, Saturated
  <2>3. CASE phase # "measure"
    BY <2>1, <2>3 DEF Measured, Saturated
  <2> QED
    BY <2>2, <2>3
<1>6. CASE Exit \/ UNCHANGED benchVars
  BY <1>6 DEF Exit, benchVars, guestVars, AllReady, Measured, Saturated
<1> QED
  BY <1>1, <1>2, <1>3, <1>4, <1>5, <1>6 DEF BenchNext

\* The invariant of the benchmark.
THEOREM BenchInductive == BenchSpec => [](BootInv /\ Measured)
<1>1. BenchInit => BootInv /\ Measured
  <2> SUFFICES ASSUME BenchInit PROVE BootInv /\ Measured
    OBVIOUS
  <2>1. BenchOK
    BY BenchConstants DEF BenchInit, BenchOK
  <2>2. \A g \in Guests : printed[g] = 0 /\ output[g] = <<>>
    BY DEF BenchInit
  <2>3. KeptOf(<<>>, 0)
    BY BenchConstants DEF KeptOf, AtMost
  <2>4. MarkerFound
    <3>1. 0 \in 0 .. Len(Script) /\ 1 .. 0 - 1 = {}
      BY BenchConstants
    <3>2. ~contains(SubSeq(Script, 1, 0), Prompt) /\ ~contains(SubSeq(Script, 1, 0), Ready)
      BY <3>1, BenchConstants, PrefixContains
    <3> QED
      BY <2>2, <3>2 DEF MarkerFound
  <2>5. Measured
    BY DEF BenchInit, Measured, Saturated
  <2> QED
    BY <2>1, <2>2, <2>3, <2>4, <2>5 DEF BootInv
<1>2. BootInv /\ Measured /\ [BenchNext]_benchVars => BootInv' /\ Measured'
  BY BootTurnKeeps, OtherStepsKeep, MeasuredIsKept DEF BenchNext, BootInv
<1> QED
  BY <1>1, <1>2, PTL DEF BenchSpec

\* Type correctness: no more than Keep tokens of a guest are kept.
THEOREM BenchTypeCorrect == BenchSpec => []BenchOK
<1>1. BootInv => BenchOK
  BY DEF BootInv
<1> QED
  BY <1>1, BenchInductive, PTL

\* No marker is overlooked, whatever pieces it comes in, unless a quantum prints
\* more than is kept.
THEOREM MarkerAlwaysFound == BenchSpec => []MarkerFound
<1>1. BootInv => MarkerFound
  BY DEF BootInv
<1> QED
  BY <1>1, BenchInductive, PTL

\* The figures are those of ready guests that used up every measured budget.
THEOREM AlwaysSaturated == BenchSpec => []Saturated
<1>1. Measured => Saturated
  BY DEF Measured
<1> QED
  BY <1>1, BenchInductive, PTL
=============================================================================
