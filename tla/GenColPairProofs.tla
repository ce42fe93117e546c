-------------------------- MODULE GenColPairProofs --------------------------
(***************************************************************************)
(* What the collector's error bit is worth, for every length of a packet,  *)
(* every number of packets and every fault of the channel: no error means  *)
(* that every packet was in its place, up to a round of the packet number  *)
(* (ErrorSound), and for ids of one byte an error means that one was not   *)
(* (NoFalseAlarm).                                                         *)
(***************************************************************************)
EXTENDS GenColPair, PsnArithProofs, SequenceTheorems

Word == 0 .. IdRange - 1

ByteValues == 0 .. ByteRange - 1

\* The algebra of the exclusive or, on words.
LEMMA XorWords ==
    /\ \A a, b \in Word : ExclOr(a, b) \in Word /\ ExclOr(a, b) = ExclOr(b, a)
    /\ \A a, b, c \in Word : ExclOr(ExclOr(a, b), c) = ExclOr(a, ExclOr(b, c))
    /\ \A a \in Word : ExclOr(a, a) = 0 /\ ExclOr(a, 0) = a /\ ExclOr(0, a) = a
    /\ 0 \in Word
<1>1. 0 \in Word
  BY KernelAssumption DEF Word
<1> QED
  BY <1>1, XorAssumption DEF Word

LEMMA ByteTypes ==
    /\ ByteRange \in Nat \ {0} /\ Bytes \in Nat \ {0} /\ ByteRange <= IdRange
    /\ \A x \in Nat : Byte(x) \in ByteValues
    /\ ByteValues \subseteq Word /\ ByteValues \subseteq Nat
    /\ \A x \in ByteValues : Byte(x) = x
<1>1. /\ ByteRange \in Nat \ {0} /\ Bytes \in Nat \ {0} /\ ByteRange <= IdRange
      /\ IdRange \in Nat
  BY KernelAssumption, PairAssumption
<1>2. \A x \in Nat : x % ByteRange \in 0 .. ByteRange - 1
  BY <1>1, ModSplit
<1>3. \A x \in ByteValues : x % ByteRange = x
  BY <1>1 DEF ByteValues
<1> QED
  BY <1>1, <1>2, <1>3 DEF Byte, ByteValues, Word

\* Of bytes it gives bytes.
LEMMA XorBytes == \A a, b \in ByteValues : ExclOr(a, b) \in ByteValues
<1> SUFFICES ASSUME NEW a \in ByteValues, NEW b \in ByteValues
             PROVE  ExclOr(a, b) \in ByteValues
  OBVIOUS
<1>1. a \in 0 .. IdRange - 1 /\ b \in 0 .. IdRange - 1
  BY ByteTypes DEF Word
<1>2. ExclOr(a, b) % ByteRange = ExclOr(a % ByteRange, b % ByteRange)
  BY <1>1, XorAssumption
<1>3. a % ByteRange = a /\ b % ByteRange = b
  BY ByteTypes DEF Byte
<1>4. ExclOr(a, b) \in Nat
  BY <1>1, XorWords, KernelAssumption DEF Word
<1>5. ExclOr(a, b) % ByteRange \in ByteValues
  BY <1>4, ByteTypes DEF Byte
<1> QED
  BY <1>2, <1>3, <1>5

\* Five words of which four give the fifth back fall in two equal pairs.
LEMMA XorCancel ==
    ASSUME NEW id \in Word, NEW f \in Word, NEW x \in Word, NEW y \in Word, NEW g \in Word,
           ExclOr(ExclOr(ExclOr(ExclOr(id, f), x), y), g) = id
    PROVE  ExclOr(f, x) = ExclOr(g, y)
<1> DEFINE u == ExclOr(f, x)
           v == ExclOr(y, g)
           z == ExclOr(u, v)
<1>1. u \in Word /\ v \in Word /\ z \in Word
  BY XorWords
<1>2. ExclOr(ExclOr(id, f), x) = ExclOr(id, u)
  BY XorWords
<1>3. ExclOr(ExclOr(ExclOr(id, u), y), g) = ExclOr(ExclOr(id, u), v)
  BY <1>1, XorWords
<1>4. ExclOr(ExclOr(id, u), v) = ExclOr(id, z)
  BY <1>1, XorWords
<1>5. ExclOr(id, z) = id
  BY <1>2, <1>3, <1>4
<1>6. v = ExclOr(g, y)
  BY XorWords
<1> HIDE DEF u, v, z
<1>7. z = 0
  <2>1. ExclOr(ExclOr(id, id), z) = ExclOr(id, id)
    BY <1>1, <1>5, XorWords
  <2> QED
    BY <2>1, <1>1, XorWords
<1>8. u = v
  <2>1. ExclOr(u, v) = 0
    BY <1>7 DEF z
  <2>2. ExclOr(ExclOr(u, v), v) = ExclOr(u, ExclOr(v, v))
    BY <1>1, XorWords
  <2> QED
    BY <2>1, <2>2, <1>1, XorWords
<1> QED
  BY <1>6, <1>8 DEF u

\* Each pair taken away again.
LEMMA XorTwice ==
    ASSUME NEW id \in Word, NEW f \in Word, NEW x \in Word
    PROVE  ExclOr(ExclOr(ExclOr(ExclOr(id, f), x), x), f) = id
<1> DEFINE w == ExclOr(id, f)
<1>1. w \in Word
  BY XorWords
<1>2. ExclOr(w, f) = ExclOr(id, ExclOr(f, f))
  BY XorWords
<1> HIDE DEF w
<1>3. ExclOr(ExclOr(w, x), x) = w
  BY <1>1, XorWords
<1>4. ExclOr(ExclOr(ExclOr(w, x), x), f) = id
  BY <1>2, <1>3, XorWords
<1> QED
  BY <1>4 DEF w

-----------------------------------------------------------------------------
(* The pattern.                                                            *)

\* The byte counter in front of packet number n.
From(n) == Byte(n * Bytes)

\* Whole rounds do not change a remainder.
LEMMA ModShift ==
    ASSUME NEW m \in Nat \ {0}, NEW x \in Nat, NEW q \in Nat
    PROVE  (q * m + x) % m = x % m
<1>1. PICK d \in Nat, s \in 0 .. m - 1 : x = d * m + s /\ s = x % m
  BY ModSplit
<1>2. q * m + x = (q + d) * m + s /\ q + d \in Int
  BY <1>1
<1>3. ((q + d) * m + s) % m = s
  BY <1>1, <1>2, ModUnique
<1> QED
  BY <1>1, <1>2, <1>3

\* The byte counter goes on from one packet to the next.
LEMMA FromNext == ASSUME NEW n \in Nat PROVE Byte(From(n) + Bytes) = From(n + 1)
<1>0. Bytes \in Nat \ {0} /\ ByteRange \in Nat \ {0}
  BY ByteTypes
<1> DEFINE y == n * Bytes
<1>1. y \in Nat /\ From(n) = y % ByteRange
  BY <1>0 DEF From, Byte
<1>2. (n + 1) * Bytes = y + Bytes
  BY <1>0
<1> HIDE DEF y
<1>3. /\ y \div ByteRange \in Nat /\ y % ByteRange \in Nat
      /\ y = (y \div ByteRange) * ByteRange + (y % ByteRange)
  <2>1. y \in Nat
    BY <1>1
  <2>2. /\ y \div ByteRange \in Nat /\ y % ByteRange \in 0 .. ByteRange - 1
        /\ y = (y \div ByteRange) * ByteRange + (y % ByteRange)
    BY ONLY <2>1, <1>0, ModSplit
  <2> QED
    BY <2>2, <1>0
<1> DEFINE q == y \div ByteRange
           r == y % ByteRange
<1> HIDE DEF q, r
<1>4. y + Bytes = q * ByteRange + (r + Bytes) /\ q \in Nat /\ r + Bytes \in Nat
  <2>1. q \in Nat /\ r \in Nat /\ y = q * ByteRange + r
    BY <1>3 DEF q, r
  <2> QED
    BY <2>1, <1>0
<1>5. (y + Bytes) % ByteRange = (r + Bytes) % ByteRange
  <2> DEFINE w == r + Bytes
  <2>1. y + Bytes = q * ByteRange + w /\ q \in Nat /\ w \in Nat
    BY <1>4
  <2> HIDE DEF w
  <2>2. (q * ByteRange + w) % ByteRange = w % ByteRange
    BY ONLY <2>1, <1>0, ModShift
  <2> QED
    BY <2>1, <2>2 DEF w
<1> QED
  BY <1>1, <1>2, <1>5 DEF From, Byte, r

\* Byte counters are multiples of a packet, and packets a multiple of Bytes apart
\* begin at the same one.
LEMMA FromAligned ==
    ASSUME NEW n \in Nat, NEW c \in Nat
    PROVE  /\ From(n) % Bytes = 0
           /\ Byte(n) % Bytes = n % Bytes
           /\ n % Bytes = c % Bytes => From(n) = From(c)
<1> DEFINE k == ByteRange \div Bytes
           j == (Bytes * Bytes) \div ByteRange
<1>0. Bytes \in Nat \ {0} /\ ByteRange \in Nat \ {0} /\ Bytes * Bytes \in Nat
  BY ByteTypes
<1>1. k \in Nat /\ ByteRange = k * Bytes
  <2>1. k \in Nat /\ ByteRange = k * Bytes + (ByteRange % Bytes)
    BY <1>0, ModSplit
  <2> HIDE DEF k
  <2>2. ByteRange % Bytes = 0
    BY PatternAssumption
  <2> QED
    BY <2>1, <2>2, <1>0
<1>2. j \in Nat /\ Bytes * Bytes = j * ByteRange
  <2> DEFINE square == Bytes * Bytes
  <2>1. square \in Nat /\ square % ByteRange = 0 /\ j = square \div ByteRange
    BY <1>0, PatternAssumption
  <2> HIDE DEF square, j
  <2>2. j \in Nat /\ square = j * ByteRange + (square % ByteRange)
    BY <2>1, <1>0, ModSplit
  <2> QED
    BY <2>1, <2>2, <1>0 DEF square
<1> HIDE DEF k, j
<1>3. k # 0
  BY <1>0, <1>1
<1>4. \A m \in Nat : From(m) % Bytes = 0
  <2> SUFFICES ASSUME NEW m \in Nat PROVE From(m) % Bytes = 0
    OBVIOUS
  <2>1. m * Bytes \in Nat
    BY <1>0
  <2>2. PICK q \in Nat : m * Bytes = q * ByteRange + From(m) /\ From(m) \in Nat
    <3> DEFINE y == m * Bytes
    <3>1. y \in Nat /\ From(m) = y % ByteRange
      BY <2>1 DEF From, Byte
    <3> HIDE DEF y
    <3>2. /\ y \div ByteRange \in Nat /\ y % ByteRange \in 0 .. ByteRange - 1
          /\ y = (y \div ByteRange) * ByteRange + (y % ByteRange)
      BY <3>1, <1>0, ModSplit
    <3> QED
      BY <3>1, <3>2 DEF y
  <2>3. m * Bytes = (q * k) * Bytes + From(m) /\ q * k \in Nat
    BY <2>2, <1>1, <1>0
  <2>4. From(m) = (m - q * k) * Bytes + 0 /\ m - q * k \in Int
    <3> DEFINE h == q * k
    <3>1. h \in Nat /\ m * Bytes = h * Bytes + From(m)
      BY <2>3
    <3> HIDE DEF h
    <3>2. From(m) = (m - h) * Bytes + 0 /\ m - h \in Int
      BY <3>1, <2>2, <1>0
    <3> QED
      BY <3>2 DEF h
  <2>5. 0 \in 0 .. Bytes - 1
    BY <1>0
  <2> QED
    BY <2>4, <2>5, <1>0, ModUnique
<1>5. Byte(n) % Bytes = n % Bytes
  <2>1. Byte(n) = Wrapped(Bytes, k, n)
    <3>1. ByteRange = Bytes * k
      BY <1>0, <1>1
    <3> QED
      BY <3>1 DEF Byte, Wrapped
  <2> QED
    BY <2>1, <1>0, <1>1, <1>3, LowOfWrapped
<1>6. ASSUME n % Bytes = c % Bytes PROVE From(n) = From(c)
  <2>1. PICK a \in Nat, b \in Nat, r \in Nat : n = a * Bytes + r /\ c = b * Bytes + r
    <3>1. n = (n \div Bytes) * Bytes + (n % Bytes) /\ n \div Bytes \in Nat /\ n % Bytes \in Nat
      BY <1>0, ModSplit
    <3>2. c = (c \div Bytes) * Bytes + (c % Bytes) /\ c \div Bytes \in Nat
      BY <1>0, ModSplit
    <3> QED
      BY <3>1, <3>2, <1>6
  <2>2. /\ n * Bytes = a * (Bytes * Bytes) + r * Bytes
        /\ c * Bytes = b * (Bytes * Bytes) + r * Bytes
    BY <2>1, <1>0
  <2>3. /\ n * Bytes = (a * j) * ByteRange + r * Bytes
        /\ c * Bytes = (b * j) * ByteRange + r * Bytes
        /\ a * j \in Nat /\ b * j \in Nat /\ r * Bytes \in Nat
    BY <2>1, <2>2, <1>2, <1>0
  <2> DEFINE aj == a * j
             bj == b * j
             rest == r * Bytes
  <2> HIDE DEF aj, bj, rest
  <2>4. /\ n * Bytes = aj * ByteRange + rest /\ c * Bytes = bj * ByteRange + rest
        /\ aj \in Nat /\ bj \in Nat /\ rest \in Nat
    BY <2>3 DEF aj, bj, rest
  <2>5. (aj * ByteRange + rest) % ByteRange = rest % ByteRange
    BY ONLY <2>4, <1>0, ModShift
  <2>6. (bj * ByteRange + rest) % ByteRange = rest % ByteRange
    BY ONLY <2>4, <1>0, ModShift
  <2> QED
    BY <2>4, <2>5, <2>6 DEF From, Byte
<1> QED
  BY <1>4, <1>5, <1>6

\* What the collector has left of byte i of packet n where it expects packet c.
LeftOf(id, n, c, i) ==
    ExclOr(ExclOr(PatternByte(id, n, From(n) + i), Byte(c)), Byte(From(c) + i))

\* If the first byte is right the packet is in its place, up to a round.
LEMMA MatchMeansPlace ==
    ASSUME NEW id \in Word, NEW n \in Nat, NEW c \in Nat, LeftOf(id, n, c, 0) = id
    PROVE  Byte(n) = Byte(c)
<1> DEFINE f == From(n)
           g == From(c)
           x == Byte(n)
           y == Byte(c)
           p == ExclOr(ExclOr(id, f), x)
<1>1. f \in ByteValues /\ g \in ByteValues /\ x \in ByteValues /\ y \in ByteValues
  <2>1. n * Bytes \in Nat /\ c * Bytes \in Nat
    BY ByteTypes
  <2> QED
    BY <2>1, ByteTypes DEF From
<1>2. f \in Word /\ g \in Word /\ x \in Word /\ y \in Word
  BY <1>1, ByteTypes
<1>3. Byte(f + 0) = f /\ Byte(g + 0) = g
  <2> HIDE DEF f, g
  <2>1. f + 0 = f /\ g + 0 = g
    BY <1>1, ByteTypes
  <2> QED
    BY <2>1, <1>1, ByteTypes
<1>4. LeftOf(id, n, c, 0) = ExclOr(ExclOr(Byte(p), y), g)
  BY <1>3 DEF LeftOf, PatternByte
<1>5. p \in Word /\ Word \subseteq Nat
  BY <1>2, XorWords, KernelAssumption DEF Word
<1>6. f % Bytes = 0 /\ g % Bytes = 0 /\ x % Bytes = n % Bytes /\ y % Bytes = c % Bytes
  BY FromAligned
<1>7. n % Bytes = c % Bytes => f = g
  BY FromAligned
<1> HIDE DEF f, g, x, y
<1>8. Byte(p) \in ByteValues
  BY <1>5, ByteTypes
<1>9. id \in ByteValues
  BY <1>1, <1>4, <1>8, XorBytes
<1>10. p \in ByteValues
  BY <1>1, <1>9, XorBytes
<1>11. Byte(p) = p
  BY <1>10, ByteTypes
<1>12. ExclOr(f, x) = ExclOr(g, y)
  BY <1>2, <1>4, <1>11, XorCancel
<1>13. \A a, b \in Word : ExclOr(a, b) % Bytes = ExclOr(a % Bytes, b % Bytes)
  BY XorAssumption DEF Word
<1>14. \A a \in Word : a % Bytes \in Word
  <2> SUFFICES ASSUME NEW a \in Word PROVE a % Bytes \in Word
    OBVIOUS
  <2>1. a \in Nat /\ Bytes \in Nat \ {0}
    BY <1>5, ByteTypes
  <2>2. a % Bytes \in Nat /\ a % Bytes <= a
    BY <2>1
  <2> QED
    BY <2>1, <2>2, KernelAssumption DEF Word
<1>15. x % Bytes = y % Bytes
  <2>1. ExclOr(0, x % Bytes) = ExclOr(0, y % Bytes)
    BY <1>2, <1>6, <1>12, <1>13
  <2> QED
    BY <2>1, <1>2, <1>14, XorWords
<1>16. f = g
  BY <1>6, <1>7, <1>15
<1>17. ExclOr(f, ExclOr(f, x)) = x /\ ExclOr(f, ExclOr(f, y)) = y
  BY <1>2, XorWords
<1>18. x = y
  BY <1>12, <1>16, <1>17
<1> QED
  BY <1>18 DEF x, y

\* A packet in its place is read without an error, if the id fits a byte.
LEMMA PlaceMeansMatch ==
    ASSUME NEW id \in ByteValues, NEW n \in Nat, NEW i \in Nat
    PROVE  LeftOf(id, n, n, i) = id
<1> DEFINE f == Byte(From(n) + i)
           x == Byte(n)
           p == ExclOr(ExclOr(id, f), x)
<1>1. f \in ByteValues /\ x \in ByteValues
  <2>1. n * Bytes \in Nat
    BY ByteTypes
  <2>2. From(n) \in ByteValues
    BY <2>1, ByteTypes DEF From
  <2>3. From(n) + i \in Nat
    <3>1. From(n) \in Nat
      BY <2>2, ByteTypes
    <3> QED
      BY <3>1
  <2> QED
    BY <2>3, ByteTypes
<1>2. Byte(f) = f
  BY <1>1, ByteTypes
<1>3. LeftOf(id, n, n, i) = ExclOr(ExclOr(Byte(p), x), f)
  BY DEF LeftOf, PatternByte
<1> HIDE DEF f, x
<1>4. p \in ByteValues
  BY <1>1, XorBytes
<1>5. Byte(p) = p
  BY <1>4, ByteTypes
<1>6. id \in Word /\ f \in Word /\ x \in Word
  BY <1>1, ByteTypes
<1> QED
  BY <1>3, <1>5, <1>6, XorTwice

-----------------------------------------------------------------------------
(* The invariant.                                                          *)

\* A packet as the generator makes it.
Made(pkt) == pkt.id = args[Collector].id /\ pkt.from = From(pkt.number)

\* The kernels know where they are, the channel only repeats what was made, and
\* the error bit is about the packets read so far.
PairParts ==
    /\ \E id \in Ids : args = PairArgs(id)
    /\ \A c \in CU : byte_counter[c] = From(count[c])
    /\ \A k \in 1 .. Len(accepted[Collector]) : Made(accepted[Collector][k])
    /\ \A k \in 1 .. Len(delivered[Collector]) : Made(delivered[Collector][k])
    /\ count[Collector] <= Len(delivered[Collector])
    /\ error[Collector] = 0 => InPlaceMod
    /\ (args[Collector].id < ByteRange /\ InPlace) => error[Collector] = 0
    /\ state[Collector] = "done" => error_o[Collector] = error[Collector]

PairInv == PairTypeOK /\ PairParts

LEMMA Kernels ==
    /\ Generator \in CU /\ Collector \in CU /\ Generator # Collector
    /\ \A c \in CU : c = Generator \/ c = Collector
    /\ {NumPkts, MaxFaults, Room} \subseteq Nat
  BY PairAssumption, KernelAssumption

LEMMA PairStarts == PairInit => PairInv
<1> SUFFICES ASSUME PairInit PROVE PairInv
  OBVIOUS
<1>1. PICK id \in Ids : args = PairArgs(id)
  BY DEF PairInit
<1>2. id \in Nat
  BY PairAssumption
<1>3. <<>> \in Seq(Packets) /\ Len(<<>>) = 0
  OBVIOUS
<1>4. PairTypeOK
  <2>1. args \in [CU -> Args]
    BY <1>1, <1>2, Kernels DEF PairArgs, Args
  <2>2. 0 \in 0 .. ByteRange - 1 /\ 0 \in 0 .. MaxFaults
    BY ByteTypes, Kernels
  <2> QED
    BY <2>1, <2>2, <1>3 DEF PairInit, PairTypeOK, KernelTypeOK
<1>5. From(0) = 0
  <2>1. 0 * Bytes = 0 /\ 0 \in ByteValues
    BY ByteTypes DEF ByteValues
  <2> QED
    BY <2>1, ByteTypes DEF From
<1>6. /\ count[Collector] = 0 /\ error[Collector] = 0 /\ state[Collector] = "busy"
      /\ Len(accepted[Collector]) = 0 /\ Len(delivered[Collector]) = 0
  BY <1>3, Kernels DEF PairInit
<1> QED
  BY <1>1, <1>4, <1>5, <1>6, Kernels DEF PairInit, PairInv, PairParts, InPlaceMod

LEMMA PairTypes ==
    ASSUME PairTypeOK
    PROVE  /\ \A c \in CU : /\ count[c] \in Nat /\ args[c] \in Args
                            /\ args[c].id \in Nat
                            /\ state[c] \in {"idle", "busy", "done"}
                            /\ error[c] \in {0, 1}
                            /\ byte_counter[c] \in ByteValues
           /\ accepted[Collector] \in Seq(Packets) /\ Len(accepted[Collector]) \in Nat
           /\ delivered[Collector] \in Seq(Packets) /\ Len(delivered[Collector]) \in Nat
           /\ \A k \in 1 .. Len(accepted[Collector]) : accepted[Collector][k] \in Packets
           /\ \A k \in 1 .. Len(delivered[Collector]) :
                 delivered[Collector][k] \in Packets /\ Got(k) \in Nat
<1>1. accepted[Collector] \in Seq(Packets) /\ delivered[Collector] \in Seq(Packets)
  BY Kernels DEF PairTypeOK, KernelTypeOK
<1>2. /\ \A k \in 1 .. Len(accepted[Collector]) : accepted[Collector][k] \in Packets
      /\ \A k \in 1 .. Len(delivered[Collector]) : delivered[Collector][k] \in Packets
  BY <1>1, ElementOfSeq
<1>3. Len(accepted[Collector]) \in Nat /\ Len(delivered[Collector]) \in Nat
  BY <1>1, LenProperties
<1> QED
  BY <1>1, <1>2, <1>3 DEF PairTypeOK, KernelTypeOK, Args, Packets, Got, ByteValues

\* One more packet at the end.
LEMMA GrowsByOne ==
    ASSUME NEW s \in Seq(Packets), NEW e \in Packets
    PROVE  /\ Append(s, e) \in Seq(Packets) /\ Len(Append(s, e)) = Len(s) + 1
           /\ Append(s, e)[Len(s) + 1] = e
           /\ \A k \in 1 .. Len(s) : Append(s, e)[k] = s[k]
           /\ Len(s) \in Nat
  BY AppendProperties, LenProperties

\* The loop of one kernel.
LEMMA LoopStep ==
    ASSUME PairInv, NEW c \in CU, NextPacket(c)
    PROVE  /\ count' \in [CU -> Nat] /\ count'[c] = count[c] + 1
           /\ \A d \in CU : d # c => count'[d] = count[d]
           /\ byte_counter' \in [CU -> 0 .. ByteRange - 1]
           /\ \A d \in CU : byte_counter'[d] = From(count'[d])
<1>1. count \in [CU -> Nat] /\ byte_counter \in [CU -> ByteValues]
  BY DEF PairInv, PairTypeOK, KernelTypeOK, ByteValues
<1>2. \A d \in CU : byte_counter[d] = From(count[d])
  BY DEF PairInv, PairParts
<1>3. /\ count' = [count EXCEPT ![c] = count[c] + 1]
      /\ byte_counter' = [byte_counter EXCEPT ![c] = Byte(byte_counter[c] + Bytes)]
  BY DEF NextPacket
<1>4. Byte(byte_counter[c] + Bytes) = From(count[c] + 1)
  BY <1>1, <1>2, FromNext
<1>5. From(count[c] + 1) \in ByteValues
  <2>1. byte_counter[c] + Bytes \in Nat
    <3>1. byte_counter[c] \in ByteValues
      BY <1>1
    <3>2. byte_counter[c] \in Nat /\ Bytes \in Nat
      BY <3>1, ByteTypes
    <3> QED
      BY <3>2
  <2> QED
    BY <2>1, <1>4, ByteTypes
<1>6. /\ count' \in [CU -> Nat] /\ count'[c] = count[c] + 1
      /\ \A d \in CU : d # c => count'[d] = count[d]
  BY <1>1, <1>3
<1>7. byte_counter' \in [CU -> ByteValues] /\ byte_counter'[c] = From(count[c] + 1)
  BY <1>1, <1>3, <1>4, <1>5
<1>8. \A d \in CU : d # c => byte_counter'[d] = byte_counter[d]
  BY <1>1, <1>3
<1> QED
  BY <1>2, <1>6, <1>7, <1>8 DEF ByteValues

\* What is said of the packets read so far, in a step that reads none.
LEMMA ReadFrame ==
    ASSUME PairInv, PairTypeOK', count'[Collector] = count[Collector],
           \A k \in 1 .. Len(delivered[Collector]) :
               delivered'[Collector][k] = delivered[Collector][k]
    PROVE  (InPlace' <=> InPlace) /\ (InPlaceMod' <=> InPlaceMod)
<1>1. count[Collector] \in Nat /\ count[Collector] <= Len(delivered[Collector])
  BY Kernels, PairTypes DEF PairInv, PairParts
<1>2. Len(delivered[Collector]) \in Nat
  BY PairTypes DEF PairInv
<1>3. \A k \in 1 .. count[Collector] : Got(k)' = Got(k)
  BY <1>1, <1>2 DEF Got
<1> QED
  BY <1>3 DEF InPlace, InPlaceMod

-----------------------------------------------------------------------------
(* One step per action.                                                    *)

LEMMA GenerateStep ==
    ASSUME PairInv, Generate(Generator, Collector), UNCHANGED faults PROVE PairInv'
<1> DEFINE pkt == [id |-> args[Generator].id, number |-> count[Generator],
                   from |-> byte_counter[Generator]]
<1>1. /\ accepted' = [accepted EXCEPT ![Collector] = Append(accepted[Collector], pkt)]
      /\ NextPacket(Generator)
      /\ UNCHANGED <<state, args, error, error_o, delivered, faults>>
  BY DEF Generate, Channel!Accept
<1>2. PICK id \in Ids : args = PairArgs(id)
  BY DEF PairInv, PairParts
<1>3. args[Generator].id = args[Collector].id /\ args[Generator].id \in Nat
  BY <1>2, Kernels, PairTypes DEF PairArgs, PairInv
<1>4. pkt \in Packets /\ Made(pkt)
  <2>1. byte_counter[Generator] = From(count[Generator])
    BY Kernels DEF PairInv, PairParts
  <2> QED
    BY <1>3, <2>1, Kernels, PairTypes DEF PairInv, Packets, Made, ByteValues
<1> HIDE DEF pkt
<1>5. accepted \in [CU -> Seq(Packets)] /\ accepted[Collector] \in Seq(Packets)
  BY Kernels DEF PairInv, PairTypeOK, KernelTypeOK
<1>6. accepted'[Collector] = Append(accepted[Collector], pkt) /\ accepted' \in [CU -> Seq(Packets)]
  BY <1>1, <1>4, <1>5, Kernels, GrowsByOne
<1>7. PairTypeOK'
  <2>1. count' \in [CU -> Nat] /\ byte_counter' \in [CU -> 0 .. ByteRange - 1]
    BY <1>1, Kernels, LoopStep
  <2> QED
    BY <1>1, <1>6, <2>1 DEF PairInv, PairTypeOK, KernelTypeOK
<1>8. (\A k \in 1 .. Len(accepted[Collector]) : Made(accepted[Collector][k]))'
  <2>2. \A k \in 1 .. Len(accepted[Collector]) : Made(accepted[Collector][k])
    BY DEF PairInv, PairParts
  <2>3. /\ Len(accepted'[Collector]) = Len(accepted[Collector]) + 1
        /\ accepted'[Collector][Len(accepted[Collector]) + 1] = pkt
        /\ \A k \in 1 .. Len(accepted[Collector]) : accepted'[Collector][k] = accepted[Collector][k]
        /\ Len(accepted[Collector]) \in Nat
    BY <1>4, <1>5, <1>6, GrowsByOne
  <2>4. \A k \in 1 .. Len(accepted'[Collector]) :
           k \in 1 .. Len(accepted[Collector]) \/ k = Len(accepted[Collector]) + 1
    BY <2>3
  <2>5. \A k \in 1 .. Len(accepted'[Collector]) : Made(accepted'[Collector][k])
    BY <1>4, <2>2, <2>3, <2>4
  <2> QED
    BY <1>1, <2>5 DEF Made
<1>9. count'[Collector] = count[Collector]
  BY <1>1, Kernels, LoopStep
<1>10. (InPlace' <=> InPlace) /\ (InPlaceMod' <=> InPlaceMod)
  BY <1>1, <1>7, <1>9, ReadFrame
<1>11. \A c \in CU : byte_counter'[c] = From(count'[c])
  BY <1>1, Kernels, LoopStep
<1>12. \A x : Made(x)' <=> Made(x)
  BY <1>1 DEF Made
<1>13. PairParts'
  BY <1>1, <1>8, <1>9, <1>10, <1>11, <1>12 DEF PairInv, PairParts
<1> QED
  BY <1>7, <1>13 DEF PairInv

\* The collector reads the next packet.
LEMMA CollectStep ==
    ASSUME PairInv, Collect(Collector), UNCHANGED faults PROVE PairInv'
<1> DEFINE n == count[Collector]
           pkt == delivered[Collector][n + 1]
           id == args[Collector].id
<1>1. /\ More(Collector) /\ n < Len(delivered[Collector])
      /\ error' = [error EXCEPT ![Collector] = ErrorAfter(Collector, pkt)]
      /\ NextPacket(Collector)
      /\ UNCHANGED <<state, args, error_o, accepted, delivered, faults>>
  BY DEF Collect, channelVars
<1>2. /\ n \in Nat /\ n + 1 \in 1 .. Len(delivered[Collector])
      /\ Len(delivered[Collector]) \in Nat
  BY <1>1, Kernels, PairTypes DEF PairInv
<1>3. pkt \in Packets /\ Made(pkt) /\ pkt.number \in Nat /\ Got(n + 1) = pkt.number
  BY <1>2, PairTypes DEF PairInv, PairParts, Got
<1>4. id \in Word
  <2>1. PICK x \in Ids : args = PairArgs(x)
    BY DEF PairInv, PairParts
  <2> QED
    BY <2>1, Kernels, PairAssumption DEF PairArgs, Word
<1>5. byte_counter[Collector] = From(n)
  BY Kernels DEF PairInv, PairParts
<1>6. \A i \in Nat : ByteWrong(Collector, pkt, i) <=> LeftOf(id, pkt.number, n, i) # id
  BY <1>3, <1>5 DEF ByteWrong, DataByte, LeftOf, Made
<1>7. /\ count' \in [CU -> Nat] /\ count'[Collector] = n + 1
      /\ byte_counter' \in [CU -> 0 .. ByteRange - 1]
      /\ \A c \in CU : byte_counter'[c] = From(count'[c])
  BY <1>1, Kernels, LoopStep
<1> HIDE DEF n, pkt, id
<1>8. error[Collector] \in {0, 1} /\ error \in [CU -> {0, 1}]
  BY Kernels DEF PairInv, PairTypeOK, KernelTypeOK
<1>9. ErrorAfter(Collector, pkt) \in {0, 1}
  BY <1>8 DEF ErrorAfter
<1>10. error' \in [CU -> {0, 1}] /\ error'[Collector] = ErrorAfter(Collector, pkt)
  BY <1>1, <1>8, <1>9, Kernels
<1>11. PairTypeOK'
  BY <1>1, <1>7, <1>10 DEF PairInv, PairTypeOK, KernelTypeOK
<1>12. \A k : Got(k)' = Got(k)
  BY <1>1 DEF Got
<1>13. \A k \in 1 .. n + 1 : k \in 1 .. n \/ k = n + 1
  BY <1>2
<1>14. (n + 1) - 1 = n /\ \A k \in 1 .. n : k \in 1 .. n + 1
  BY <1>2
<1>15. ASSUME error'[Collector] = 0 PROVE InPlaceMod'
  <2>1. ~ WrongPacket(Collector, pkt) /\ error[Collector] = 0
    BY <1>10, <1>15 DEF ErrorAfter
  <2>2. 0 \in 0 .. Bytes - 1 /\ 0 \in Nat
    BY ByteTypes
  <2>3. LeftOf(id, pkt.number, n, 0) = id
    BY <1>6, <2>1, <2>2 DEF WrongPacket
  <2>4. Byte(pkt.number) = Byte(n)
    BY <1>2, <1>3, <1>4, <2>3, MatchMeansPlace
  <2>5. \A k \in 1 .. n : Byte(Got(k)) = Byte(k - 1)
    BY <2>1 DEF PairInv, PairParts, InPlaceMod, n
  <2>6. \A k \in 1 .. n + 1 : Byte(Got(k)) = Byte(k - 1)
    BY <1>3, <1>13, <1>14, <2>4, <2>5
  <2> QED
    BY <1>7, <1>12, <2>6 DEF InPlaceMod
<1>16. ASSUME id < ByteRange, InPlace' PROVE error'[Collector] = 0
  <2>1. \A k \in 1 .. n + 1 : Got(k) = k - 1
    BY <1>7, <1>12, <1>16 DEF InPlace
  <2>2. InPlace
    BY <1>14, <2>1 DEF InPlace, n
  <2>3. error[Collector] = 0
    BY <1>16, <2>2 DEF PairInv, PairParts, id
  <2>4. pkt.number = n
    <3>1. n + 1 \in 1 .. n + 1
      BY <1>2
    <3> QED
      BY <1>3, <1>14, <2>1, <3>1
  <2>5. id \in ByteValues
    BY <1>4, <1>16, ByteTypes, KernelAssumption DEF Word, ByteValues
  <2>6. \A i \in Nat : ~ ByteWrong(Collector, pkt, i)
    BY <1>2, <1>6, <2>4, <2>5, PlaceMeansMatch
  <2>7. \A i \in 0 .. Bytes - 1 : i \in Nat
    BY ByteTypes
  <2>8. ~ WrongPacket(Collector, pkt)
    BY <2>6, <2>7 DEF WrongPacket
  <2> QED
    BY <1>10, <2>3, <2>8 DEF ErrorAfter
<1>17. state'[Collector] # "done"
  BY <1>1 DEF More
<1>18. (\A x : Made(x)' <=> Made(x)) /\ args'[Collector].id = id
  BY <1>1 DEF Made, id
<1>19. count'[Collector] <= Len(delivered'[Collector])
  BY <1>1, <1>2, <1>7
<1>20. PairParts'
  BY <1>1, <1>7, <1>15, <1>16, <1>17, <1>18, <1>19 DEF PairInv, PairParts
<1> QED
  BY <1>11, <1>20 DEF PairInv

\* The end of a loop: the error register gets the error bit.
LEMMA OutputStep ==
    ASSUME PairInv, NEW c \in CU, WriteOutputs(c), UNCHANGED faults PROVE PairInv'
<1>1. /\ error_o' = [error_o EXCEPT ![c] = error[c]]
      /\ state' = [state EXCEPT ![c] = "done"]
      /\ UNCHANGED <<args, count, byte_counter, error, accepted, delivered, faults>>
  BY DEF WriteOutputs, channelVars
<1>2. PairTypeOK'
  BY <1>1 DEF PairInv, PairTypeOK, KernelTypeOK
<1>3. (InPlace' <=> InPlace) /\ (InPlaceMod' <=> InPlaceMod) /\ (\A x : Made(x)' <=> Made(x))
  BY <1>1 DEF InPlace, InPlaceMod, Got, Made
<1>4. state'[Collector] = "done" => error_o'[Collector] = error'[Collector]
  <2>1. CASE c = Collector
    BY <1>1, <2>1 DEF PairInv, PairTypeOK, KernelTypeOK
  <2>2. CASE c # Collector
    BY <1>1, <2>2, Kernels DEF PairInv, PairTypeOK, KernelTypeOK, PairParts
  <2> QED
    BY <2>1, <2>2
<1>5. PairParts'
  BY <1>1, <1>3, <1>4 DEF PairInv, PairParts
<1> QED
  BY <1>2, <1>5 DEF PairInv

\* The channel hands the collector a packet, the next one or another.
LEMMA HandStep ==
    ASSUME PairInv, NEW k \in 1 .. Len(accepted[Collector]),
           delivered' = [delivered EXCEPT ![Collector]
                                = Append(delivered[Collector], accepted[Collector][k])],
           faults' \in 0 .. MaxFaults, UNCHANGED <<kernelVars, accepted>>
    PROVE  PairInv'
<1> DEFINE pkt == accepted[Collector][k]
<1>1. pkt \in Packets /\ Made(pkt)
  BY PairTypes DEF PairInv, PairParts
<1>2. delivered \in [CU -> Seq(Packets)] /\ delivered[Collector] \in Seq(Packets)
  BY Kernels DEF PairInv, PairTypeOK, KernelTypeOK
<1> HIDE DEF pkt
<1>3. delivered' = [delivered EXCEPT ![Collector] = Append(delivered[Collector], pkt)]
  BY DEF pkt
<1>4. delivered'[Collector] = Append(delivered[Collector], pkt) /\ delivered' \in [CU -> Seq(Packets)]
  BY <1>1, <1>2, <1>3, Kernels, GrowsByOne
<1>5. PairTypeOK'
  BY <1>4 DEF PairInv, PairTypeOK, KernelTypeOK, kernelVars
<1>6. /\ Len(delivered'[Collector]) = Len(delivered[Collector]) + 1
      /\ delivered'[Collector][Len(delivered[Collector]) + 1] = pkt
      /\ \A j \in 1 .. Len(delivered[Collector]) : delivered'[Collector][j] = delivered[Collector][j]
      /\ Len(delivered[Collector]) \in Nat
  BY <1>1, <1>2, <1>4, GrowsByOne
<1>7. (\A j \in 1 .. Len(delivered[Collector]) : Made(delivered[Collector][j]))'
  <2>1. \A j \in 1 .. Len(delivered'[Collector]) :
           j \in 1 .. Len(delivered[Collector]) \/ j = Len(delivered[Collector]) + 1
    BY <1>6
  <2>2. \A j \in 1 .. Len(delivered[Collector]) : Made(delivered[Collector][j])
    BY DEF PairInv, PairParts
  <2>3. \A j \in 1 .. Len(delivered'[Collector]) : Made(delivered'[Collector][j])
    BY <1>1, <1>6, <2>1, <2>2
  <2> QED
    BY <2>3 DEF Made, kernelVars
<1>8. (InPlace' <=> InPlace) /\ (InPlaceMod' <=> InPlaceMod)
  BY <1>5, <1>6, ReadFrame DEF kernelVars
<1>9. count'[Collector] <= Len(delivered'[Collector])
  BY <1>6, Kernels, PairTypes DEF PairInv, PairParts, kernelVars
<1>10. \A x : Made(x)' <=> Made(x)
  BY DEF Made, kernelVars
<1>11. UNCHANGED <<state, args, count, byte_counter, error, error_o, accepted>>
  BY DEF kernelVars
<1>12. PairParts'
  BY <1>7, <1>8, <1>9, <1>10, <1>11 DEF PairInv, PairParts
<1> QED
  BY <1>5, <1>12 DEF PairInv

LEMMA PairStepKeeps == PairInv /\ [PairNext]_pairVars => PairInv'
<1> SUFFICES ASSUME PairInv, [PairNext]_pairVars PROVE PairInv'
  OBVIOUS
<1>1. CASE Generate(Generator, Collector) /\ UNCHANGED faults
  BY <1>1, GenerateStep
<1>2. CASE Collect(Collector) /\ UNCHANGED faults
  BY <1>2, CollectStep
<1>3. ASSUME NEW c \in CU, WriteOutputs(c), UNCHANGED faults PROVE PairInv'
  BY <1>3, OutputStep
<1>4. CASE DeliverNext(Collector) /\ UNCHANGED faults
  <2> DEFINE k == Len(delivered[Collector]) + 1
  <2>1. /\ Len(delivered[Collector]) < Len(accepted[Collector])
        /\ delivered' = [delivered EXCEPT ![Collector]
                                = Append(delivered[Collector], accepted[Collector][k])]
        /\ UNCHANGED <<kernelVars, accepted, faults>>
    BY <1>4 DEF DeliverNext, Channel!Deliver
  <2>2. k \in 1 .. Len(accepted[Collector])
    BY <2>1, PairTypes DEF PairInv
  <2>3. faults' \in 0 .. MaxFaults
    BY <2>1 DEF PairInv, PairTypeOK
  <2> QED
    BY <2>1, <2>2, <2>3, HandStep
<1>5. CASE DeliverOther
  <2>1. PICK k \in DOMAIN accepted[Collector] :
           delivered' = [delivered EXCEPT ![Collector]
                                = Append(delivered[Collector], accepted[Collector][k])]
    BY <1>5 DEF DeliverOther
  <2>2. k \in 1 .. Len(accepted[Collector])
    BY PairTypes, LenProperties DEF PairInv
  <2>3. faults' \in 0 .. MaxFaults /\ UNCHANGED <<kernelVars, accepted>>
    BY <1>5, Kernels DEF DeliverOther, PairInv, PairTypeOK
  <2> QED
    BY <2>1, <2>2, <2>3, HandStep
<1>6. CASE UNCHANGED pairVars
  BY <1>6 DEF pairVars, kernelVars, channelVars, PairInv, PairTypeOK, KernelTypeOK,
              PairParts, InPlace, InPlaceMod, Got, Made
<1> QED
  BY <1>1, <1>2, <1>3, <1>4, <1>5, <1>6 DEF PairNext, PairStep

LEMMA PairInvHolds == PairSpec => []PairInv
<1>1. PairInit => PairInv
  BY PairStarts
<1>2. PairInv /\ [PairNext]_pairVars => PairInv'
  BY PairStepKeeps
<1> QED
  BY <1>1, <1>2, PTL DEF PairSpec

\* Counters, packets and error bits keep their ranges: the byte counter is always
\* less than a byte's values, over any channel.
THEOREM PairTyped == PairSpec => []PairTypeOK
<1>1. PairInv => PairTypeOK
  BY DEF PairInv
<1> QED
  BY <1>1, PairInvHolds, PTL

\* A collector that is done without an error has found every packet in its place,
\* up to a round of the packet number, whatever the channel lost, repeated or
\* swapped, and for every id.
THEOREM NoErrorMeansInPlace == PairSpec => []ErrorSound
<1>1. PairInv => ErrorSound
  BY DEF PairInv, PairParts, ErrorSound
<1> QED
  BY <1>1, PairInvHolds, PTL

\* For ids that fit a byte, the collector reports an error only if a packet was not
\* in its place.
THEOREM ErrorMeansOutOfPlace == ASSUME Ids \subseteq 0 .. ByteRange - 1
                                PROVE  PairSpec => []NoFalseAlarm
<1>1. PairInv => NoFalseAlarm
  <2> SUFFICES ASSUME PairInv, error[Collector] = 1, InPlace PROVE FALSE
    BY DEF NoFalseAlarm
  <2>1. PICK id \in Ids : args = PairArgs(id)
    BY DEF PairInv, PairParts
  <2>2. args[Collector].id < ByteRange
    BY <2>1, Kernels, ByteTypes DEF PairArgs
  <2> QED
    BY <2>2 DEF PairInv, PairParts
<1> QED
  BY <1>1, PairInvHolds, PTL
=============================================================================
