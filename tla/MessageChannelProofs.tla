-------------------------- MODULE MessageChannelProofs --------------------------
(***************************************************************************)
(* Proofs about MessageChannel for any byte values, byte orders, limits,   *)
(* sizes, window and number of messages.                                   *)
(*                                                                         *)
(* First the codec: the length prefix is the big-endian one on every host, *)
(* and decoding it on any host gives back the size that was encoded on any *)
(* other.  Then the stream: every byte that was written and not yet        *)
(* returned has a place in the sequence of all frames, and the bytes of    *)
(* the reader, of TCP and of the writer follow each other without a gap.   *)
(***************************************************************************)
EXTENDS MessageChannel, SequenceTheorems, TLAPS

\* Division with remainder, which the arithmetic below rests on.
LEMMA DivMod ==
  ASSUME NEW n \in Nat
  PROVE  /\ n \div Base \in Nat /\ n % Base \in Bytes
         /\ n = (n \div Base) * Base + (n % Base)
  BY BaseAssumption DEF Bytes

\* ... and its uniqueness.
LEMMA DivModUnique ==
  ASSUME NEW q \in Nat, NEW r \in Bytes
  PROVE  (q * Base + r) \div Base = q /\ (q * Base + r) % Base = r
  BY BaseAssumption DEF Bytes

-------------------------------------------------------------------------------
\* The four digits of a uint32 are bytes that make it up again.
LEMMA DigitsOfNumber ==
  ASSUME NEW n \in UInt32
  PROVE  /\ MostSignificantFirst(n) \in Prefixes
         /\ Significant(MostSignificantFirst(n)) = n
<1> DEFINE a == n \div Base
           b == a \div Base
           c == b \div Base
<1>1. n \in Nat /\ n < Base * Base * Base * Base
  BY BaseAssumption DEF UInt32
<1>2. a \in Nat /\ n % Base \in Bytes /\ n = a * Base + (n % Base)
  BY <1>1, DivMod
<1>3. b \in Nat /\ a % Base \in Bytes /\ a = b * Base + (a % Base)
  BY <1>2, DivMod
<1>4. c \in Nat /\ b % Base \in Bytes /\ b = c * Base + (b % Base)
  BY <1>3, DivMod
<1> HIDE DEF a, b, c
<1>5. a < Base * Base * Base
  <2>1. ASSUME a >= Base * Base * Base PROVE FALSE
    <3>1. a * Base >= Base * Base * Base * Base
      BY <2>1, <1>2, BaseAssumption
    <3> QED BY <3>1, <1>1, <1>2, BaseAssumption DEF Bytes
  <2> QED BY <2>1, <1>2, BaseAssumption
<1>6. b < Base * Base
  <2>1. ASSUME b >= Base * Base PROVE FALSE
    <3>1. b * Base >= Base * Base * Base
      BY <2>1, <1>3, BaseAssumption
    <3> QED BY <3>1, <1>5, <1>3, <1>2, BaseAssumption DEF Bytes
  <2> QED BY <2>1, <1>3, BaseAssumption
<1>7. c \in Bytes
  <2>1. ASSUME c >= Base PROVE FALSE
    <3>1. c * Base >= Base * Base
      BY <2>1, <1>4, BaseAssumption
    <3> QED BY <3>1, <1>6, <1>4, <1>3, BaseAssumption DEF Bytes
  <2> QED BY <2>1, <1>4, BaseAssumption DEF Bytes
<1>8. MostSignificantFirst(n) = <<c, b % Base, a % Base, n % Base>>
  BY DEF MostSignificantFirst, a, b, c
<1> QED BY <1>2, <1>3, <1>4, <1>7, <1>8 DEF Prefixes, Significant

\* Four bytes make up a uint32 whose digits they are.
LEMMA NumberOfDigits ==
  ASSUME NEW p \in Prefixes
  PROVE  /\ Significant(p) \in UInt32
         /\ MostSignificantFirst(Significant(p)) = p
<1> DEFINE c == p[1]
           b == c * Base + p[2]
           a == b * Base + p[3]
           n == a * Base + p[4]
<1>1. p = <<p[1], p[2], p[3], p[4]>> /\ p[1] \in Bytes /\ p[2] \in Bytes
      /\ p[3] \in Bytes /\ p[4] \in Bytes
  BY DEF Prefixes
<1>2. c \in Nat /\ c <= Base - 1
  BY <1>1, BaseAssumption DEF Bytes
<1>3. b \in Nat /\ b <= Base * Base - 1 /\ b \div Base = c /\ b % Base = p[2]
  <2>1. b \div Base = c /\ b % Base = p[2]
    BY <1>1, <1>2, DivModUnique
  <2>2. c * Base <= (Base - 1) * Base
    BY <1>2, BaseAssumption
  <2> QED BY <2>1, <2>2, <1>1, <1>2, BaseAssumption DEF Bytes
<1> HIDE DEF b
<1>4. a \in Nat /\ a <= Base * Base * Base - 1 /\ a \div Base = b /\ a % Base = p[3]
  <2>1. a \div Base = b /\ a % Base = p[3]
    BY <1>1, <1>3, DivModUnique
  <2>2. b * Base <= (Base * Base - 1) * Base
    BY <1>3, BaseAssumption
  <2> QED BY <2>1, <2>2, <1>1, <1>3, BaseAssumption DEF Bytes
<1> HIDE DEF a
<1>5. n \in Nat /\ n <= Base * Base * Base * Base - 1 /\ n \div Base = a
      /\ n % Base = p[4]
  <2>1. n \div Base = a /\ n % Base = p[4]
    BY <1>1, <1>4, DivModUnique
  <2>2. a * Base <= (Base * Base * Base - 1) * Base
    BY <1>4, BaseAssumption
  <2> QED BY <2>1, <2>2, <1>1, <1>4, BaseAssumption DEF Bytes
<1>6. Significant(p) = n
  BY DEF Significant, n, a, b
<1> HIDE DEF n
<1> QED BY <1>1, <1>3, <1>4, <1>5, <1>6, BaseAssumption DEF MostSignificantFirst, UInt32

\* Reversing the bytes of a prefix gives a prefix, and reversing them again the first.
LEMMA ReversedTwice ==
  ASSUME NEW p \in Prefixes
  PROVE  Reversed(p) \in Prefixes /\ Reversed(Reversed(p)) = p
BY DEF Prefixes, Reversed

-------------------------------------------------------------------------------
\* The prefix on the wire is the big-endian one, whatever the byte order of the
\* host (MessageFrameCodec.hpp:41-54, 88-93).
THEOREM PrefixIsBigEndian ==
  ASSUME NEW order \in ByteOrders, NEW n \in UInt32
  PROVE  Encode(order, n) = MostSignificantFirst(n)
<1>1. CASE order = "big"
  BY <1>1 DEF Encode, InMemory, HostToNetwork
<1>2. CASE order = "little"
  <2> DEFINE p == Reversed(MostSignificantFirst(n))
  <2>1. p \in Prefixes /\ Reversed(p) = MostSignificantFirst(n)
    BY DigitsOfNumber, ReversedTwice
  <2>2. MostSignificantFirst(Significant(p)) = p
    BY <2>1, NumberOfDigits
  <2> QED BY <1>2, <2>1, <2>2 DEF Encode, InMemory, HostToNetwork, Byteswap
<1> QED BY <1>1, <1>2 DEF ByteOrders

\* What a host of one byte order encodes a host of any other decodes: the reader
\* expects exactly as many bytes as the writer sends (MessageFrameCodec.hpp:56-68).
THEOREM DecodeInvertsEncode ==
  ASSUME NEW encoder \in ByteOrders, NEW decoder \in ByteOrders, NEW n \in UInt32
  PROVE  Decode(decoder, Encode(encoder, n)) = n
<1> DEFINE p == MostSignificantFirst(n)
<1>1. Encode(encoder, n) = p
  BY PrefixIsBigEndian
<1>2. p \in Prefixes /\ Significant(p) = n
  BY DigitsOfNumber
<1>3. CASE decoder = "big"
  BY <1>1, <1>2, <1>3 DEF Decode, FromMemory, HostToNetwork
<1>4. CASE decoder = "little"
  <2>1. Reversed(p) \in Prefixes /\ Reversed(Reversed(p)) = p
    BY <1>2, ReversedTwice
  <2>2. MostSignificantFirst(Significant(Reversed(p))) = Reversed(p)
    BY <2>1, NumberOfDigits
  <2> QED
    BY <1>1, <1>2, <1>4, <2>1, <2>2 DEF Decode, FromMemory, HostToNetwork, Byteswap
<1> QED BY <1>3, <1>4 DEF ByteOrders

\* The prefix as a function of the byte's position, as a stream carries it.
LEMMA PrefixBytes ==
  ASSUME NEW order \in ByteOrders, NEW n \in UInt32
  PROVE  /\ \A i \in 1 .. 4 : Encode(order, n)[i] \in Bytes
         /\ Encode(order, n) = [i \in 1 .. 4 |-> Encode(order, n)[i]]
<1>1. Encode(order, n) \in Prefixes
  BY PrefixIsBigEndian, DigitsOfNumber
<1>2. ASSUME NEW p \in Prefixes
      PROVE  (\A i \in 1 .. 4 : p[i] \in Bytes) /\ p = [i \in 1 .. 4 |-> p[i]]
  BY DEF Prefixes
<1> QED BY <1>1, <1>2

-------------------------------------------------------------------------------
(* The places of the bytes.                                                *)

Byte == [msg : Nat, at : {"prefix", "payload"}, value : Bytes]

ChannelTypes ==
  /\ written \in Seq(Nat) /\ received \in Seq(Seq(Byte)) /\ size \in Nat
  /\ writer \in {"idle", "prefix", "payload", "threw", "broken"}
  /\ reader \in {"prefix", "payload", "threw", "broken"}
  /\ out \in Seq(Byte) /\ stream \in Seq(Byte) /\ buffer \in Seq(Byte)

\* The message the reader is in.
Unread == Len(received) + 1

WriterInv ==
  /\ \A i \in 1 .. Len(written) :
       ValidSize(written[i], WriterMax) \/ (i = Len(written) /\ writer = "threw")
  /\ writer \in {"prefix", "payload", "threw"} => Len(written) > 0
  /\ writer = "threw" => ~ValidSize(written[Len(written)], WriterMax)
  /\ writer \in {"idle", "threw", "broken"} => out = <<>>

ReaderInv ==
  /\ Len(received) <= Len(written)
  /\ \A i \in 1 .. Len(received) : received[i] = PayloadOf(i, written[i])
  /\ reader = "payload" =>
       Unread <= Len(written) /\ size = written[Unread] /\ size \in 1 .. ReaderMax
  /\ reader = "threw" => Unread <= Len(written) /\ written[Unread] > ReaderMax
  /\ \A i \in 1 .. Len(buffer) :
       buffer[i].msg = Unread /\ (buffer[i].at = reader \/ reader = "broken")

Reading == reader \in {"prefix", "payload"}

Starts == [Nat -> Nat]

\* The frame of message i of w begins after start[i] bytes.
Offsets(start, w) ==
  /\ \A i \in 1 .. Len(w) : start[i + 1] = start[i] + 4 + w[i]
  /\ \A i, j \in 1 .. Len(w) + 1 : i < j => start[i] + 4 + w[i] <= start[j]

\* b is the x-th byte of the frames of the messages w.
IsPlaced(start, w, b, x) ==
  \E m \in 1 .. Len(w) :
    \/ /\ x - start[m] \in 1 .. 4
       /\ b = [msg |-> m, at |-> "prefix",
               value |-> Encode(WriterOrder, w[m])[x - start[m]]]
    \/ /\ x - start[m] - 4 \in 1 .. w[m]
       /\ b = [msg |-> m, at |-> "payload", value |-> Base - 1]

\* The bytes of s come right after the first x ones.
Follow(start, w, s, x) == \A i \in 1 .. Len(s) : IsPlaced(start, w, s[i], x + i)

\* What the reader had before its current async_read, and what the writer has given
\* to its async_writes.
Consumed(start) == start[Unread] + (IF reader = "payload" THEN 4 ELSE 0)

Produced(start) ==
  CASE writer = "prefix" -> start[Len(written)] + 4
    [] writer = "threw"  -> start[Len(written)]
    [] OTHER             -> start[Len(written) + 1]

Placed(start) ==
  /\ Len(buffer) <= Needed
  /\ Follow(start, written, buffer, Consumed(start))
  /\ Follow(start, written, stream, Consumed(start) + Len(buffer))
  /\ Follow(start, written, out, Consumed(start) + Len(buffer) + Len(stream))
  /\ writer # "broken" =>
       Consumed(start) + Len(buffer) + Len(stream) + Len(out) = Produced(start)

ChannelInv ==
  /\ ChannelTypes /\ WriterInv /\ ReaderInv
  /\ Reading => \E start \in Starts : Offsets(start, written) /\ Placed(start)

-------------------------------------------------------------------------------
\* Some elements move from the front of one sequence to the end of another.
LEMMA Moved ==
  ASSUME NEW S, NEW s \in Seq(S), NEW t \in Seq(S), NEW k \in 1 .. Len(t),
         NEW u, u = s \o SubSeq(t, 1, k), NEW v, v = SubSeq(t, k + 1, Len(t))
  PROVE  /\ u \in Seq(S) /\ v \in Seq(S)
         /\ Len(s) \in Nat /\ Len(t) \in Nat /\ k \in Nat /\ k <= Len(t)
         /\ Len(u) = Len(s) + k /\ Len(v) = Len(t) - k
         /\ \A i \in 1 .. Len(s) : u[i] = s[i]
         /\ \A i \in 1 .. k : u[Len(s) + i] = t[i]
         /\ \A i \in 1 .. Len(v) : k + i \in 1 .. Len(t) /\ v[i] = t[k + i]
<1> DEFINE f == SubSeq(t, 1, k)
<1>1. Len(s) \in Nat /\ Len(t) \in Nat /\ k \in Nat /\ k <= Len(t)
  BY LenProperties
<1>2. f \in Seq(S) /\ Len(f) = k /\ \A i \in 1 .. k : f[i] = t[i]
  BY <1>1, SubSeqProperties
<1>3. v \in Seq(S) /\ Len(v) = Len(t) - k /\ \A i \in 1 .. Len(t) - k : v[i] = t[k + i]
  BY <1>1, SubSeqProperties
<1> HIDE DEF f
<1>4. /\ u \in Seq(S) /\ Len(u) = Len(s) + Len(f)
      /\ \A i \in 1 .. Len(s) + Len(f) : u[i] = IF i <= Len(s) THEN s[i] ELSE f[i - Len(s)]
  BY <1>2, ConcatProperties DEF f
<1>5. \A i \in 1 .. k : Len(s) + i \in 1 .. Len(s) + Len(f) /\ ~(Len(s) + i <= Len(s))
                        /\ Len(s) + i - Len(s) = i
  BY <1>1, <1>2
<1>6. \A i \in 1 .. Len(s) : i \in 1 .. Len(s) + Len(f) /\ i <= Len(s)
  BY <1>1, <1>2
<1>7. \A i \in 1 .. Len(v) : k + i \in 1 .. Len(t)
  BY <1>1, <1>3
<1> QED BY <1>1, <1>2, <1>3, <1>4, <1>5, <1>6, <1>7

\* ... and keep their places.
LEMMA FollowMoved ==
  ASSUME NEW start, NEW w, NEW s \in Seq(Byte), NEW t \in Seq(Byte), NEW k \in 1 .. Len(t),
         NEW x \in Nat, Follow(start, w, s, x), Follow(start, w, t, x + Len(s))
  PROVE  /\ Follow(start, w, s \o SubSeq(t, 1, k), x)
         /\ Follow(start, w, SubSeq(t, k + 1, Len(t)), x + Len(s \o SubSeq(t, 1, k)))
<1> DEFINE u == s \o SubSeq(t, 1, k)
           v == SubSeq(t, k + 1, Len(t))
<1>1. /\ Len(s) \in Nat /\ Len(t) \in Nat /\ k \in Nat /\ k <= Len(t)
      /\ Len(u) = Len(s) + k /\ Len(v) = Len(t) - k
      /\ \A i \in 1 .. Len(s) : u[i] = s[i]
      /\ \A i \in 1 .. k : u[Len(s) + i] = t[i]
      /\ \A i \in 1 .. Len(v) : k + i \in 1 .. Len(t) /\ v[i] = t[k + i]
  BY Moved
<1> HIDE DEF u, v
<1> DEFINE n == Len(s)
<1>2. \A i \in 1 .. Len(u) : i \in 1 .. n \/ \E j \in 1 .. k : i = n + j
  <2> TAKE i \in 1 .. Len(u)
  <2>1. i \in 1 .. n \/ (i - n \in 1 .. k /\ i = n + (i - n))
    BY <1>1
  <2> QED BY <2>1
<1> HIDE DEF n
<1>3. ASSUME NEW i \in 1 .. Len(u) PROVE IsPlaced(start, w, u[i], x + i)
  <2>1. CASE i \in 1 .. n
    BY <1>1, <2>1 DEF Follow, n
  <2>2. ASSUME NEW j \in 1 .. k, i = n + j PROVE IsPlaced(start, w, u[i], x + i)
    <3>1. j \in 1 .. Len(t) /\ x + n + j = x + i
      BY <1>1, <2>2 DEF n
    <3>2. IsPlaced(start, w, t[j], x + n + j)
      BY <3>1 DEF Follow, n
    <3> QED BY <1>1, <2>2, <3>1, <3>2 DEF n
  <2> QED BY <1>2, <2>1, <2>2
<1>4. ASSUME NEW i \in 1 .. Len(v) PROVE IsPlaced(start, w, v[i], x + Len(u) + i)
  <2>1. k + i \in 1 .. Len(t) /\ v[i] = t[k + i] /\ x + Len(s) + (k + i) = x + Len(u) + i
    BY <1>1
  <2>2. IsPlaced(start, w, t[k + i], x + Len(s) + (k + i))
    BY <2>1 DEF Follow
  <2> QED BY <2>1, <2>2
<1> QED BY <1>3, <1>4 DEF Follow, u, v

\* A byte of a frame lies in it.
LEMMA InFrame ==
  ASSUME NEW x \in Nat, NEW first \in Nat, NEW n \in Nat,
         x - first \in 1 .. 4 \/ x - first - 4 \in 1 .. n
  PROVE  first < x /\ x <= first + 4 + n
OBVIOUS

\* The frames do not overlap: a byte in the range of frame n is one of message n.
LEMMA OnePlace ==
  ASSUME ChannelTypes, NEW start \in Starts, Offsets(start, written),
         NEW n \in 1 .. Len(written) + 1, NEW x \in Nat, NEW b, IsPlaced(start, written, b, x),
         start[n] < x, n <= Len(written) => x <= start[n] + 4 + written[n]
  PROVE  /\ n <= Len(written)
         /\ \/ /\ x - start[n] \in 1 .. 4
               /\ b = [msg |-> n, at |-> "prefix",
                       value |-> Encode(WriterOrder, written[n])[x - start[n]]]
            \/ /\ x - start[n] - 4 \in 1 .. written[n]
               /\ b = [msg |-> n, at |-> "payload", value |-> Base - 1]
<1>1. PICK m \in 1 .. Len(written) :
        \/ /\ x - start[m] \in 1 .. 4
           /\ b = [msg |-> m, at |-> "prefix",
                   value |-> Encode(WriterOrder, written[m])[x - start[m]]]
        \/ /\ x - start[m] - 4 \in 1 .. written[m]
           /\ b = [msg |-> m, at |-> "payload", value |-> Base - 1]
  BY DEF IsPlaced
<1> DEFINE l == Len(written)
<1>2. /\ l \in Nat /\ \A i \in 1 .. l : written[i] \in Nat
      /\ \A i \in Nat : start[i] \in Nat
      /\ \A i, j \in 1 .. l + 1 : i < j => start[i] + 4 + written[i] <= start[j]
      /\ m \in 1 .. l /\ n \in 1 .. l + 1
  BY ElementOfSeq, LenProperties DEF ChannelTypes, Offsets, Starts
<1>3. x - start[m] \in 1 .. 4 \/ x - start[m] - 4 \in 1 .. written[m]
  BY <1>1
<1> HIDE DEF l
<1>4. m \in Nat /\ n \in Nat /\ m \in 1 .. l + 1
  BY <1>2
<1> DEFINE sm == start[m]
           sn == start[n]
           wm == written[m]
           wn == written[n]
<1>5. /\ sm \in Nat /\ sn \in Nat /\ wm \in Nat /\ sn < x
      /\ x - sm \in 1 .. 4 \/ x - sm - 4 \in 1 .. wm
  BY <1>2, <1>3, <1>4
<1>6. m < n => sm + 4 + wm <= sn
  BY <1>2, <1>4
<1>7. n < m => wn \in Nat /\ sn + 4 + wn <= sm /\ x <= sn + 4 + wn
  <2>1. n < m => n \in 1 .. l
    BY <1>2, <1>4
  <2> QED BY <1>2, <1>4, <2>1 DEF l
<1> HIDE DEF sm, sn, wm, wn
<1>8. sm < x /\ x <= sm + 4 + wm
  BY <1>5, InFrame
<1>9. \A a, c, e \in Nat : c + 4 + e \in Nat /\ ~(a < x /\ x <= c + 4 + e /\ c + 4 + e <= a)
  OBVIOUS
<1>10. ~(m < n)
  BY <1>5, <1>6, <1>8, <1>9, Zenon
<1>11. ~(n < m)
  BY <1>5, <1>7, <1>8, <1>9, Zenon
<1>12. m = n
  BY <1>4, <1>10, <1>11
<1> QED BY <1>1, <1>2, <1>12 DEF l

LEMMA ChannelInitEstablishes == Init => ChannelInv
<1> SUFFICES ASSUME Init PROVE ChannelInv
  OBVIOUS
<1>1. Len(<<>>) = 0 /\ 1 .. 0 = {}
  OBVIOUS
<1>2. ChannelTypes
  BY DEF Init, ChannelTypes
<1>3. WriterInv /\ ReaderInv
  BY <1>1 DEF Init, WriterInv, ReaderInv, Unread
<1> DEFINE start == [i \in Nat |-> 0]
<1>4. Offsets(start, written)
  <2>1. \A i, j \in 1 .. Len(written) + 1 : ~(i < j)
    BY <1>1 DEF Init
  <2> QED BY <1>1, <2>1 DEF Init, Offsets
<1>5. Placed(start)
  <2>1. /\ Len(buffer) = 0 /\ Len(stream) = 0 /\ Len(out) = 0 /\ Len(written) = 0
        /\ Len(received) = 0 /\ writer = "idle" /\ reader = "prefix"
    BY <1>1 DEF Init
  <2>2. Consumed(start) = 0 /\ Produced(start) = 0 /\ Needed = 4
    BY <2>1 DEF Consumed, Produced, Unread, Needed
  <2> QED BY <1>1, <2>1, <2>2 DEF Placed, Follow
<1>6. start \in Starts
  BY DEF Starts
<1> QED BY <1>2, <1>3, <1>4, <1>5, <1>6 DEF ChannelInv

-------------------------------------------------------------------------------
(* TCP.                                                                    *)

\* Where the reader is, in numbers.
LEMMA Counting ==
  ASSUME ChannelInv, NEW start \in Starts
  PROVE  /\ Len(written) \in Nat /\ Len(received) \in Nat /\ Len(buffer) \in Nat
         /\ Len(stream) \in Nat /\ Len(out) \in Nat
         /\ Unread \in 1 .. Len(written) + 1
         /\ start[Unread] \in Nat /\ Consumed(start) \in Nat
<1>1. /\ Len(written) \in Nat /\ Len(received) \in Nat /\ Len(buffer) \in Nat
      /\ Len(stream) \in Nat /\ Len(out) \in Nat
  BY LenProperties DEF ChannelInv, ChannelTypes
<1>2. Unread \in 1 .. Len(written) + 1 /\ Unread \in Nat
  <2>1. Len(received) <= Len(written)
    BY DEF ChannelInv, ReaderInv
  <2>2. \A m, n \in Nat : m <= n => m + 1 \in 1 .. n + 1 /\ m + 1 \in Nat
    OBVIOUS
  <2> QED BY <1>1, <2>1, <2>2 DEF Unread
<1>3. start[Unread] \in Nat
  BY <1>2 DEF Starts
<1>4. Consumed(start) \in Nat
  BY <1>3 DEF Consumed
<1> QED BY <1>1, <1>2, <1>3, <1>4

\* What an async_read has got are the bytes of the frame it reads, in their order.
LEMMA BytesOfFrame ==
  ASSUME ChannelInv, Reading, NEW start \in Starts, Offsets(start, written),
         NEW s, Len(s) \in Nat, Len(s) <= Needed, Follow(start, written, s, Consumed(start)),
         NEW i \in 1 .. Len(s)
  PROVE  /\ Unread <= Len(written)
         /\ s[i] = IF reader = "prefix"
                   THEN [msg |-> Unread, at |-> "prefix",
                         value |-> Encode(WriterOrder, written[Unread])[i]]
                   ELSE [msg |-> Unread, at |-> "payload", value |-> Base - 1]
<1> DEFINE n == Unread
           from == start[Unread]
           w == written[Unread]
<1>1. /\ ChannelTypes /\ n \in 1 .. Len(written) + 1 /\ from \in Nat
      /\ n <= Len(written) => w \in Nat
  <2>1. /\ n \in 1 .. Len(written) + 1 /\ from \in Nat /\ Len(written) \in Nat
        /\ ChannelTypes
    BY Counting DEF ChannelInv
  <2>2. \A j \in 1 .. Len(written) : written[j] \in Nat
    BY <2>1, ElementOfSeq DEF ChannelTypes
  <2>3. n <= Len(written) => n \in 1 .. Len(written)
    BY <2>1
  <2> QED BY <2>1, <2>2, <2>3
<1>2. i \in Nat /\ 0 < i /\ i <= Needed
  <2>1. Needed \in Nat
    BY DEF Needed, ChannelInv, ChannelTypes
  <2> QED BY <2>1
<1> HIDE DEF from, w
<1>3. ASSUME NEW y \in Nat, IsPlaced(start, written, s[i], y), from < y,
             n <= Len(written) => y <= from + 4 + w
      PROVE  /\ n <= Len(written)
             /\ \/ /\ y - from \in 1 .. 4
                   /\ s[i] = [msg |-> n, at |-> "prefix",
                              value |-> Encode(WriterOrder, w)[y - from]]
                \/ /\ y - from - 4 \in 1 .. w
                   /\ s[i] = [msg |-> n, at |-> "payload", value |-> Base - 1]
  BY <1>1, <1>3, OnePlace, ZenonT(40) DEF from, w
<1>4. CASE reader = "prefix"
  <2>1. Consumed(start) = from + 0 /\ i \in 1 .. 4
    BY <1>2, <1>4 DEF Consumed, Needed, from
  <2>2. from + 0 + i = from + i /\ from + i \in Nat /\ from < from + i
    BY <1>1, <1>2
  <2>3. IsPlaced(start, written, s[i], from + i)
    BY <2>1, <2>2 DEF Follow
  <2>4. n <= Len(written) => from + i <= from + 4 + w
    <3>1. \A a, c \in Nat : a + i <= a + 4 + c
      BY <2>1
    <3> QED BY <1>1, <3>1
  <2>5. from + i - from = i /\ ~(from + i - from - 4 \in 1 .. w)
    BY <1>1, <2>1
  <2>6. n <= Len(written) /\ s[i] = [msg |-> n, at |-> "prefix",
                                     value |-> Encode(WriterOrder, w)[from + i - from]]
    <3>1. PICK y \in Nat : y = from + i
      BY <2>2
    <3>2. IsPlaced(start, written, s[i], y) /\ from < y /\ (n <= Len(written) => y <= from + 4 + w)
      BY <2>2, <2>3, <2>4, <3>1
    <3>3. y - from = from + i - from /\ ~(y - from - 4 \in 1 .. w)
      BY <1>1, <2>1, <3>1
    <3> QED BY <1>3, <3>2, <3>3, Zenon
  <2> QED BY <1>4, <2>5, <2>6 DEF w
<1>5. CASE reader = "payload"
  <2>1. Consumed(start) = from + 4 /\ n <= Len(written) /\ i \in 1 .. w /\ w \in Nat
    BY <1>1, <1>2, <1>5 DEF Consumed, Needed, ChannelInv, ReaderInv, from, w
  <2>2. from + 4 + i \in Nat /\ from < from + 4 + i /\ from + 4 + i <= from + 4 + w
    BY <1>1, <2>1
  <2>3. IsPlaced(start, written, s[i], from + 4 + i)
    BY <2>1 DEF Follow
  <2>4. ~(from + 4 + i - from \in 1 .. 4)
    BY <1>1, <2>1
  <2>5. s[i] = [msg |-> n, at |-> "payload", value |-> Base - 1]
    <3>1. PICK y \in Nat : y = from + 4 + i
      BY <2>2
    <3>2. IsPlaced(start, written, s[i], y) /\ from < y /\ (n <= Len(written) => y <= from + 4 + w)
      BY <2>2, <2>3, <3>1
    <3>3. ~(y - from \in 1 .. 4)
      BY <1>1, <2>1, <3>1
    <3> QED BY <1>3, <3>2, <3>3, Zenon
  <2> QED BY <1>5, <2>1, <2>5
<1> QED BY <1>4, <1>5 DEF Reading

\* What one sequence loses the other one gains.
LEMMA Transfer ==
  \A x, a, b, k \in Nat : x + (a + k) + (b - k) = x + a + b
OBVIOUS

\* The socket takes bytes of an async_write: they keep their places.
LEMMA SocketTakesStep ==
  ASSUME ChannelInv, SocketTakes
  PROVE  ChannelInv'
<1>1. PICK k \in 1 .. Len(out) :
        /\ stream' = stream \o SubSeq(out, 1, k) /\ out' = SubSeq(out, k + 1, Len(out))
        /\ UNCHANGED <<written, writer, reader, buffer, size, received>>
  BY DEF SocketTakes, readerVars
<1>2. out \in Seq(Byte) /\ stream \in Seq(Byte)
  BY DEF ChannelInv, ChannelTypes
<1>3. /\ stream' \in Seq(Byte) /\ out' \in Seq(Byte)
      /\ Len(stream') = Len(stream) + k /\ Len(out') = Len(out) - k
  BY <1>1, <1>2, Moved
<1>4. writer \notin {"idle", "threw", "broken"}
  <2>1. Len(out) # 0
    BY <1>1, <1>2, LenProperties
  <2> QED BY <2>1 DEF ChannelInv, WriterInv
<1>5. ChannelTypes' /\ WriterInv' /\ ReaderInv'
  BY <1>1, <1>3, <1>4 DEF ChannelInv, ChannelTypes, WriterInv, ReaderInv, Unread
<1>6. ASSUME NEW start \in Starts, Placed(start) PROVE Placed(start)'
  <2> DEFINE x == Consumed(start) + Len(buffer)
  <2>1. x \in Nat
    <3>1. Consumed(start) \in Nat /\ Len(buffer) \in Nat
      BY Counting
    <3> QED BY <3>1
  <2>2. Follow(start, written, stream, x) /\ Follow(start, written, out, x + Len(stream))
    BY <1>6 DEF Placed
  <2>3. Follow(start, written, stream', x) /\ Follow(start, written, out', x + Len(stream'))
    <3> HIDE DEF x
    <3>1. /\ Follow(start, written, stream \o SubSeq(out, 1, k), x)
          /\ Follow(start, written, SubSeq(out, k + 1, Len(out)),
                    x + Len(stream \o SubSeq(out, 1, k)))
      BY <1>2, <2>1, <2>2, FollowMoved
    <3> QED BY <1>1, <3>1, Zenon
  <2>4. x + Len(stream') + Len(out') = x + Len(stream) + Len(out)
    <3>1. Len(stream) \in Nat /\ Len(out) \in Nat /\ k \in Nat
      BY LenProperties, <1>1, <1>2
    <3>2. Len(stream') = Len(stream) + k /\ Len(out') = Len(out) - k
      BY <1>3
    <3> HIDE DEF x
    <3>3. x + (Len(stream) + k) + (Len(out) - k) = x + Len(stream) + Len(out)
      BY <2>1, <3>1, Transfer
    <3> QED BY <3>2, <3>3, Zenon
  <2>5. Consumed(start)' = Consumed(start) /\ Needed' = Needed /\ Produced(start)' = Produced(start)
    BY <1>1 DEF Consumed, Needed, Produced, Unread
  <2> QED BY <1>1, <1>6, <2>3, <2>4, <2>5 DEF Placed
<1> QED BY <1>1, <1>5, <1>6 DEF ChannelInv, Reading

\* async_read goes on until it has what it needs, and not further: what it gets is of
\* the frame it reads (MessageChannel.hpp:45-51).
LEMMA SocketGivesStep ==
  ASSUME ChannelInv, SocketGives
  PROVE  ChannelInv'
<1>1. PICK k \in 1 .. Len(stream) :
        /\ Len(buffer) + k <= Needed /\ reader \in {"prefix", "payload"}
        /\ buffer' = buffer \o SubSeq(stream, 1, k)
        /\ stream' = SubSeq(stream, k + 1, Len(stream))
        /\ UNCHANGED <<written, writer, out, reader, size, received>>
  BY DEF SocketGives, writerVars
<1>2. buffer \in Seq(Byte) /\ stream \in Seq(Byte)
  BY DEF ChannelInv, ChannelTypes
<1>3. /\ stream' \in Seq(Byte) /\ buffer' \in Seq(Byte)
      /\ Len(buffer') = Len(buffer) + k /\ Len(stream') = Len(stream) - k
  BY <1>1, <1>2, Moved
<1>4. PICK start \in Starts : Offsets(start, written) /\ Placed(start)
  BY <1>1 DEF ChannelInv, Reading
<1> DEFINE x == Consumed(start)
<1>5. x \in Nat /\ Len(buffer) \in Nat /\ Len(stream) \in Nat /\ Len(out) \in Nat /\ k \in Nat
  <2>1. x \in Nat /\ Len(buffer) \in Nat /\ Len(stream) \in Nat /\ Len(out) \in Nat
    BY Counting
  <2> QED BY <1>1, <2>1
<1>6. Follow(start, written, buffer', x) /\ Follow(start, written, stream', x + Len(buffer'))
  <2>1. Follow(start, written, buffer, x) /\ Follow(start, written, stream, x + Len(buffer))
    BY <1>4 DEF Placed
  <2>2. buffer' = buffer \o SubSeq(stream, 1, k) /\ stream' = SubSeq(stream, k + 1, Len(stream))
    BY <1>1
  <2> HIDE DEF x
  <2>3. /\ Follow(start, written, buffer \o SubSeq(stream, 1, k), x)
        /\ Follow(start, written, SubSeq(stream, k + 1, Len(stream)),
                  x + Len(buffer \o SubSeq(stream, 1, k)))
    BY <1>2, <1>5, <2>1, FollowMoved
  <2> QED BY <2>2, <2>3, Zenon
<1>7. /\ x + Len(buffer') + Len(stream') = x + Len(buffer) + Len(stream)
      /\ Len(buffer') <= Needed
  <2>1. Len(buffer') = Len(buffer) + k /\ Len(stream') = Len(stream) - k
    BY <1>3
  <2>2. Len(buffer') <= Needed
    BY <1>1, <2>1
  <2> HIDE DEF x
  <2>3. x + (Len(buffer) + k) + (Len(stream) - k) = x + Len(buffer) + Len(stream)
    BY <1>5, Transfer
  <2> QED BY <2>1, <2>2, <2>3, Zenon
<1>8. /\ Consumed(start)' = x /\ Needed' = Needed /\ Produced(start)' = Produced(start)
      /\ Unread' = Unread
  BY <1>1 DEF Consumed, Needed, Produced, Unread
<1>9. Placed(start)'
  <2>1. /\ Follow(start, written, out, x + Len(buffer') + Len(stream'))
        /\ writer # "broken" => x + Len(buffer') + Len(stream') + Len(out) = Produced(start)
    BY <1>4, <1>7 DEF Placed
  <2> HIDE DEF x
  <2> QED BY <1>1, <1>6, <1>7, <1>8, <2>1 DEF Placed
<1>10. ASSUME NEW i \in 1 .. Len(buffer')
       PROVE  buffer'[i].msg = Unread /\ buffer'[i].at = reader
  <2>1. Len(buffer') \in Nat /\ Reading
    BY <1>1, <1>3, LenProperties DEF Reading
  <2>2. \/ buffer'[i] = [msg |-> Unread, at |-> "prefix",
                          value |-> Encode(WriterOrder, written[Unread])[i]]
           /\ reader = "prefix"
        \/ buffer'[i] = [msg |-> Unread, at |-> "payload", value |-> Base - 1]
           /\ reader = "payload"
    BY <1>1, <1>4, <1>6, <1>7, <2>1, BytesOfFrame
  <2> QED BY <2>2
<1>11. ChannelTypes' /\ WriterInv' /\ ReaderInv'
  BY <1>1, <1>3, <1>8, <1>10 DEF ChannelInv, ChannelTypes, WriterInv, ReaderInv
<1> QED BY <1>1, <1>4, <1>9, <1>11 DEF ChannelInv

-------------------------------------------------------------------------------
(* The two ends.                                                           *)

\* A prefix and a payload have the length a reader expects of them.
LEMMA FrameContent ==
  ASSUME NEW m \in Nat, NEW n \in Nat
  PROVE  /\ n \in UInt32 => PrefixOf(m, n) \in Seq(Byte) /\ Len(PrefixOf(m, n)) = 4
         /\ PayloadOf(m, n) \in Seq(Byte) /\ Len(PayloadOf(m, n)) = n
<1>1. Base - 1 \in Bytes
  BY BaseAssumption DEF Bytes
<1>2. \A i \in 1 .. n : [msg |-> m, at |-> "payload", value |-> Base - 1] \in Byte
  BY <1>1 DEF Byte
<1>3. PayloadOf(m, n) \in Seq(Byte) /\ Len(PayloadOf(m, n)) = n
  BY <1>2 DEF PayloadOf
<1>4. ASSUME n \in UInt32 PROVE PrefixOf(m, n) \in Seq(Byte) /\ Len(PrefixOf(m, n)) = 4
  <2>1. WriterOrder \in ByteOrders
    BY OrderAssumption
  <2>2. \A i \in 1 .. 4 :
          [msg |-> m, at |-> "prefix", value |-> Encode(WriterOrder, n)[i]] \in Byte
    BY <1>4, <2>1, PrefixBytes DEF Byte
  <2> QED BY <2>2 DEF PrefixOf
<1> QED BY <1>3, <1>4

\* ... and their places in the frame.
LEMMA FramePlaces ==
  ASSUME NEW w, NEW m \in 1 .. Len(w), NEW start, start[m] \in Nat, w[m] \in Nat
  PROVE  /\ w[m] \in UInt32 => Follow(start, w, PrefixOf(m, w[m]), start[m])
         /\ Follow(start, w, PayloadOf(m, w[m]), start[m] + 4)
<1> DEFINE from == start[m]
           n == w[m]
<1>1. from \in Nat /\ n \in Nat /\ m \in Nat
  OBVIOUS
<1>2. \A a, i \in Nat : a + i - a = i /\ a + 4 + i - a - 4 = i
  OBVIOUS
<1>3. ASSUME n \in UInt32, NEW i \in 1 .. 4 PROVE IsPlaced(start, w, PrefixOf(m, n)[i], from + i)
  <2>1. from + i - from = i
    BY <1>1, <1>2
  <2>2. PrefixOf(m, n)[i] = [msg |-> m, at |-> "prefix", value |-> Encode(WriterOrder, n)[i]]
    BY DEF PrefixOf
  <2>3. PICK x : x = from + i
    OBVIOUS
  <2>4. /\ x - start[m] \in 1 .. 4
        /\ PrefixOf(m, n)[i] = [msg |-> m, at |-> "prefix",
                                value |-> Encode(WriterOrder, w[m])[x - start[m]]]
    BY <2>1, <2>2, <2>3
  <2>5. IsPlaced(start, w, PrefixOf(m, n)[i], x)
    BY <2>4, Zenon DEF IsPlaced
  <2> QED BY <2>3, <2>5
<1>4. ASSUME NEW i \in 1 .. n PROVE IsPlaced(start, w, PayloadOf(m, n)[i], from + 4 + i)
  <2>1. from + 4 + i - from - 4 = i
    BY <1>1, <1>2
  <2>2. PayloadOf(m, n)[i] = [msg |-> m, at |-> "payload", value |-> Base - 1]
    BY DEF PayloadOf
  <2>3. PICK x : x = from + 4 + i
    OBVIOUS
  <2>4. x - start[m] - 4 \in 1 .. w[m]
    <3>1. \A a, j \in Nat : \A z : z = a + 4 + j => z - a - 4 = j
      OBVIOUS
    <3>2. i \in Nat
      BY <1>1
    <3>3. x - from - 4 = i
      BY <1>1, <2>3, <3>1, <3>2, Zenon
    <3> QED BY <3>3
  <2>5. IsPlaced(start, w, PayloadOf(m, n)[i], x)
    BY <2>2, <2>4, Zenon DEF IsPlaced
  <2> QED BY <2>3, <2>5
<1>5. Len(PayloadOf(m, n)) = n /\ (n \in UInt32 => Len(PrefixOf(m, n)) = 4)
  BY <1>1, FrameContent
<1> QED BY <1>3, <1>4, <1>5 DEF Follow

\* A further message at the end moves no byte of the others.
LEMMA OneMoreFrame ==
  ASSUME NEW w \in Seq(Nat), NEW n \in Nat, NEW start \in Starts, Offsets(start, w)
  PROVE  \E next \in Starts :
           /\ Offsets(next, Append(w, n))
           /\ \A i \in 1 .. Len(w) + 1 : next[i] = start[i]
           /\ \A s, x : Follow(start, w, s, x) => Follow(next, Append(w, n), s, x)
<1> DEFINE l == Len(w)
           v == Append(w, n)
           next == [i \in Nat |-> IF i = l + 2 THEN start[l + 1] + 4 + n ELSE start[i]]
<1>1. /\ l \in Nat /\ Len(v) = l + 1 /\ v[l + 1] = n
      /\ \A i \in 1 .. l : v[i] = w[i] /\ w[i] \in Nat
  BY AppendProperties, ElementOfSeq, LenProperties
<1>2. \A i \in Nat : start[i] \in Nat
  BY DEF Starts
<1>3. start[l + 1] + 4 + n \in Nat /\ l + 1 \in Nat /\ l + 2 \in Nat
  BY <1>1, <1>2
<1>4. next \in Starts
  BY <1>2, <1>3 DEF Starts
<1>5. next[l + 2] = start[l + 1] + 4 + n /\ \A i \in 1 .. l + 1 : next[i] = start[i]
  BY <1>1, <1>3
<1>6. /\ \A i \in 1 .. l : start[i + 1] = start[i] + 4 + w[i]
      /\ \A i, j \in 1 .. l + 1 : i < j => start[i] + 4 + w[i] <= start[j]
  BY DEF Offsets
<1> HIDE DEF l, v, next
<1>7. ASSUME NEW i \in 1 .. l + 1 PROVE next[i + 1] = next[i] + 4 + v[i]
  <2>1. CASE i = l + 1
    <3>1. i + 1 = l + 2
      BY <1>1, <2>1
    <3> QED BY <1>1, <1>5, <2>1, <3>1
  <2>2. CASE i \in 1 .. l
    <3>1. i + 1 \in 1 .. l + 1
      BY <1>1, <2>2
    <3> QED BY <1>1, <1>5, <1>6, <2>2, <3>1
  <2> QED BY <1>1, <2>1, <2>2
<1>8. ASSUME NEW i \in 1 .. l + 2, NEW j \in 1 .. l + 2, i < j
      PROVE  next[i] + 4 + v[i] <= next[j]
  <2>1. i \in 1 .. l + 1 /\ (i \in 1 .. l \/ i = l + 1)
    BY <1>1, <1>8
  <2>2. CASE j \in 1 .. l + 1
    <3>1. i \in 1 .. l
      BY <1>1, <1>8, <2>2
    <3> QED BY <1>1, <1>5, <1>6, <1>8, <2>1, <2>2, <3>1
  <2>3. CASE j = l + 2 /\ i = l + 1
    <3>1. next[i] + 4 + v[i] = next[j]
      BY <1>1, <1>5, <2>1, <2>3
    <3>2. next[j] \in Nat
      BY <1>3, <1>5, <2>3
    <3> QED BY <3>1, <3>2
  <2>4. CASE j = l + 2 /\ i \in 1 .. l
    <3>1. l + 1 \in 1 .. l + 1 /\ i < l + 1
      BY <1>1, <2>4
    <3>2. start[i] + 4 + w[i] <= start[l + 1]
      BY <1>6, <2>1, <3>1
    <3>3. next[i] = start[i] /\ v[i] = w[i] /\ w[i] \in Nat /\ start[i] \in Nat
          /\ start[l + 1] \in Nat
      BY <1>1, <1>2, <1>3, <1>5, <2>1, <2>4
    <3>4. \A a, b, c \in Nat : a + 4 + b <= c => a + 4 + b <= c + 4 + n
      OBVIOUS
    <3> QED BY <1>5, <2>4, <3>2, <3>3, <3>4
  <2> QED BY <1>1, <2>1, <2>2, <2>3, <2>4
<1>9. Offsets(next, v)
  <2>1. l + 1 + 1 = l + 2
    BY <1>1
  <2> QED BY <1>1, <1>7, <1>8, <2>1 DEF Offsets
<1>10. ASSUME NEW b, NEW x, IsPlaced(start, w, b, x) PROVE IsPlaced(next, v, b, x)
  <2>1. PICK m \in 1 .. l :
          \/ /\ x - start[m] \in 1 .. 4
             /\ b = [msg |-> m, at |-> "prefix",
                     value |-> Encode(WriterOrder, w[m])[x - start[m]]]
          \/ /\ x - start[m] - 4 \in 1 .. w[m]
             /\ b = [msg |-> m, at |-> "payload", value |-> Base - 1]
    BY <1>10 DEF IsPlaced, l
  <2>2. m \in 1 .. l + 1 /\ m \in 1 .. Len(v)
    BY <1>1, <2>1
  <2>3. next[m] = start[m] /\ v[m] = w[m]
    BY <1>1, <1>5, <2>1, <2>2
  <2>4. \/ /\ x - next[m] \in 1 .. 4
           /\ b = [msg |-> m, at |-> "prefix",
                   value |-> Encode(WriterOrder, v[m])[x - next[m]]]
        \/ /\ x - next[m] - 4 \in 1 .. v[m]
           /\ b = [msg |-> m, at |-> "payload", value |-> Base - 1]
    BY <2>1, <2>3
  <2> QED BY <2>2, <2>4, Zenon DEF IsPlaced
<1>11. \A s, x : Follow(start, w, s, x) => Follow(next, v, s, x)
  BY <1>10 DEF Follow
<1> QED BY <1>4, <1>5, <1>9, <1>11 DEF l, v

\* writeMessage refuses the message or starts with its prefix (MessageChannel.hpp:67-77).
LEMMA WriteStep ==
  ASSUME ChannelInv, NEW n \in Sizes, WriteMessage(n)
  PROVE  ChannelInv'
<1> DEFINE l == Len(written)
<1>1. /\ writer = "idle" /\ written' = Append(written, n) /\ n \in Nat
      /\ IF ValidSize(n, WriterMax)
         THEN writer' = "prefix" /\ out' = PrefixOf(Len(written'), n)
         ELSE writer' = "threw" /\ out' = <<>>
      /\ UNCHANGED <<stream, reader, buffer, size, received>>
  BY SizeAssumption DEF WriteMessage, readerVars
<1>2. written \in Seq(Nat) /\ l \in Nat
  BY LenProperties DEF ChannelInv, ChannelTypes
<1>3. /\ written' \in Seq(Nat) /\ Len(written') = l + 1 /\ written'[l + 1] = n
      /\ \A i \in 1 .. l : written'[i] = written[i] /\ written[i] \in Nat
  BY <1>1, <1>2, AppendProperties, ElementOfSeq
<1>4. /\ Len(received) \in Nat /\ Len(received) <= l
      /\ \A i \in 1 .. Len(received) : received[i] = PayloadOf(i, written[i])
  BY LenProperties DEF ChannelInv, ChannelTypes, ReaderInv
<1>5. l + 1 \in Nat /\ Len(out') \in Nat /\ out' \in Seq(Byte)
      /\ (writer' = "prefix" => ValidSize(n, WriterMax) /\ Len(out') = 4)
      /\ (writer' = "threw" => ~ValidSize(n, WriterMax) /\ out' = <<>>)
      /\ writer' \in {"prefix", "threw"}
  <2>1. CASE ValidSize(n, WriterMax)
    <3>1. n \in UInt32
      BY <1>1, <2>1, LimitAssumption, BaseAssumption DEF ValidSize, UInt32
    <3>2. out' = PrefixOf(l + 1, n) /\ writer' = "prefix" /\ l + 1 \in Nat
      BY <1>1, <1>2, <1>3, <2>1
    <3> QED BY <1>1, <2>1, <3>1, <3>2, FrameContent
  <2>2. CASE ~ValidSize(n, WriterMax)
    BY <1>1, <1>2, <2>2
  <2> QED BY <2>1, <2>2
<1> HIDE DEF l
<1>6. ChannelTypes'
  BY <1>1, <1>3, <1>5 DEF ChannelInv, ChannelTypes
<1>7. WriterInv'
  <2>1. \A i \in 1 .. l + 1 : i \in 1 .. l \/ i = l + 1
    BY <1>2
  <2>2. \A i \in 1 .. l : ValidSize(written[i], WriterMax)
    BY <1>1 DEF ChannelInv, WriterInv, l
  <2>3. l + 1 > 0
    BY <1>2
  <2> QED BY <1>3, <1>5, <2>1, <2>2, <2>3 DEF WriterInv
<1>8. /\ Unread' = Unread /\ Unread \in 1 .. l + 1 /\ Unread <= Len(written')
      /\ \A i \in 1 .. Len(received) : i \in 1 .. l
  <2>1. \A a, c \in Nat : a <= c => a + 1 \in 1 .. c + 1 /\ \A i \in 1 .. a : i \in 1 .. c
    OBVIOUS
  <2>2. Unread \in 1 .. l + 1 /\ \A i \in 1 .. Len(received) : i \in 1 .. l
    BY <1>2, <1>4, <2>1 DEF Unread
  <2> QED BY <1>1, <1>2, <1>3, <2>2 DEF Unread
<1>9. ReaderInv'
  <2>1. Len(received)' <= Len(written)'
    BY <1>1, <1>2, <1>3, <1>4
  <2>2. (\A i \in 1 .. Len(received) : received[i] = PayloadOf(i, written[i]))'
    BY <1>1, <1>3, <1>4, <1>8 DEF PayloadOf
  <2>3. reader \in {"payload", "threw"} => Unread \in 1 .. l /\ written'[Unread] = written[Unread]
    BY <1>2, <1>3, <1>8 DEF ChannelInv, ReaderInv, l
  <2> QED BY <1>1, <1>8, <2>1, <2>2, <2>3 DEF ChannelInv, ReaderInv
<1>10. ASSUME Reading PROVE \E next \in Starts : Offsets(next, written') /\ Placed(next)'
  <2>1. PICK start \in Starts : Offsets(start, written) /\ Placed(start)
    BY <1>10 DEF ChannelInv
  <2>2. PICK next \in Starts :
          /\ Offsets(next, written')
          /\ \A i \in 1 .. l + 1 : next[i] = start[i]
          /\ \A s, x : Follow(start, written, s, x) => Follow(next, written', s, x)
    BY <1>1, <1>2, <2>1, OneMoreFrame DEF l
  <2> DEFINE x == Consumed(start)
             y == x + Len(buffer) + Len(stream)
  <2>3. Consumed(next)' = x /\ Needed' = Needed
    BY <1>1, <1>8, <2>2 DEF Consumed, Needed
  <2>4. /\ Len(buffer) <= Needed /\ Follow(next, written', buffer, x)
        /\ Follow(next, written', stream, x + Len(buffer))
    BY <2>1, <2>2 DEF Placed
  <2>5. y = start[l + 1] /\ y \in Nat
    <3>1. out = <<>> /\ Len(<<>>) = 0
      BY <1>1 DEF ChannelInv, WriterInv
    <3>2. y + 0 = start[l + 1]
      BY <1>1, <2>1, <3>1 DEF Placed, Produced, l
    <3>3. y \in Nat
      <4>1. x \in Nat /\ Len(buffer) \in Nat /\ Len(stream) \in Nat
        BY Counting
      <4> HIDE DEF x
      <4> QED BY <4>1
    <3> HIDE DEF x, y
    <3> QED BY <3>2, <3>3
  <2>6. next[l + 1] = start[l + 1] /\ l + 1 \in 1 .. Len(written')
    BY <1>2, <1>3, <2>2
  <2> HIDE DEF y
  <2>7. Follow(next, written', out', y) /\ y + Len(out') = Produced(next)'
    <3>1. CASE writer' = "prefix"
      <4>1. out' = PrefixOf(l + 1, n) /\ Len(out') = 4 /\ n \in UInt32
        BY <1>1, <1>3, <1>5, <3>1, LimitAssumption, BaseAssumption DEF ValidSize, UInt32
      <4>2. Follow(next, written', PrefixOf(l + 1, n), y)
        <5>1. next[l + 1] = y /\ next[l + 1] \in Nat /\ written'[l + 1] = n /\ n \in Nat
          BY <1>1, <1>3, <2>5, <2>6
        <5>2. Follow(next, written', PrefixOf(l + 1, written'[l + 1]), next[l + 1])
          BY <2>6, <4>1, <5>1, FramePlaces
        <5> QED BY <5>1, <5>2
      <4>3. Produced(next)' = y + 4
        BY <1>3, <2>5, <2>6, <3>1 DEF Produced
      <4> QED BY <4>1, <4>2, <4>3
    <3>2. CASE writer' = "threw"
      <4>1. out' = <<>> /\ Len(<<>>) = 0 /\ 1 .. 0 = {}
        BY <1>5, <3>2
      <4>2. Produced(next)' = y
        BY <1>3, <2>5, <2>6, <3>2 DEF Produced
      <4> QED BY <2>5, <4>1, <4>2 DEF Follow
    <3> QED BY <1>5, <3>1, <3>2
  <2>8. Placed(next)'
    BY <1>1, <2>3, <2>4, <2>7 DEF Placed, y
  <2> QED BY <2>2, <2>8
<1> QED BY <1>1, <1>6, <1>7, <1>9, <1>10 DEF ChannelInv, Reading

\* The payload follows the prefix (MessageChannel.hpp:77-78).
LEMMA PrefixWrittenStep ==
  ASSUME ChannelInv, PrefixWritten
  PROVE  ChannelInv'
<1> DEFINE l == Len(written)
           n == written[l]
<1>1. /\ writer = "prefix" /\ out = <<>> /\ writer' = "payload" /\ out' = PayloadOf(l, n)
      /\ UNCHANGED <<written, stream, reader, buffer, size, received>>
  BY DEF PrefixWritten, readerVars
<1>2. l \in Nat /\ l \in 1 .. l /\ n \in Nat
  <2>1. l \in Nat /\ l > 0
    BY <1>1, LenProperties DEF ChannelInv, ChannelTypes, WriterInv
  <2>2. l \in 1 .. l
    BY <2>1
  <2> QED BY <2>1, <2>2, ElementOfSeq DEF ChannelInv, ChannelTypes
<1>3. out' \in Seq(Byte) /\ Len(out') = n
  BY <1>1, <1>2, FrameContent
<1>4. ChannelTypes' /\ WriterInv' /\ ReaderInv'
  BY <1>1, <1>3 DEF ChannelInv, ChannelTypes, WriterInv, ReaderInv, Unread
<1>5. ASSUME NEW start \in Starts, Offsets(start, written), Placed(start) PROVE Placed(start)'
  <2> DEFINE y == Consumed(start) + Len(buffer) + Len(stream)
  <2>1. /\ start[l] \in Nat /\ start[l + 1] = start[l] + 4 + n
        /\ Consumed(start) \in Nat /\ Len(buffer) \in Nat /\ Len(stream) \in Nat
    BY <1>2, <1>5, Counting DEF Offsets, Starts
  <2>2. y = start[l] + 4
    <3>1. y + Len(out) = start[l] + 4
      BY <1>1, <1>5 DEF Placed, Produced
    <3>2. y \in Nat /\ Len(<<>>) = 0
      BY <2>1
    <3> HIDE DEF y
    <3> QED BY <1>1, <3>1, <3>2
  <2>3. Follow(start, written, PayloadOf(l, n), start[l] + 4)
    BY <1>2, <2>1, FramePlaces
  <2>4. /\ Consumed(start)' = Consumed(start) /\ Needed' = Needed
        /\ Produced(start)' = start[l + 1]
    BY <1>1 DEF Consumed, Needed, Produced, Unread
  <2>5. y + Len(out') = start[l + 1]
    BY <1>3, <2>1, <2>2
  <2>6. Follow(start, written, out', y)
    BY <1>1, <2>2, <2>3
  <2> QED BY <1>1, <1>5, <2>4, <2>5, <2>6 DEF Placed
<1> QED BY <1>1, <1>4, <1>5 DEF ChannelInv, Reading

\* writeMessage returns, or fails: no byte moves (MessageChannel.hpp:77-78).
LEMMA WriterEndsStep ==
  ASSUME ChannelInv, PayloadWritten \/ WriterBreaks
  PROVE  ChannelInv'
<1>1. /\ out' = <<>> /\ UNCHANGED <<written, stream, reader, buffer, size, received>>
      /\ \/ writer = "payload" /\ out = <<>> /\ writer' = "idle"
         \/ writer \in {"idle", "prefix", "payload"} /\ writer' = "broken"
  BY DEF PayloadWritten, WriterBreaks, readerVars
<1>2. ChannelTypes' /\ WriterInv' /\ ReaderInv'
  BY <1>1 DEF ChannelInv, ChannelTypes, WriterInv, ReaderInv, Unread
<1>3. ASSUME NEW start \in Starts, Placed(start) PROVE Placed(start)'
  <2>1. /\ Consumed(start)' = Consumed(start) /\ Needed' = Needed
        /\ writer' # "broken" => Produced(start)' = Produced(start) /\ out' = out /\ writer # "broken"
    BY <1>1 DEF Consumed, Needed, Produced, Unread
  <2>2. (Follow(start, written, out, Consumed(start) + Len(buffer) + Len(stream)))'
    BY <1>1 DEF Follow
  <2> QED BY <1>1, <1>3, <2>1, <2>2 DEF Placed
<1> QED BY <1>1, <1>2, <1>3 DEF ChannelInv, Reading

\* readMessage fails with the connection.
LEMMA ReaderBreaksStep ==
  ASSUME ChannelInv, ReaderBreaks
  PROVE  ChannelInv'
BY DEF ReaderBreaks, writerVars, ChannelInv, ChannelTypes, WriterInv, ReaderInv, Unread, Reading

\* The four bytes of a prefix decode to the size of the message, on whatever hosts; the
\* reader refuses what is above its own limit (MessageChannel.hpp:45-50).
LEMMA PrefixReadStep ==
  ASSUME ChannelInv, PrefixRead
  PROVE  ChannelInv'
<1> DEFINE n == Unread
<1>1. /\ reader = "prefix" /\ Len(buffer) = 4 /\ buffer' = <<>>
      /\ size' = Decode(ReaderOrder, [i \in 1 .. 4 |-> buffer[i].value])
      /\ reader' = IF ValidSize(size', ReaderMax) THEN "payload" ELSE "threw"
      /\ UNCHANGED <<written, writer, out, stream, received>>
  BY DEF PrefixRead, ReadComplete, Needed, writerVars
<1>2. PICK start \in Starts : Offsets(start, written) /\ Placed(start)
  BY <1>1 DEF ChannelInv, Reading
<1>3. /\ Len(written) \in Nat /\ n \in 1 .. Len(written) + 1 /\ start[n] \in Nat
      /\ Len(stream) \in Nat
  BY Counting
<1>4. ASSUME NEW i \in 1 .. 4
      PROVE  n <= Len(written) /\ buffer[i].value = Encode(WriterOrder, written[n])[i]
  <2>1. Reading /\ Len(buffer) \in Nat /\ Len(buffer) <= Needed
    BY <1>1 DEF Reading, Needed
  <2>2. Follow(start, written, buffer, Consumed(start))
    BY <1>2 DEF Placed
  <2>3. buffer[i] = [msg |-> n, at |-> "prefix", value |-> Encode(WriterOrder, written[n])[i]]
        /\ n <= Len(written)
    BY <1>1, <1>2, <2>1, <2>2, BytesOfFrame
  <2> QED BY <2>3
<1>5. n \in 1 .. Len(written) /\ written[n] \in Nat /\ n <= Len(written)
  <2>1. n <= Len(written)
    BY <1>4
  <2>2. n \in 1 .. Len(written)
    BY <1>3, <2>1
  <2> QED BY <2>1, <2>2, ElementOfSeq DEF ChannelInv, ChannelTypes
<1>6. ValidSize(written[n], WriterMax) /\ written[n] \in UInt32
  <2>1. ASSUME ~ValidSize(written[n], WriterMax) PROVE FALSE
    <3>1. n = Len(written) /\ writer = "threw" /\ out = <<>>
      BY <1>5, <2>1 DEF ChannelInv, WriterInv
    <3>2. start[n] + 0 + Len(buffer) + Len(stream) + Len(out) = start[n]
      BY <1>1, <1>2, <3>1 DEF Placed, Produced, Consumed
    <3>3. Len(out) = 0
      BY <3>1
    <3>4. \A a, c \in Nat : a + 0 + 4 + c + 0 # a
      OBVIOUS
    <3> QED BY <1>1, <1>3, <3>2, <3>3, <3>4
  <2>2. ValidSize(written[n], WriterMax)
    BY <2>1
  <2>3. WriterMax \in UInt32
    BY LimitAssumption
  <2> QED BY <1>5, <2>2, <2>3, BaseAssumption DEF ValidSize, UInt32
<1>7. size' = written[n]
  <2>1. {WriterOrder, ReaderOrder} \subseteq ByteOrders
    BY OrderAssumption
  <2>2. Encode(WriterOrder, written[n]) = [i \in 1 .. 4 |-> Encode(WriterOrder, written[n])[i]]
    BY <1>6, <2>1, PrefixBytes
  <2>3. [i \in 1 .. 4 |-> buffer[i].value] = [i \in 1 .. 4 |-> Encode(WriterOrder, written[n])[i]]
    BY <1>4
  <2>4. size' = Decode(ReaderOrder, Encode(WriterOrder, written[n]))
    BY <1>1, <2>2, <2>3
  <2> QED BY <1>6, <2>1, <2>4, DecodeInvertsEncode
<1>8. /\ \/ reader' = "payload" /\ size' \in 1 .. ReaderMax
         \/ reader' = "threw" /\ written[n] > ReaderMax
      /\ Len(buffer') = 0 /\ Unread' = n
  <2>1. ReaderMax \in Nat
    BY LimitAssumption, BaseAssumption DEF UInt32
  <2>2. IF ValidSize(size', ReaderMax) THEN size' \in 1 .. ReaderMax ELSE written[n] > ReaderMax
    BY <1>5, <1>6, <1>7, <2>1 DEF ValidSize
  <2> QED BY <1>1, <2>2 DEF Unread
<1>9. ChannelTypes' /\ WriterInv'
  BY <1>1, <1>5, <1>7, <1>8 DEF ChannelInv, ChannelTypes, WriterInv
<1>10. ReaderInv'
  <2>1. 1 .. 0 = {}
    OBVIOUS
  <2> QED BY <1>1, <1>5, <1>7, <1>8, <2>1 DEF ChannelInv, ReaderInv, Unread
<1>11. ASSUME reader' = "payload" PROVE Placed(start)'
  <2>1. Consumed(start) = start[n] + 0 /\ Consumed(start)' = start[n] + 4 /\ Needed' = written[n]
    BY <1>1, <1>7, <1>8, <1>11 DEF Consumed, Needed
  <2>2. /\ Follow(start, written, stream, start[n] + 0 + Len(buffer))
        /\ Follow(start, written, out, start[n] + 0 + Len(buffer) + Len(stream))
        /\ writer # "broken" => start[n] + 0 + Len(buffer) + Len(stream) + Len(out) = Produced(start)
    BY <1>2, <2>1 DEF Placed
  <2>3. start[n] + 0 + Len(buffer) = start[n] + 4 + Len(buffer')
    <3>1. \A a \in Nat : a + 0 + 4 = a + 4 + 0
      OBVIOUS
    <3> QED BY <1>1, <1>3, <1>8, <3>1
  <2>4. Produced(start)' = Produced(start) /\ 0 <= written[n] /\ 1 .. 0 = {}
    BY <1>1, <1>5 DEF Produced
  <2>5. Follow(start, written, buffer', start[n] + 4)
    BY <1>8, <2>4 DEF Follow
  <2> QED BY <1>1, <1>8, <2>1, <2>2, <2>3, <2>4, <2>5 DEF Placed
<1> QED BY <1>1, <1>2, <1>8, <1>9, <1>10, <1>11 DEF ChannelInv, Reading

\* The payload is complete: what readMessage returns is the one that was written
\* (MessageChannel.hpp:51-55).
LEMMA PayloadReadStep ==
  ASSUME ChannelInv, PayloadRead
  PROVE  ChannelInv'
<1> DEFINE n == Unread
<1>1. /\ reader = "payload" /\ Len(buffer) = size /\ buffer' = <<>> /\ reader' = "prefix"
      /\ received' = Append(received, buffer)
      /\ UNCHANGED <<written, writer, out, stream, size>>
  BY DEF PayloadRead, ReadComplete, Needed, writerVars
<1>2. PICK start \in Starts : Offsets(start, written) /\ Placed(start)
  BY <1>1 DEF ChannelInv, Reading
<1>3. /\ Len(written) \in Nat /\ n \in 1 .. Len(written) + 1 /\ start[n] \in Nat
      /\ Len(stream) \in Nat /\ Len(buffer) \in Nat /\ Len(received) \in Nat
  BY Counting
<1>4. n <= Len(written) /\ size = written[n] /\ n \in 1 .. Len(written) /\ n \in Nat
  <2>1. n <= Len(written) /\ size = written[n]
    BY <1>1 DEF ChannelInv, ReaderInv
  <2> QED BY <1>3, <2>1
<1>5. buffer = PayloadOf(n, written[n])
  <2>1. Reading /\ Len(buffer) <= Needed /\ Follow(start, written, buffer, Consumed(start))
    BY <1>1, <1>2 DEF Reading, Placed
  <2>2. \A i \in 1 .. Len(buffer) : buffer[i] = [msg |-> n, at |-> "payload", value |-> Base - 1]
    BY <1>1, <1>2, <1>3, <2>1, BytesOfFrame
  <2>3. buffer = [i \in 1 .. Len(buffer) |-> buffer[i]]
    BY LenProperties DEF ChannelInv, ChannelTypes
  <2>4. [i \in 1 .. Len(buffer) |-> buffer[i]] = PayloadOf(n, Len(buffer))
    BY <2>2 DEF PayloadOf
  <2> QED BY <1>1, <1>4, <2>3, <2>4
<1>6. /\ received' \in Seq(Seq(Byte)) /\ Len(received') = n /\ received'[n] = buffer
      /\ \A i \in 1 .. Len(received) : received'[i] = received[i]
      /\ Unread' = n + 1
  <2>1. received \in Seq(Seq(Byte)) /\ buffer \in Seq(Byte)
    BY DEF ChannelInv, ChannelTypes
  <2>2. /\ received' \in Seq(Seq(Byte)) /\ Len(received') = Len(received) + 1
        /\ received'[Len(received) + 1] = buffer
        /\ \A i \in 1 .. Len(received) : received'[i] = received[i]
    BY <1>1, <2>1, AppendProperties
  <2> QED BY <2>2 DEF Unread
<1>7. ChannelTypes' /\ WriterInv'
  BY <1>1, <1>6 DEF ChannelInv, ChannelTypes, WriterInv
<1>8. Len(buffer') = 0 /\ 1 .. 0 = {}
  BY <1>1
<1>9. ReaderInv'
  <2>1. \A i \in 1 .. n : i \in 1 .. Len(received) \/ i = n
    BY <1>3 DEF Unread
  <2>2. (\A i \in 1 .. Len(received) : received[i] = PayloadOf(i, written[i]))'
    BY <1>1, <1>5, <1>6, <2>1, ZenonT(40) DEF ChannelInv, ReaderInv, PayloadOf
  <2> QED BY <1>1, <1>4, <1>6, <1>8, <2>2 DEF ReaderInv
<1>10. Placed(start)'
  <2> DEFINE w == written[n]
  <2>1. start[n + 1] = start[n] + 4 + w /\ w \in Nat
    BY <1>1, <1>2, <1>3, <1>4 DEF Offsets
  <2>2. Consumed(start) = start[n] + 4 /\ Consumed(start)' = start[n + 1] + 0 /\ Needed' = 4
    BY <1>1, <1>6 DEF Consumed, Needed
  <2>3. /\ Follow(start, written, stream, start[n] + 4 + Len(buffer))
        /\ Follow(start, written, out, start[n] + 4 + Len(buffer) + Len(stream))
        /\ writer # "broken" => start[n] + 4 + Len(buffer) + Len(stream) + Len(out) = Produced(start)
    BY <1>2, <2>2 DEF Placed
  <2>4. start[n] + 4 + Len(buffer) = start[n + 1] + 0 + Len(buffer')
    <3>1. \A a \in Nat : a + 4 + w = (a + 4 + w) + 0 + 0
      BY <2>1
    <3> QED BY <1>1, <1>3, <1>4, <1>8, <2>1, <3>1
  <2>5. Produced(start)' = Produced(start)
    BY <1>1 DEF Produced
  <2>6. Follow(start, written, buffer', start[n + 1] + 0)
    BY <1>8 DEF Follow
  <2> QED BY <1>1, <1>8, <2>2, <2>3, <2>4, <2>5, <2>6 DEF Placed
<1> QED BY <1>1, <1>2, <1>7, <1>9, <1>10 DEF ChannelInv

-------------------------------------------------------------------------------

LEMMA ChannelStepKeeps == ChannelInv /\ [Next]_vars => ChannelInv'
<1> SUFFICES ASSUME ChannelInv, [Next]_vars PROVE ChannelInv'
  OBVIOUS
<1>1. CASE UNCHANGED vars
  <2>1. UNCHANGED <<written, writer, out, stream, reader, buffer, size, received>>
    BY <1>1 DEF vars, writerVars, readerVars
  <2>2. ChannelTypes' /\ WriterInv' /\ ReaderInv'
    BY <2>1 DEF ChannelInv, ChannelTypes, WriterInv, ReaderInv, Unread
  <2>3. ASSUME NEW start, Placed(start) PROVE Placed(start)'
    BY <2>1, <2>3 DEF Placed, Consumed, Produced, Needed, Unread
  <2> QED BY <2>1, <2>2, <2>3 DEF ChannelInv, Reading
<1> QED
  BY <1>1, WriteStep, PrefixWrittenStep, WriterEndsStep, PrefixReadStep, PayloadReadStep,
     SocketTakesStep, SocketGivesStep, ReaderBreaksStep DEF Next

\* ChannelInv is an inductive invariant of the two ends of a channel.
THEOREM ChannelInvariance == Spec => []ChannelInv
BY ChannelInitEstablishes, ChannelStepKeeps, PTL DEF Spec

\* However TCP cuts the stream, the reader returns the payloads that were written, whole,
\* in order and each once (MessageChannel.hpp:45-55, 77-78).
THEOREM ReadsWhatWasWritten == Spec => []ReaderInStep
<1>1. ChannelInv => ReaderInStep
  <2> SUFFICES ASSUME ChannelInv PROVE ReaderInStep
    OBVIOUS
  <2>1. DOMAIN received = 1 .. Len(received) /\ DOMAIN buffer = 1 .. Len(buffer)
    BY LenProperties DEF ChannelInv, ChannelTypes
  <2> QED BY <2>1 DEF ChannelInv, ReaderInv, ReaderInStep, Unread
<1> QED BY <1>1, ChannelInvariance, PTL

\* Each end refuses what is outside its own limit, and nothing else
\* (MessageChannel.hpp:69-74, MessageFrameCodec.hpp:75-86).
THEOREM EachKeepsItsLimit == Spec => []LimitsAreKept
<1>1. ChannelInv => LimitsAreKept
  <2> SUFFICES ASSUME ChannelInv PROVE LimitsAreKept
    OBVIOUS
  <2>1. WriterMax \in Nat /\ DOMAIN written = 1 .. Len(written)
    BY LimitAssumption, LenProperties, BaseAssumption DEF ChannelInv, ChannelTypes, UInt32
  <2>2. \A i \in DOMAIN written : ValidSize(written[i], WriterMax) <=> written[i] \in 1 .. WriterMax
    BY <2>1, ElementOfSeq DEF ChannelInv, ChannelTypes, ValidSize
  <2>3. \A i \in DOMAIN written :
          written[i] \in 1 .. WriterMax <=> ~(writer = "threw" /\ i = Len(written))
    BY <2>1, <2>2 DEF ChannelInv, WriterInv
  <2> QED BY <2>3 DEF ChannelInv, ReaderInv, LimitsAreKept, Unread
<1> QED BY <1>1, ChannelInvariance, PTL
===============================================================================
