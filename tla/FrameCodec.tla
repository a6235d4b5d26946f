------------------------------ MODULE FrameCodec ------------------------------
(***************************************************************************)
(* MessageFrameCodec: the four-byte length prefix of a frame.  A uint32 in *)
(* memory is four bytes in the byte order of the host; the prefix is the   *)
(* big-endian one.  A definition whose name extends the next one's is a    *)
(* faulty variant of it that nothing uses.                                 *)
(***************************************************************************)
EXTENDS Integers, Sequences

CONSTANT Base    \* values of a byte

ASSUME BaseAssumption == Base \in Nat /\ Base > 1

Bytes == 0 .. Base - 1

Prefixes == Bytes \X Bytes \X Bytes \X Bytes

UInt32 == 0 .. Base * Base * Base * Base - 1

ByteOrders == {"little", "big"}

-------------------------------------------------------------------------------
(* std::bit_cast between a uint32 and its bytes in memory.                 *)

Reversed(p) == <<p[4], p[3], p[2], p[1]>>

Significant(p) == ((p[1] * Base + p[2]) * Base + p[3]) * Base + p[4]

MostSignificantFirst(n) ==
  <<((n \div Base) \div Base) \div Base, ((n \div Base) \div Base) % Base,
    (n \div Base) % Base, n % Base>>

InMemory(order, n) ==
  IF order = "big" THEN MostSignificantFirst(n) ELSE Reversed(MostSignificantFirst(n))

FromMemory(order, p) ==
  IF order = "big" THEN Significant(p) ELSE Significant(Reversed(p))

-------------------------------------------------------------------------------

Byteswap(n) == Significant(Reversed(MostSignificantFirst(n)))

HostToNetwork(order, n) == IF order = "little" THEN Byteswap(n) ELSE n

ValidSizeOrEmpty(n, max) == n <= max

\* validatePayloadSize throws otherwise.
ValidSize(n, max) == n > 0 /\ n <= max

\* encodeUncheckedLengthPrefix
Encode(order, n) == InMemory(order, HostToNetwork(order, n))

\* decodeLengthPrefix before its validation; networkToHost32 is hostToNetwork32.
Decode(order, p) == HostToNetwork(order, FromMemory(order, p))
===============================================================================
