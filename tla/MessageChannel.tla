---------------------------- MODULE MessageChannel ----------------------------
(***************************************************************************)
(* MessageChannel on both ends of one direction of a TCP connection:       *)
(* writeMessage puts a length prefix and a payload on the stream,          *)
(* readMessage takes them off.  TCP carries bytes, in pieces of any size;  *)
(* async_write and async_read go on until all of theirs are through.       *)
(*                                                                         *)
(* The two ends may run on hosts of different byte order and have limits   *)
(* of their own.  A message is its serialised size; its payload parses     *)
(* (one that does not is Malformed in Connection).  A definition whose     *)
(* name extends the next one's is a faulty variant that no action uses.    *)
(***************************************************************************)
EXTENDS FrameCodec

CONSTANTS
  WriterOrder, ReaderOrder,  \* byte orders of the two hosts
  WriterMax, ReaderMax,      \* max_message_size of the two ends
  Sizes,                     \* serialised sizes of the messages to be sent
  Window,                    \* bytes TCP holds between the two ends
  MaxMessages                \* bound: messages given to the writer

ASSUME OrderAssumption == {WriterOrder, ReaderOrder} \subseteq ByteOrders

\* Connection refuses a limit of zero (Connection.hpp:135-138).
ASSUME LimitAssumption == {WriterMax, ReaderMax} \subseteq UInt32 \ {0}

ASSUME SizeAssumption == Sizes \subseteq Nat /\ Window \in Nat \ {0} /\ MaxMessages \in Nat

VARIABLES
  written,    \* sizes of the messages given to writeMessage
  writer,     \* "idle", in the async_write of "prefix" or "payload", "threw", "broken"
  out,        \* bytes of that async_write the socket has not taken
  stream,     \* bytes on their way
  reader,     \* in the async_read of "prefix" or "payload", "threw", "broken"
  buffer,     \* bytes this async_read has
  size,       \* the decoded length, size of m_readBuffer
  received    \* payloads readMessage returned

writerVars == <<written, writer, out>>
readerVars == <<reader, buffer, size, received>>
vars == <<writerVars, stream, readerVars>>

Init ==
  /\ written = <<>> /\ writer = "idle" /\ out = <<>>
  /\ stream = <<>>
  /\ reader = "prefix" /\ buffer = <<>> /\ size = 0 /\ received = <<>>

\* A byte knows its message; the model of a payload byte has the largest value.
PrefixOf(msg, n) ==
  [i \in 1 .. 4 |-> [msg |-> msg, at |-> "prefix", value |-> Encode(WriterOrder, n)[i]]]

PayloadOf(msg, n) ==
  [i \in 1 .. n |-> [msg |-> msg, at |-> "payload", value |-> Base - 1]]

-------------------------------------------------------------------------------
(* writeMessage.                                                           *)

WriteMessage(n) ==
  /\ writer = "idle" /\ Len(written) < MaxMessages
  /\ written' = Append(written, n)
  /\ IF ValidSize(n, WriterMax)
     THEN writer' = "prefix" /\ out' = PrefixOf(Len(written'), n)
     ELSE writer' = "threw" /\ out' = <<>>
  /\ UNCHANGED <<stream, readerVars>>

PrefixWritten ==
  /\ writer = "prefix" /\ out = <<>>
  /\ writer' = "payload"
  /\ out' = PayloadOf(Len(written), written[Len(written)])
  /\ UNCHANGED <<written, stream, readerVars>>

PayloadWritten ==
  /\ writer = "payload" /\ out = <<>>
  /\ writer' = "idle"
  /\ UNCHANGED <<written, out, stream, readerVars>>

-------------------------------------------------------------------------------
(* readMessage, called again as soon as it has returned.                   *)

NeededWithPrefix == IF reader = "prefix" THEN 4 ELSE size + 4

Needed == IF reader = "prefix" THEN 4 ELSE size

ReadCompletePartly ==
  IF reader = "prefix" THEN Len(buffer) = Needed ELSE buffer # <<>>

ReadComplete == Len(buffer) = Needed

PrefixRead ==
  /\ reader = "prefix" /\ ReadComplete
  /\ size' = Decode(ReaderOrder, [i \in 1 .. 4 |-> buffer[i].value])
  /\ reader' = IF ValidSize(size', ReaderMax) THEN "payload" ELSE "threw"
  /\ buffer' = <<>>
  /\ UNCHANGED <<writerVars, stream, received>>

PayloadRead ==
  /\ reader = "payload" /\ ReadComplete
  /\ received' = Append(received, buffer)
  /\ reader' = "prefix"
  /\ buffer' = <<>>
  /\ UNCHANGED <<writerVars, stream, size>>

-------------------------------------------------------------------------------
(* TCP.                                                                    *)

SocketTakes ==
  \E k \in 1 .. Len(out) :
    /\ Len(stream) + k <= Window
    /\ stream' = stream \o SubSeq(out, 1, k)
    /\ out' = SubSeq(out, k + 1, Len(out))
    /\ UNCHANGED <<written, writer, readerVars>>

SocketGives ==
  /\ reader \in {"prefix", "payload"}
  /\ \E k \in 1 .. Len(stream) :
       /\ Len(buffer) + k <= Needed
       /\ buffer' = buffer \o SubSeq(stream, 1, k)
       /\ stream' = SubSeq(stream, k + 1, Len(stream))
       /\ UNCHANGED <<writerVars, reader, size, received>>

WriterBreaks ==
  /\ writer \in {"idle", "prefix", "payload"}
  /\ writer' = "broken" /\ out' = <<>>
  /\ UNCHANGED <<written, stream, readerVars>>

\* An end of file after the last byte, or an error that loses what is on its way.
ReaderBreaks ==
  /\ reader \in {"prefix", "payload"}
  /\ reader' = "broken"
  /\ UNCHANGED <<writerVars, stream, buffer, size, received>>

-------------------------------------------------------------------------------

Next ==
  \/ \E n \in Sizes : WriteMessage(n)
  \/ PrefixWritten \/ PayloadWritten \/ PrefixRead \/ PayloadRead
  \/ SocketTakes \/ SocketGives \/ WriterBreaks \/ ReaderBreaks

Spec == Init /\ [][Next]_vars

\* The io_contexts run their ready handlers and TCP carries what it was given.
Fairness ==
  /\ WF_vars(PrefixWritten \/ PayloadWritten)
  /\ WF_vars(PrefixRead \/ PayloadRead)
  /\ WF_vars(SocketTakes) /\ WF_vars(SocketGives)

FairSpec == Spec /\ Fairness

-------------------------------------------------------------------------------
(* Properties.                                                             *)

\* The reader stays in step with the frames however TCP cuts the stream: what it
\* returns are the payloads written, whole, in order and each once, and what it
\* takes for a length prefix is one (MessageChannel.hpp:45-55, 77-78).
ReaderInStep ==
  /\ Len(received) <= Len(written)
  /\ \A i \in DOMAIN received : received[i] = PayloadOf(i, written[i])
  /\ \A i \in DOMAIN buffer : buffer[i].at = reader \/ reader = "broken"
  /\ \A i \in DOMAIN buffer : buffer[i].msg = Len(received) + 1

\* Each end passes the messages within its own limit and no others: the writer throws
\* exactly for an empty message or one above its limit, the reader only for one above
\* the reader's, and makes no buffer for an empty message or one above that
\* (MessageChannel.hpp:45-55, 69-74, MessageFrameCodec.hpp:75-86).
LimitsAreKept ==
  /\ \A i \in DOMAIN written :
       written[i] \in 1 .. WriterMax <=> ~(writer = "threw" /\ i = Len(written))
  /\ reader = "threw" => written[Len(received) + 1] > ReaderMax
  /\ reader = "payload" => size \in 1 .. ReaderMax

\* Every message written is returned by the reader unless the connection breaks
\* or an end throws: the exact reads never wait for a byte that was not written,
\* with ever so small a window (MessageChannel.hpp:46, 51, 77-78).
EverythingArrives ==
  \A n \in 1 .. MaxMessages :
    Len(written) >= n ~>
      \/ Len(received) >= n
      \/ writer \in {"threw", "broken"} \/ reader \in {"threw", "broken"}
===============================================================================
