------------------------------ MODULE Connection ------------------------------
(***************************************************************************)
(* One endpoint of s2d::network::Connection: the owner's posted calls, the *)
(* strand that serialises them, the read and write coroutines, the socket  *)
(* operations they suspend on, and the peer.                               *)
(*                                                                         *)
(* Every strand handler (a posted lambda, or a coroutine from one          *)
(* suspension to the next) is one action.  A socket operation is started   *)
(* by one action, completed by the network in a second one, and its result *)
(* is seen by the coroutine in a third, so a handler of another operation  *)
(* may run between the completion and the resumption.                      *)
(***************************************************************************)
EXTENDS Integers, Sequences, FiniteSets

CONSTANTS
  Writers,      \* frames a writeLoop coroutine may live in
  Reader,       \* the frame of the readLoop coroutine
  MaxQueued,    \* Config::maxQueuedMessages
  Unwritable,   \* messages whose serialised size is 0 or above maxMessageBytes
  Malformed,    \* peer frames that readMessage rejects
  MaxSends,     \* bound: calls of send()
  MaxStarts,    \* bound: calls of start()
  MaxStops,     \* bound: calls of stop()
  MaxFrames     \* bound: frames the peer sends

\* The constructor refuses a zero queue limit (Connection.hpp:140-143).
ASSUME QueueAssumption == MaxQueued \in Nat \ {0}

ASSUME CoroutineAssumption == Reader \notin Writers

ASSUME MessageAssumption == Unwritable \subseteq Nat /\ Malformed \subseteq Nat

ASSUME BoundAssumption == {MaxSends, MaxStarts, MaxStops, MaxFrames} \subseteq Nat

VARIABLES
  mailbox,      \* lambdas posted to m_strand and not yet run, in FIFO order
  calls,        \* how often each of send(), start() and stop() was called
  held,         \* the owner still holds its shared_ptr
  started,      \* m_started
  closed,       \* m_closed
  writing,      \* m_writing
  writeQueue,   \* m_writeQueue
  notified,     \* how often m_onClosed was invoked
  pc,           \* where each coroutine is suspended
  io,           \* the socket operation a coroutine waits for
  current,      \* the message a write coroutine took from the queue
  wire,         \* what the socket accepted: prefixes, payloads, torn pieces
  peerOpen,     \* the peer has not shut its side down
  peerSent,     \* frames the peer sent
  peerRead,     \* frames of them that readMessage consumed
  handled       \* messages given to m_onMessage

ownerVars  == <<calls, held>>
stateVars  == <<started, closed, writing, writeQueue, notified>>
coVars     == <<pc, io, current>>
peerVars   == <<peerOpen, peerSent>>
vars == <<mailbox, ownerVars, stateVars, coVars, wire, peerVars, peerRead, handled>>

Calls == {"start", "stop", "send"}

Coroutines == Writers \cup {Reader}

\* A suspended coroutine captured `self` and keeps the object alive.
Live(c) == pc[c] \notin {"idle", "ended"}

Alive == held \/ \E c \in Coroutines : Live(c)

Init ==
  /\ mailbox = <<>>
  /\ calls = [op \in Calls |-> 0]
  /\ held = TRUE
  /\ started = FALSE /\ closed = FALSE /\ writing = FALSE
  /\ writeQueue = <<>>
  /\ notified = 0
  /\ pc = [c \in Coroutines |-> "idle"]
  /\ io = [c \in Coroutines |-> "none"]
  /\ current = [w \in Writers |-> 0]
  /\ wire = <<>>
  /\ peerOpen = TRUE /\ peerSent = 0 /\ peerRead = 0
  /\ handled = 0

-------------------------------------------------------------------------------
(* The owner's calls: each one only posts to the strand.                   *)

Post(op, msg) ==
  /\ held
  /\ calls' = [calls EXCEPT ![op] = @ + 1]
  /\ mailbox' = Append(mailbox, [op |-> op, msg |-> msg])
  /\ UNCHANGED <<held, stateVars, coVars, wire, peerVars, peerRead, handled>>

Start == calls["start"] < MaxStarts /\ Post("start", 0)

Stop == calls["stop"] < MaxStops /\ Post("stop", 0)

\* Messages are numbered in the order of the calls of send().
Send == calls["send"] < MaxSends /\ Post("send", calls["send"] + 1)

\* The owner drops its shared_ptr, with or without a stop() before.
Release ==
  /\ held
  /\ held' = FALSE
  /\ UNCHANGED <<mailbox, calls, stateVars, coVars, wire, peerVars, peerRead, handled>>

-------------------------------------------------------------------------------
(* stopImpl.  `ops` are the pending operations once the caller's own has   *)
(* been consumed, `w` is m_writing at the call.                            *)
(*                                                                         *)
(* Some definitions are preceded by a faulty variant of them: the same     *)
(* code without one guard, reset or call.  No action uses a variant; each  *)
(* one breaks a property below, as README.md lists.                        *)

AbortNothing(ops) == ops

\* socket.cancel() and close() complete every pending operation with an error.
Abort(ops) ==
  [c \in Coroutines |-> IF ops[c] = "pending" THEN "error" ELSE ops[c]]

StopImplKeepsQueue(ops, w) ==
  /\ closed' = TRUE
  /\ writing' = FALSE
  /\ io' = Abort(ops)
  /\ notified' = IF closed THEN notified ELSE notified + 1
  /\ UNCHANGED writeQueue

StopImpl(ops, w) ==
  IF closed
  THEN io' = ops /\ writing' = w /\ UNCHANGED <<closed, writeQueue, notified>>
  ELSE /\ closed' = TRUE
       /\ writeQueue' = <<>>
       /\ writing' = FALSE
       /\ io' = Abort(ops)
       /\ notified' = notified + 1

-------------------------------------------------------------------------------
(* The strand runs the posted lambdas.                                     *)

Take(op) ==
  /\ mailbox # <<>> /\ Head(mailbox).op = op
  /\ mailbox' = Tail(mailbox)

\* weak.lock() fails: the lambda does nothing.
ExpiredJob ==
  /\ ~Alive
  /\ mailbox # <<>>
  /\ mailbox' = Tail(mailbox)
  /\ UNCHANGED <<ownerVars, stateVars, coVars, wire, peerVars, peerRead, handled>>

StartImpl ==
  /\ Alive /\ Take("start")
  /\ IF started \/ closed
     THEN UNCHANGED <<started, pc>>
     ELSE started' = TRUE /\ pc' = [pc EXCEPT ![Reader] = "spawned"]
  /\ UNCHANGED <<ownerVars, closed, writing, writeQueue, notified, io, current,
                 wire, peerVars, peerRead, handled>>

StopJob ==
  /\ Alive /\ Take("stop")
  /\ StopImpl(io, writing)
  /\ UNCHANGED <<ownerVars, started, pc, current, wire, peerVars, peerRead, handled>>

QueueFull == Len(writeQueue) >= MaxQueued

NeedsWriterAlways == TRUE

NeedsWriter == ~writing

SendIgnored ==
  /\ closed
  /\ UNCHANGED <<stateVars, coVars>>

SendOverflows ==
  /\ ~closed /\ QueueFull
  /\ StopImpl(io, writing)
  /\ UNCHANGED <<started, pc, current>>

SendQueues ==
  /\ ~closed /\ ~QueueFull
  /\ writeQueue' = Append(writeQueue, Head(mailbox).msg)
  /\ IF NeedsWriter
     THEN /\ writing' = TRUE
          /\ \E w \in Writers : pc[w] = "idle" /\ pc' = [pc EXCEPT ![w] = "spawned"]
     ELSE UNCHANGED <<writing, pc>>
  /\ UNCHANGED <<started, closed, notified, io, current>>

SendImpl ==
  /\ Alive /\ Take("send")
  /\ SendIgnored \/ SendOverflows \/ SendQueues
  /\ UNCHANGED <<ownerVars, wire, peerVars, peerRead, handled>>

-------------------------------------------------------------------------------
(* readLoop.  The two reads of readMessage (prefix, payload) change nothing *)
(* between them and are one operation.                                     *)

\* The test of the while loop, then readMessage up to its first suspension.
ReadLoopTop ==
  /\ pc' = [pc EXCEPT ![Reader] = IF closed THEN "ended" ELSE "reading"]
  /\ io' = [io EXCEPT ![Reader] = IF closed THEN "none" ELSE "pending"]
  /\ UNCHANGED <<stateVars, current>>

ReaderEnds == pc' = [pc EXCEPT ![Reader] = "ended"]

readerFrame == <<mailbox, ownerVars, wire, peerVars, peerRead>>

ReaderStarts ==
  /\ pc[Reader] = "spawned"
  /\ ReadLoopTop
  /\ UNCHANGED <<readerFrame, handled>>

\* An I/O error, a bad length prefix or a payload that does not parse.
ReadFailed ==
  /\ pc[Reader] = "reading"
  /\ io[Reader] = "error" \/ (io[Reader] = "ok" /\ peerRead \in Malformed)

ReadDone ==
  pc[Reader] = "reading" /\ io[Reader] = "ok" /\ peerRead \notin Malformed

ReaderFailsQuietly ==
  /\ ReadFailed
  /\ ReaderEnds
  /\ io' = [io EXCEPT ![Reader] = "none"]
  /\ UNCHANGED <<stateVars, current, readerFrame, handled>>

ReaderFails ==
  /\ ReadFailed
  /\ ReaderEnds
  /\ StopImpl([io EXCEPT ![Reader] = "none"], writing)
  /\ UNCHANGED <<started, current, readerFrame, handled>>

ReaderDrops ==
  /\ ReadDone /\ closed
  /\ ReaderEnds
  /\ io' = [io EXCEPT ![Reader] = "none"]
  /\ UNCHANGED <<stateVars, current, readerFrame, handled>>

ReaderHandlesUnchecked ==
  /\ ReadDone
  /\ pc' = [pc EXCEPT ![Reader] = "handling"]
  /\ io' = [io EXCEPT ![Reader] = "none"]
  /\ handled' = handled + 1
  /\ UNCHANGED <<stateVars, current, readerFrame>>

ReaderHandles ==
  /\ ReadDone /\ ~closed
  /\ pc' = [pc EXCEPT ![Reader] = "handling"]
  /\ io' = [io EXCEPT ![Reader] = "none"]
  /\ handled' = handled + 1
  /\ UNCHANGED <<stateVars, current, readerFrame>>

HandlerReturns ==
  /\ pc[Reader] = "handling"
  /\ ReadLoopTop
  /\ UNCHANGED <<readerFrame, handled>>

HandlerThrows ==
  /\ pc[Reader] = "handling"
  /\ ReaderEnds
  /\ StopImpl(io, writing)
  /\ UNCHANGED <<started, current, readerFrame, handled>>

-------------------------------------------------------------------------------
(* writeLoop.                                                              *)

writerFrame == <<mailbox, ownerVars, wire, peerVars, peerRead, handled>>

AtLoopTop(w) == pc[w] = "spawned" \/ (pc[w] = "data" /\ io[w] = "ok")

HasNext == ~closed /\ writeQueue # <<>>

NextMessageLast == writeQueue[Len(writeQueue)]

NextMessage == Head(writeQueue)

WriterSendsPrefix(w) ==
  /\ AtLoopTop(w) /\ HasNext
  /\ NextMessage \notin Unwritable
  /\ writeQueue' = Tail(writeQueue)
  /\ current' = [current EXCEPT ![w] = NextMessage]
  /\ pc' = [pc EXCEPT ![w] = "prefix"]
  /\ io' = [io EXCEPT ![w] = "pending"]
  /\ UNCHANGED <<started, closed, writing, notified, writerFrame>>

\* writeMessage throws before it writes anything.
WriterRejects(w) ==
  /\ AtLoopTop(w) /\ HasNext
  /\ NextMessage \in Unwritable
  /\ pc' = [pc EXCEPT ![w] = "idle"]
  /\ StopImpl([io EXCEPT ![w] = "none"], FALSE)
  /\ UNCHANGED <<started, current, writerFrame>>

\* A write on the socket that was closed meanwhile fails at once.
WriterSendsData(w) ==
  /\ pc[w] = "prefix" /\ io[w] = "ok"
  /\ pc' = [pc EXCEPT ![w] = "data"]
  /\ io' = [io EXCEPT ![w] = IF closed THEN "error" ELSE "pending"]
  /\ UNCHANGED <<stateVars, current, writerFrame>>

WriterFails(w) ==
  /\ pc[w] \in {"prefix", "data"} /\ io[w] = "error"
  /\ pc' = [pc EXCEPT ![w] = "idle"]
  /\ StopImpl([io EXCEPT ![w] = "none"], FALSE)
  /\ UNCHANGED <<started, current, writerFrame>>

WriterEndsStillWriting(w) ==
  /\ AtLoopTop(w) /\ ~HasNext
  /\ pc' = [pc EXCEPT ![w] = "idle"]
  /\ io' = [io EXCEPT ![w] = "none"]
  /\ UNCHANGED <<stateVars, current, writerFrame>>

WriterEnds(w) ==
  /\ AtLoopTop(w) /\ ~HasNext
  /\ pc' = [pc EXCEPT ![w] = "idle"]
  /\ io' = [io EXCEPT ![w] = "none"]
  /\ writing' = FALSE
  /\ UNCHANGED <<started, closed, writeQueue, notified, current, writerFrame>>

-------------------------------------------------------------------------------
(* The network completes operations and the peer acts.                     *)

ioFrame == <<mailbox, ownerVars, stateVars, pc, current, peerVars, handled>>

IoWrites(w) ==
  /\ io[w] = "pending"
  /\ io' = [io EXCEPT ![w] = "ok"]
  /\ wire' = Append(wire, [part |-> pc[w], msg |-> current[w]])
  /\ UNCHANGED <<ioFrame, peerRead>>

\* The connection breaks during the write, possibly after some of its bytes.
IoWriteBreaks(w) ==
  /\ io[w] = "pending"
  /\ io' = [io EXCEPT ![w] = "error"]
  /\ \/ wire' = Append(wire, [part |-> "torn", msg |-> current[w]])
     \/ UNCHANGED wire
  /\ UNCHANGED <<ioFrame, peerRead>>

IoReads ==
  /\ io[Reader] = "pending" /\ peerRead < peerSent
  /\ io' = [io EXCEPT ![Reader] = "ok"]
  /\ peerRead' = peerRead + 1
  /\ UNCHANGED <<ioFrame, wire>>

IoReadsEof ==
  /\ io[Reader] = "pending" /\ ~peerOpen /\ peerRead = peerSent
  /\ io' = [io EXCEPT ![Reader] = "error"]
  /\ UNCHANGED <<ioFrame, wire, peerRead>>

IoReadBreaks ==
  /\ io[Reader] = "pending"
  /\ io' = [io EXCEPT ![Reader] = "error"]
  /\ UNCHANGED <<ioFrame, wire, peerRead>>

PeerSends ==
  /\ peerOpen /\ peerSent < MaxFrames
  /\ peerSent' = peerSent + 1
  /\ UNCHANGED <<mailbox, ownerVars, stateVars, coVars, wire, peerOpen, peerRead, handled>>

PeerCloses ==
  /\ peerOpen /\ peerOpen' = FALSE
  /\ UNCHANGED <<mailbox, ownerVars, stateVars, coVars, wire, peerSent, peerRead, handled>>

-------------------------------------------------------------------------------

Owner == Start \/ Stop \/ Send \/ Release

Strand == ExpiredJob \/ StartImpl \/ StopJob \/ SendImpl

ReadLoop ==
  \/ ReaderStarts \/ ReaderFails \/ ReaderDrops \/ ReaderHandles
  \/ HandlerReturns \/ HandlerThrows

WriteLoop(w) ==
  \/ WriterSendsPrefix(w) \/ WriterRejects(w) \/ WriterSendsData(w)
  \/ WriterFails(w) \/ WriterEnds(w)

Network ==
  \/ IoReads \/ IoReadsEof \/ IoReadBreaks \/ PeerSends \/ PeerCloses
  \/ \E w \in Writers : IoWrites(w) \/ IoWriteBreaks(w)

Next == Owner \/ Strand \/ ReadLoop \/ (\E w \in Writers : WriteLoop(w)) \/ Network

Spec == Init /\ [][Next]_vars

\* The io_context runs every ready handler.  Reads complete when there is
\* something to read; nothing obliges the peer to accept what is written.
Fairness ==
  /\ WF_vars(Strand)
  /\ WF_vars(ReadLoop)
  /\ WF_vars(IoReads \/ IoReadsEof)
  /\ \A w \in Writers : WF_vars(WriteLoop(w))

FairSpec == Spec /\ Fairness

-------------------------------------------------------------------------------
(* Properties.                                                             *)

Job == [op : Calls, msg : Nat]

Piece == [part : {"prefix", "data", "torn"}, msg : Nat]

\* The types of the variables.
TypeOK ==
  /\ mailbox \in Seq(Job)
  /\ calls \in [Calls -> Nat]
  /\ held \in BOOLEAN /\ started \in BOOLEAN /\ closed \in BOOLEAN
  /\ writing \in BOOLEAN /\ peerOpen \in BOOLEAN
  /\ writeQueue \in Seq(Nat)
  /\ notified \in {0, 1}
  /\ peerSent \in Nat /\ peerRead \in Nat /\ handled \in Nat
  /\ pc \in [Coroutines -> {"idle", "spawned", "reading", "handling", "prefix",
                            "data", "ended"}]
  /\ io \in [Coroutines -> {"none", "pending", "ok", "error"}]
  /\ current \in [Writers -> Nat]
  /\ wire \in Seq(Piece)

\* m_writing guarantees that two writeLoop coroutines never run at the same
\* time (Connection.hpp:192-206, 253-273), also across a stop that resets the
\* flag while a coroutine is still suspended in a write.
SingleWriter == \A v, w \in Writers : Live(v) /\ Live(w) => v = w

\* sendImpl never lets m_writeQueue grow past m_maxQueuedMessages
\* (Connection.hpp:183-188).
QueueBounded == Len(writeQueue) <= MaxQueued

\* The close handler runs when the connection closes and never a second time,
\* whichever of stop(), a read error, a write error, an overflow and a throwing
\* handler comes first and whatever follows (Connection.hpp:276-313).
ClosedNotifiedOnce == notified = (IF closed THEN 1 ELSE 0)

\* A message accepted into the queue of an open connection always has a live
\* writeLoop that will take it: the loop clears m_writing in the same step in
\* which it finds the queue empty (Connection.hpp:192-206, 273).
NoStrandedMessage ==
  ~closed /\ writeQueue # <<>> => writing /\ \E w \in Writers : Live(w)

\* A closed connection keeps no outgoing message and no pending socket
\* operation: a later send() is ignored and a late writer finds nothing
\* (Connection.hpp:177-181, 283-290).
ClosedIsDrained ==
  closed => /\ writeQueue = <<>>
            /\ \A c \in Coroutines : io[c] # "pending"

\* The bytes on the wire are whole frames, prefix then payload of one message,
\* for messages in the order of the calls of send() without a gap; only the
\* last frame may be cut off (MessageChannel.hpp:77-78, Connection.hpp:253-258).
WireIsFramed ==
  \A i \in DOMAIN wire :
    /\ wire[i].part = "torn" => i = Len(wire)
    /\ wire[i].msg = (i + 1) \div 2
    /\ wire[i].part # "torn" => wire[i].part = IF i % 2 = 1 THEN "prefix" ELSE "data"

\* Closing is final: a closed connection never starts, queues, writes to the
\* wire or reopens, and gives no message to m_onMessage, even when its read
\* completed before the close and resumes after it (Connection.hpp:155, 177, 217, 278).
ClosedIsFinal ==
  [][closed => closed' /\ started' = started /\ wire' = wire
               /\ writeQueue' = writeQueue /\ handled' = handled]_vars

\* Every coroutine of a closed connection ends, so the object can be destroyed
\* (Connection.hpp:211, 217, 245, 253, 267: socket.close() aborts their reads and
\* writes).
ClosedLoopsEnd == closed ~> \A c \in Coroutines : ~Live(c)

\* A started connection whose peer has gone ends up closed, so the owner hears
\* about it (Connection.hpp:236-244).
PeerCloseIsNoticed == ~peerOpen /\ started ~> closed

-------------------------------------------------------------------------------
\* What the endpoint promises to its owner: a FIFO pipe that works until it
\* closes, once (see MessagePipe).  Every second piece is a payload (WireIsFramed).
Payloads == {i \in 1 .. Len(wire) : 2 * i <= Len(wire) /\ wire[2 * i].part = "data"}

Delivered == [i \in Payloads |-> wire[2 * i].msg]

Pipe == INSTANCE MessagePipe WITH
          sent <- calls["send"],
          delivered <- Delivered,
          open <- ~closed,
          notices <- notified

PipeSpec == Pipe!Spec
===============================================================================
