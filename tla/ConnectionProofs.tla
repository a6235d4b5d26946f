--------------------------- MODULE ConnectionProofs ---------------------------
(***************************************************************************)
(* Safety of Connection for any number of writer frames, any queue limit   *)
(* and any bounds; in the second half, that it implements MessagePipe.     *)
(***************************************************************************)
EXTENDS Connection, SequenceTheorems, TLAPS

\* m_writing tells whether a writeLoop coroutine is alive, as long as the
\* connection is open; afterwards it stays clear.
WritingIsAccurate ==
  IF closed THEN ~writing ELSE writing <=> \E w \in Writers : Live(w)

\* A queue with something in it is being written.
QueueIsServed == ~closed /\ writeQueue # <<>> => writing

\* Only a coroutine suspended in readMessage or writeMessage waits for I/O.
IoIsAwaited ==
  \A c \in Coroutines :
    io[c] # "none" => pc[c] \in (IF c = Reader THEN {"reading"} ELSE {"prefix", "data"})

\* The read coroutine does not exist before startImpl spawned it.
ReaderNeedsStart == started \/ pc[Reader] = "idle"

IInv ==
  /\ TypeOK
  /\ IoIsAwaited
  /\ ReaderNeedsStart
  /\ WritingIsAccurate
  /\ SingleWriter
  /\ QueueIsServed
  /\ QueueBounded
  /\ ClosedNotifiedOnce
  /\ ClosedIsDrained

Ops == [Coroutines -> {"none", "pending", "ok", "error"}]

\* What stopImpl leaves behind, whoever calls it.
LEMMA StopImplEffect ==
  ASSUME TypeOK, ClosedNotifiedOnce, ClosedIsDrained,
         NEW ops \in Ops, NEW w \in BOOLEAN,
         closed => ~w, closed => \A c \in Coroutines : ops[c] # "pending",
         StopImpl(ops, w)
  PROVE  /\ closed' = TRUE /\ writing' = FALSE /\ writeQueue' = <<>>
         /\ io' \in Ops
         /\ \A c \in Coroutines : io'[c] # "pending"
         /\ notified' = 1
<1>1. CASE closed
  BY <1>1 DEF StopImpl, TypeOK, ClosedNotifiedOnce, ClosedIsDrained
<1>2. CASE ~closed
  <2>1. io' = Abort(ops) /\ notified' = notified + 1 /\ notified = 0
    BY <1>2 DEF StopImpl, TypeOK, ClosedNotifiedOnce
  <2>2. Abort(ops) \in Ops /\ \A c \in Coroutines : Abort(ops)[c] # "pending"
    BY DEF Abort, Ops
  <2>3. QED BY <1>2, <2>1, <2>2 DEF StopImpl, TypeOK
<1>3. QED BY <1>1, <1>2

\* The consequences of a step that runs stopImpl, lets no coroutine start and
\* leaves everything else as it was.
LEMMA StopStep ==
  ASSUME IInv,
         NEW ops \in Ops, NEW w \in BOOLEAN,
         closed => ~w, closed => \A c \in Coroutines : ops[c] # "pending",
         StopImpl(ops, w),
         TypeOK', IoIsAwaited', ReaderNeedsStart',
         \A v \in Writers : Live(v)' => Live(v)
  PROVE  IInv'
<1>1. /\ closed' = TRUE /\ writing' = FALSE /\ writeQueue' = <<>>
      /\ \A c \in Coroutines : io'[c] # "pending"
      /\ notified' = 1
  BY StopImplEffect DEF IInv
<1>2. SingleWriter'
  BY DEF IInv, SingleWriter
<1>3. QueueBounded'
  BY <1>1, QueueAssumption DEF QueueBounded
<1>4. QED
  BY <1>1, <1>2, <1>3 DEF IInv, WritingIsAccurate, QueueIsServed,
     ClosedNotifiedOnce, ClosedIsDrained

\* A new connection is open, has no coroutine and queues nothing
\* (Connection.hpp:334-351).
LEMMA InitEstablishes == Init => IInv
<1> SUFFICES ASSUME Init PROVE IInv
  OBVIOUS
<1>1. TypeOK
  <2>1. mailbox \in Seq(Job) /\ wire \in Seq(Piece)
    BY DEF Init
  <2>2. calls \in [Calls -> Nat]
    BY DEF Init
  <2>3. pc \in [Coroutines -> {"idle", "spawned", "reading", "handling", "prefix",
                               "data", "ended"}]
    BY DEF Init
  <2>4. io \in [Coroutines -> {"none", "pending", "ok", "error"}]
    BY DEF Init
  <2>5. current \in [Writers -> Nat] /\ writeQueue \in Seq(Nat)
    BY DEF Init
  <2>6. QED
    BY <2>1, <2>2, <2>3, <2>4, <2>5 DEF Init, TypeOK
<1>2. \A c \in Coroutines : pc[c] = "idle" /\ io[c] = "none"
  BY DEF Init
<1>3. SingleWriter /\ WritingIsAccurate
  BY <1>2 DEF Init, SingleWriter, WritingIsAccurate, Live, Coroutines
<1>4. IoIsAwaited /\ ReaderNeedsStart
  BY <1>2 DEF IoIsAwaited, ReaderNeedsStart, Coroutines
<1>5. QED
  BY <1>1, <1>2, <1>3, <1>4, QueueAssumption DEF IInv, Init, QueueIsServed, QueueBounded,
     ClosedNotifiedOnce, ClosedIsDrained

-------------------------------------------------------------------------------
(* Steps that leave the connection's own state alone, and with it the set  *)
(* of write coroutines.                                                    *)

\* A step that keeps the connection's own state and the set of live writers, and
\* leaves no operation pending on a closed socket, preserves the invariant.
LEMMA QuietStep ==
  ASSUME IInv, TypeOK', IoIsAwaited', ReaderNeedsStart',
         UNCHANGED <<closed, writing, writeQueue, notified>>,
         \A v \in Writers : Live(v)' <=> Live(v),
         closed => \A c \in Coroutines : io'[c] # "pending"
  PROVE  IInv'
<1>1. SingleWriter' /\ WritingIsAccurate'
  BY DEF IInv, SingleWriter, WritingIsAccurate
<1>2. QED
  BY <1>1 DEF IInv, QueueIsServed, QueueBounded, ClosedNotifiedOnce, ClosedIsDrained

\* Calls of the owner change the mailbox and the owner's books only.
LEMMA OwnerStep == ASSUME IInv, Owner PROVE IInv'
<1>1. ASSUME NEW op \in Calls, NEW msg \in Nat, Post(op, msg) PROVE IInv'
  <2>1. [op |-> op, msg |-> msg] \in Job
    BY DEF Job
  <2>2. mailbox' \in Seq(Job)
    BY <1>1, <2>1 DEF Post, IInv, TypeOK
  <2>3. calls' \in [Calls -> Nat]
    BY <1>1 DEF Post, IInv, TypeOK
  <2>4. TypeOK'
    BY <1>1, <2>2, <2>3 DEF Post, IInv, TypeOK, stateVars, coVars, peerVars
  <2>5. QED
    BY <1>1, <2>4, QuietStep DEF Post, stateVars, coVars, Live, IInv, ClosedIsDrained,
       IoIsAwaited, ReaderNeedsStart
<1>2. calls["send"] + 1 \in Nat
  BY DEF IInv, TypeOK, Calls
<1>3. CASE Start \/ Stop \/ Send
  BY <1>1, <1>2, <1>3 DEF Start, Stop, Send, Calls
<1>4. CASE Release
  <2>1. TypeOK'
    BY <1>4 DEF Release, IInv, TypeOK, stateVars, coVars, peerVars
  <2>2. QED
    BY <1>4, <2>1, QuietStep DEF Release, stateVars, coVars, Live, IInv, ClosedIsDrained,
       IoIsAwaited, ReaderNeedsStart
<1>5. QED
  BY <1>3, <1>4 DEF Owner

\* The mailbox stays well typed when its head is taken.
LEMMA TailType ==
  ASSUME IInv, mailbox # <<>>
  PROVE  Tail(mailbox) \in Seq(Job) /\ Head(mailbox).msg \in Nat
<1>1. mailbox \in Seq(Job)
  BY DEF IInv, TypeOK
<1>2. Tail(mailbox) \in Seq(Job) /\ Head(mailbox) \in Job
  BY <1>1, HeadTailProperties
<1>3. QED
  BY <1>2 DEF Job

\* The network and the peer complete operations; they never start one.
LEMMA NetworkStep == ASSUME IInv, Network PROVE IInv'
<1> USE DEF ioFrame, stateVars, ownerVars, peerVars, coVars
<1>1. ASSUME NEW w \in Writers, IoWrites(w) \/ IoWriteBreaks(w) PROVE IInv'
  <2>1. pc[w] \in {"prefix", "data"} /\ current[w] \in Nat
    BY <1>1, CoroutineAssumption
    DEF IoWrites, IoWriteBreaks, IInv, IoIsAwaited, TypeOK, Coroutines
  <2>2. wire' \in Seq(Piece)
    <3>1. [part |-> pc[w], msg |-> current[w]] \in Piece
          /\ [part |-> "torn", msg |-> current[w]] \in Piece
      BY <2>1 DEF Piece
    <3>2. wire' = wire \/ \E p \in Piece : wire' = Append(wire, p)
      BY <1>1, <3>1, Zenon DEF IoWrites, IoWriteBreaks
    <3>3. wire \in Seq(Piece)
      BY DEF IInv, TypeOK
    <3>4. QED
      BY <3>2, <3>3, AppendProperties
  <2>3. /\ io' \in Ops
        /\ \A c \in Coroutines : io'[c] = "pending" => io[c] = "pending"
        /\ \A c \in Coroutines : io'[c] # "none" => io[c] # "none"
    BY <1>1 DEF IoWrites, IoWriteBreaks, IInv, TypeOK, Ops, Coroutines
  <2>4. TypeOK'
    BY <1>1, <2>2, <2>3 DEF IoWrites, IoWriteBreaks, IInv, TypeOK, Ops
  <2>5. QED
    BY <1>1, <2>3, <2>4, QuietStep
    DEF IoWrites, IoWriteBreaks, IInv, ClosedIsDrained, IoIsAwaited,
        ReaderNeedsStart, Live
<1>2. CASE IoReads \/ IoReadsEof \/ IoReadBreaks
  <2>0. peerRead' \in Nat
    BY <1>2 DEF IoReads, IoReadsEof, IoReadBreaks, IInv, TypeOK
  <2>1. /\ io' \in Ops
        /\ \A c \in Coroutines : io'[c] = "pending" => io[c] = "pending"
        /\ \A c \in Coroutines : io'[c] # "none" => io[c] # "none"
    BY <1>2 DEF IoReads, IoReadsEof, IoReadBreaks, IInv, TypeOK, Ops, Coroutines
  <2>2. TypeOK'
    BY <1>2, <2>0, <2>1 DEF IoReads, IoReadsEof, IoReadBreaks, IInv, TypeOK, Ops
  <2>3. QED
    BY <1>2, <2>1, <2>2, QuietStep
    DEF IoReads, IoReadsEof, IoReadBreaks, IInv, ClosedIsDrained, IoIsAwaited,
        ReaderNeedsStart, Live
<1>3. CASE PeerSends
  <2>1. peerSent' \in Nat
    BY <1>3 DEF PeerSends, IInv, TypeOK
  <2>2. TypeOK'
    BY <1>3, <2>1 DEF PeerSends, IInv, TypeOK
  <2>3. QED
    BY <1>3, <2>2, QuietStep DEF PeerSends, IInv, ClosedIsDrained, IoIsAwaited,
        ReaderNeedsStart, Live
<1>4. CASE PeerCloses
  <2>1. TypeOK'
    BY <1>4 DEF PeerCloses, IInv, TypeOK
  <2>2. QED
    BY <1>4, <2>1, QuietStep DEF PeerCloses, IInv, ClosedIsDrained, IoIsAwaited,
        ReaderNeedsStart, Live
<1>5. QED
  BY <1>1, <1>2, <1>3, <1>4 DEF Network

-------------------------------------------------------------------------------
(* The lambdas posted to the strand.                                       *)

\* A lambda whose connection is gone does nothing (Connection.hpp:68, 84, 103).
LEMMA ExpiredJobStep == ASSUME IInv, ExpiredJob PROVE IInv'
<1> USE DEF ExpiredJob, ownerVars, stateVars, coVars, peerVars
<1>1. TypeOK'
  BY TailType DEF IInv, TypeOK
<1>2. QED
  BY <1>1, QuietStep DEF IInv, ClosedIsDrained, IoIsAwaited, ReaderNeedsStart, Live

\* startImpl spawns the read coroutine of an open connection once
\* (Connection.hpp:147-173).
LEMMA StartStep == ASSUME IInv, StartImpl PROVE IInv'
<1> USE DEF StartImpl, Take, ownerVars, peerVars
<1>1. CASE started \/ closed
  <2>1. TypeOK'
    BY <1>1, TailType DEF IInv, TypeOK
  <2>2. QED
    BY <1>1, <2>1, QuietStep DEF IInv, ClosedIsDrained, IoIsAwaited, ReaderNeedsStart,
       Live
<1>2. CASE ~started /\ ~closed
  <2>1. /\ started' = TRUE /\ pc' = [pc EXCEPT ![Reader] = "spawned"]
        /\ mailbox' \in Seq(Job)
    BY <1>2, TailType
  <2>2. pc' \in [Coroutines -> {"idle", "spawned", "reading", "handling", "prefix",
                                "data", "ended"}]
    BY <2>1 DEF IInv, TypeOK
  <2>3. TypeOK'
    BY <2>1, <2>2 DEF IInv, TypeOK
  <2>4. Reader \in Coroutines /\ io[Reader] = "none"
    BY <1>2 DEF IInv, ReaderNeedsStart, IoIsAwaited, Coroutines
  <2>5. \A c \in Coroutines \ {Reader} : pc'[c] = pc[c]
    BY <2>1 DEF IInv, TypeOK
  <2>6. IoIsAwaited'
    BY <2>4, <2>5 DEF IInv, IoIsAwaited
  <2>7. \A v \in Writers : Live(v)' <=> Live(v)
    BY <2>5, CoroutineAssumption DEF Live, Coroutines
  <2>8. QED
    BY <1>2, <2>1, <2>3, <2>6, <2>7, QuietStep DEF ReaderNeedsStart
<1>3. QED
  BY <1>1, <1>2

\* The typing of a step that runs stopImpl.
LEMMA StopStepType ==
  ASSUME IInv,
         NEW ops \in Ops, NEW w \in BOOLEAN,
         closed => ~w, closed => \A c \in Coroutines : ops[c] # "pending",
         StopImpl(ops, w),
         mailbox' \in Seq(Job),
         pc' \in [Coroutines -> {"idle", "spawned", "reading", "handling", "prefix",
                                 "data", "ended"}],
         UNCHANGED <<calls, held, started, current, wire, peerOpen, peerSent, peerRead,
                     handled>>
  PROVE  TypeOK'
<1>1. /\ closed' = TRUE /\ writing' = FALSE /\ writeQueue' = <<>>
      /\ io' \in Ops /\ notified' = 1
  BY StopImplEffect DEF IInv
<1>2. writeQueue' \in Seq(Nat)
  BY <1>1
<1>3. QED
  BY <1>1, <1>2 DEF IInv, TypeOK, Ops

\* stopImpl only turns pending operations into failed ones.
LEMMA StopImplIo ==
  ASSUME NEW ops \in Ops, NEW w \in BOOLEAN, StopImpl(ops, w)
  PROVE  \A c \in Coroutines : io'[c] # "none" => ops[c] # "none"
<1>1. io' = ops \/ io' = Abort(ops)
  BY DEF StopImpl
<1>2. QED
  BY <1>1 DEF Abort

\* A posted stop() closes the connection (Connection.hpp:75-94).
LEMMA StopJobStep == ASSUME IInv, StopJob PROVE IInv'
<1> USE DEF StopJob, Take, ownerVars, peerVars
<1>1. io \in Ops /\ writing \in BOOLEAN /\ (closed => ~writing)
      /\ (closed => \A c \in Coroutines : io[c] # "pending")
  BY DEF IInv, TypeOK, Ops, WritingIsAccurate, ClosedIsDrained
<1>2. TypeOK'
  BY <1>1, StopStepType, TailType DEF IInv, TypeOK
<1>3. IoIsAwaited' /\ ReaderNeedsStart'
  BY <1>1, StopImplIo DEF IInv, IoIsAwaited, ReaderNeedsStart
<1>4. QED
  BY <1>1, <1>2, <1>3, StopStep DEF Live

\* sendImpl ignores the message, overflows, or queues it and spawns the writer only
\* when none is alive (Connection.hpp:175-207).
LEMMA SendStep == ASSUME IInv, SendImpl PROVE IInv'
<1> USE DEF SendImpl, Take, ownerVars, peerVars, stateVars, coVars
<1>1. mailbox' \in Seq(Job) /\ Head(mailbox).msg \in Nat
  BY TailType
<1>2. CASE SendIgnored
  <2>1. TypeOK'
    BY <1>1, <1>2 DEF SendIgnored, IInv, TypeOK
  <2>2. QED
    BY <1>2, <2>1, QuietStep DEF SendIgnored, IInv, ClosedIsDrained, IoIsAwaited,
       ReaderNeedsStart, Live
<1>3. CASE SendOverflows
  <2> USE DEF SendOverflows
  <2>1. io \in Ops /\ writing \in BOOLEAN /\ (closed => ~writing)
        /\ (closed => \A c \in Coroutines : io[c] # "pending")
    BY DEF IInv, TypeOK, Ops, WritingIsAccurate, ClosedIsDrained
  <2>2. TypeOK'
    BY <1>1, <1>3, <2>1, StopStepType DEF IInv, TypeOK
  <2>3. IoIsAwaited' /\ ReaderNeedsStart'
    BY <1>3, <2>1, StopImplIo DEF IInv, IoIsAwaited, ReaderNeedsStart
  <2>4. QED
    BY <1>3, <2>1, <2>2, <2>3, StopStep DEF Live
<1>4. CASE SendQueues
  <2>1. /\ ~closed /\ ~closed' /\ ~QueueFull
        /\ writeQueue' = Append(writeQueue, Head(mailbox).msg)
        /\ UNCHANGED <<calls, held, wire, peerOpen, peerSent, peerRead, handled, started,
                       closed, notified, io, current>>
    BY <1>4 DEF SendQueues
  <2>2. writeQueue \in Seq(Nat)
    BY DEF IInv, TypeOK
  <2>3. writeQueue' \in Seq(Nat) /\ Len(writeQueue') = Len(writeQueue) + 1
    BY <1>1, <2>1, <2>2, AppendProperties
  <2>4. QueueBounded'
    BY <2>1, <2>2, <2>3, QueueAssumption DEF QueueFull, QueueBounded
  <2>5. CASE writing
    <3>1. writing' = writing /\ pc' = pc
      BY <1>4, <2>5 DEF SendQueues, NeedsWriter
    <3>2. TypeOK'
      BY <1>1, <2>1, <2>3, <3>1 DEF IInv, TypeOK
    <3>3. QED
      BY <2>1, <2>4, <2>5, <3>1, <3>2
      DEF IInv, IoIsAwaited, ReaderNeedsStart, WritingIsAccurate, SingleWriter, Live,
          QueueIsServed, ClosedNotifiedOnce, ClosedIsDrained
  <2>6. CASE ~writing
    <3>1. PICK w \in Writers : pc[w] = "idle" /\ pc' = [pc EXCEPT ![w] = "spawned"]
      BY <1>4, <2>6 DEF SendQueues, NeedsWriter
    <3>2. writing' = TRUE
      BY <1>4, <2>6 DEF SendQueues, NeedsWriter
    <3>3. /\ pc'[w] = "spawned"
          /\ \A c \in Coroutines \ {w} : pc'[c] = pc[c]
          /\ pc' \in [Coroutines -> {"idle", "spawned", "reading", "handling", "prefix",
                                     "data", "ended"}]
      BY <3>1 DEF IInv, TypeOK, Coroutines
    <3>4. TypeOK'
      BY <1>1, <2>1, <2>3, <3>2, <3>3 DEF IInv, TypeOK
    <3>5. \A v \in Writers : ~Live(v)
      BY <2>1, <2>6 DEF IInv, WritingIsAccurate
    <3>6. \A v \in Writers : Live(v)' <=> v = w
      BY <3>3, <3>5 DEF Live, Coroutines
    <3>7. IoIsAwaited' /\ ReaderNeedsStart'
      BY <2>1, <3>1, <3>3, CoroutineAssumption
      DEF IInv, IoIsAwaited, ReaderNeedsStart, Coroutines
    <3>8. QED
      BY <2>1, <2>4, <3>2, <3>4, <3>6, <3>7
      DEF IInv, WritingIsAccurate, SingleWriter, QueueIsServed, ClosedNotifiedOnce,
          ClosedIsDrained
  <2>7. QED
    BY <2>5, <2>6 DEF IInv, TypeOK
<1>5. QED
  BY <1>2, <1>3, <1>4

\* Every lambda the strand runs preserves the invariant.
LEMMA StrandStep == ASSUME IInv, Strand PROVE IInv'
BY ExpiredJobStep, StartStep, StopJobStep, SendStep DEF Strand

-------------------------------------------------------------------------------
(* readLoop.                                                               *)

Pcs == {"idle", "spawned", "reading", "handling", "prefix", "data", "ended"}

\* A step of the read coroutine concerns no write coroutine.
LEMMA ReaderFrame ==
  ASSUME IInv, NEW p \in Pcs, pc' = [pc EXCEPT ![Reader] = p]
  PROVE  /\ pc' \in [Coroutines -> Pcs] /\ pc'[Reader] = p
         /\ \A w \in Writers : pc'[w] = pc[w] /\ (Live(w)' <=> Live(w))
<1>1. pc \in [Coroutines -> Pcs]
  BY DEF IInv, TypeOK, Pcs
<1>2. QED
  BY <1>1, CoroutineAssumption DEF Coroutines, Live

\* The steps in which the read coroutine goes on without stopping anything.
LEMMA ReaderQuietStep ==
  ASSUME IInv, NEW p \in Pcs, NEW o \in {"none", "pending"},
         pc[Reader] # "idle",
         o = "pending" => ~closed /\ p = "reading",
         pc' = [pc EXCEPT ![Reader] = p],
         io' = [io EXCEPT ![Reader] = o],
         handled' \in Nat,
         UNCHANGED <<stateVars, current, readerFrame>>
  PROVE  IInv'
<1> USE DEF stateVars, readerFrame, ownerVars, peerVars
<1>1. /\ pc' \in [Coroutines -> Pcs] /\ pc'[Reader] = p
      /\ \A w \in Writers : pc'[w] = pc[w] /\ (Live(w)' <=> Live(w))
  BY ReaderFrame
<1>2. /\ io' \in Ops /\ io'[Reader] = o
      /\ \A w \in Writers : io'[w] = io[w]
  <2>1. io \in Ops
    BY DEF IInv, TypeOK, Ops
  <2>2. QED
    BY <2>1, CoroutineAssumption DEF Ops, Coroutines
<1>3. TypeOK'
  BY <1>1, <1>2 DEF IInv, TypeOK, Ops, Pcs
<1>4. IoIsAwaited'
  BY <1>1, <1>2 DEF IInv, IoIsAwaited, Coroutines
<1>5. ReaderNeedsStart'
  BY DEF IInv, ReaderNeedsStart
<1>6. closed => \A c \in Coroutines : io'[c] # "pending"
  BY <1>2 DEF IInv, ClosedIsDrained, Coroutines
<1>7. QED
  BY <1>1, <1>3, <1>4, <1>5, <1>6, QuietStep

\* The steps in which the read coroutine stops the connection and ends.
LEMMA ReaderStopStep ==
  ASSUME IInv, pc[Reader] # "idle", ReaderEnds,
         StopImpl([io EXCEPT ![Reader] = "none"], writing),
         UNCHANGED <<started, current, readerFrame, handled>>
  PROVE  IInv'
<1> USE DEF ReaderEnds, readerFrame, ownerVars, peerVars
<1> DEFINE ops == [io EXCEPT ![Reader] = "none"]
<1>1. io \in Ops
  BY DEF IInv, TypeOK, Ops
<1>2. ops \in Ops /\ ops[Reader] = "none" /\ \A w \in Writers : ops[w] = io[w]
  BY <1>1, CoroutineAssumption DEF Ops, Coroutines
<1>3. writing \in BOOLEAN /\ (closed => ~writing)
  BY DEF IInv, TypeOK, WritingIsAccurate
<1>4. closed => \A c \in Coroutines : ops[c] # "pending"
  BY <1>2 DEF IInv, ClosedIsDrained, Coroutines
<1>5. /\ pc' \in [Coroutines -> Pcs] /\ pc'[Reader] = "ended"
      /\ \A w \in Writers : pc'[w] = pc[w] /\ (Live(w)' <=> Live(w))
  BY ReaderFrame DEF Pcs
<1> HIDE DEF ops
<1>6. StopImpl(ops, writing)
  BY DEF ops
<1>7. TypeOK'
  <2>1. mailbox' \in Seq(Job)
    BY DEF IInv, TypeOK
  <2>2. QED
    BY <1>2, <1>3, <1>4, <1>5, <1>6, <2>1, StopStepType DEF Pcs
<1>8. IoIsAwaited'
  <2>1. \A c \in Coroutines : io'[c] # "none" => ops[c] # "none"
    BY <1>2, <1>3, <1>6, StopImplIo
  <2>2. QED
    BY <1>2, <1>5, <2>1 DEF IInv, IoIsAwaited, Coroutines
<1>9. ReaderNeedsStart'
  BY DEF IInv, ReaderNeedsStart
<1>10. QED
  BY <1>2, <1>3, <1>4, <1>5, <1>6, <1>7, <1>8, <1>9, StopStep

\* Every step of readLoop preserves the invariant (Connection.hpp:209-246).
LEMMA ReadLoopStep == ASSUME IInv, ReadLoop PROVE IInv'
<1>1. handled \in Nat /\ handled + 1 \in Nat
  BY DEF IInv, TypeOK
<1>2. CASE ReaderStarts \/ HandlerReturns
  <2>1. ReadLoopTop /\ pc[Reader] # "idle" /\ UNCHANGED <<readerFrame, handled>>
    BY <1>2 DEF ReaderStarts, HandlerReturns
  <2>2. CASE closed
    BY <1>1, <2>1, <2>2, ReaderQuietStep DEF ReadLoopTop, Pcs
  <2>3. CASE ~closed
    BY <1>1, <2>1, <2>3, ReaderQuietStep DEF ReadLoopTop, Pcs
  <2>4. QED
    BY <2>2, <2>3
<1>3. CASE ReaderDrops
  BY <1>1, <1>3, ReaderQuietStep DEF ReaderDrops, ReadDone, ReaderEnds, Pcs
<1>4. CASE ReaderHandles
  BY <1>1, <1>4, ReaderQuietStep DEF ReaderHandles, ReadDone, Pcs
<1>5. CASE ReaderFails
  BY <1>5, ReaderStopStep DEF ReaderFails, ReadFailed
<1>6. CASE HandlerThrows
  <2>1. io[Reader] = "none"
    BY <1>6 DEF HandlerThrows, IInv, IoIsAwaited, Coroutines
  <2>2. io = [io EXCEPT ![Reader] = "none"]
    BY <2>1 DEF IInv, TypeOK
  <2>3. QED
    BY <1>6, <2>2, ReaderStopStep DEF HandlerThrows
<1>7. QED
  BY <1>2, <1>3, <1>4, <1>5, <1>6 DEF ReadLoop

-------------------------------------------------------------------------------
(* writeLoop.                                                              *)

\* A step of one write coroutine concerns no other coroutine.
LEMMA WriterFrame ==
  ASSUME IInv, NEW w \in Writers, NEW p \in Pcs, pc' = [pc EXCEPT ![w] = p]
  PROVE  /\ pc' \in [Coroutines -> Pcs] /\ pc'[w] = p
         /\ \A c \in Coroutines \ {w} : pc'[c] = pc[c]
         /\ pc'[Reader] = pc[Reader]
<1>1. pc \in [Coroutines -> Pcs]
  BY DEF IInv, TypeOK, Pcs
<1>2. QED
  BY <1>1, CoroutineAssumption DEF Coroutines

\* The live writer is the only one, and m_writing is set unless a stop cleared it.
LEMMA LiveWriter ==
  ASSUME IInv, NEW w \in Writers, Live(w)
  PROVE  /\ \A v \in Writers \ {w} : ~Live(v)
         /\ writing <=> ~closed
BY DEF IInv, SingleWriter, WritingIsAccurate, TypeOK

\* The step that goes on to the next suspension, in the middle of a message.
LEMMA WriterQuietStep ==
  ASSUME IInv, NEW w \in Writers, Live(w),
         NEW p \in {"prefix", "data"}, NEW o \in {"pending", "error"},
         closed => o = "error",
         pc' = [pc EXCEPT ![w] = p],
         io' = [io EXCEPT ![w] = o],
         current' \in [Writers -> Nat],
         writeQueue' \in Seq(Nat), QueueBounded',
         ~closed /\ writeQueue' # <<>> => writing, closed => writeQueue' = <<>>,
         UNCHANGED <<started, closed, writing, notified, writerFrame>>
  PROVE  IInv'
<1> USE DEF writerFrame, ownerVars, peerVars
<1>1. /\ pc' \in [Coroutines -> Pcs] /\ pc'[w] = p
      /\ \A c \in Coroutines \ {w} : pc'[c] = pc[c]
      /\ pc'[Reader] = pc[Reader]
  BY WriterFrame DEF Pcs
<1>2. io' \in Ops /\ io'[w] = o /\ \A c \in Coroutines \ {w} : io'[c] = io[c]
  BY DEF IInv, TypeOK, Ops, Coroutines
<1>3. TypeOK'
  BY <1>1, <1>2 DEF IInv, TypeOK, Ops, Pcs
<1>4. IoIsAwaited' /\ ReaderNeedsStart'
  BY <1>1, <1>2, CoroutineAssumption DEF IInv, IoIsAwaited, ReaderNeedsStart, Coroutines
<1>5. \A v \in Writers : Live(v)' <=> Live(v)
  BY <1>1 DEF Live, Coroutines
<1>6. WritingIsAccurate' /\ SingleWriter'
  BY <1>5 DEF IInv, WritingIsAccurate, SingleWriter
<1>7. ClosedIsDrained'
  BY <1>2 DEF IInv, ClosedIsDrained
<1>8. QED
  BY <1>3, <1>4, <1>6, <1>7 DEF IInv, QueueIsServed, ClosedNotifiedOnce

\* The steps in which a write coroutine stops the connection and ends.
LEMMA WriterStopStep ==
  ASSUME IInv, NEW w \in Writers, Live(w),
         pc' = [pc EXCEPT ![w] = "idle"],
         StopImpl([io EXCEPT ![w] = "none"], FALSE),
         UNCHANGED <<started, current, writerFrame>>
  PROVE  IInv'
<1> USE DEF writerFrame, ownerVars, peerVars
<1> DEFINE ops == [io EXCEPT ![w] = "none"]
<1>1. /\ pc' \in [Coroutines -> Pcs] /\ pc'[w] = "idle"
      /\ \A c \in Coroutines \ {w} : pc'[c] = pc[c]
      /\ pc'[Reader] = pc[Reader]
  BY WriterFrame DEF Pcs
<1>2. ops \in Ops /\ ops[w] = "none" /\ \A c \in Coroutines \ {w} : ops[c] = io[c]
  BY DEF IInv, TypeOK, Ops, Coroutines
<1>3. closed => \A c \in Coroutines : ops[c] # "pending"
  BY <1>2 DEF IInv, ClosedIsDrained
<1> HIDE DEF ops
<1>4. StopImpl(ops, FALSE)
  BY DEF ops
<1>5. TypeOK'
  <2>1. mailbox' \in Seq(Job)
    BY DEF IInv, TypeOK
  <2>2. QED
    BY <1>1, <1>2, <1>3, <1>4, <2>1, StopStepType DEF Pcs
<1>6. IoIsAwaited' /\ ReaderNeedsStart'
  <2>1. \A c \in Coroutines : io'[c] # "none" => ops[c] # "none"
    BY <1>2, <1>4, StopImplIo
  <2>2. QED
    BY <1>1, <1>2, <2>1 DEF IInv, IoIsAwaited, ReaderNeedsStart
<1>7. \A v \in Writers : Live(v)' => Live(v)
  BY <1>1 DEF Live, Coroutines
<1>8. QED
  BY <1>2, <1>3, <1>4, <1>5, <1>6, <1>7, StopStep

\* Every step of writeLoop preserves the invariant (Connection.hpp:248-274).
LEMMA WriteLoopStep == ASSUME IInv, NEW w \in Writers, WriteLoop(w) PROVE IInv'
<1> USE DEF stateVars
<1>1. Live(w)
  BY DEF WriteLoop, WriterSendsPrefix, WriterRejects, WriterSendsData, WriterFails,
     WriterEnds, AtLoopTop, Live
<1>2. writeQueue \in Seq(Nat) /\ QueueBounded /\ (closed => writeQueue = <<>>)
      /\ current \in [Writers -> Nat] /\ (~closed => writing)
  BY <1>1, LiveWriter DEF IInv, TypeOK, ClosedIsDrained
<1>3. CASE WriterSendsPrefix(w)
  <2>1. ~closed /\ writeQueue # <<>> /\ writeQueue' = Tail(writeQueue)
    BY <1>3 DEF WriterSendsPrefix, HasNext
  <2>2. /\ Head(writeQueue) \in Nat
        /\ writeQueue' \in Seq(Nat) /\ Len(writeQueue') = Len(writeQueue) - 1
    BY <1>2, <2>1, HeadTailProperties
  <2>3. QueueBounded'
    BY <1>2, <2>2, QueueAssumption DEF QueueBounded
  <2>4. current' \in [Writers -> Nat]
    BY <1>2, <1>3, <2>2 DEF WriterSendsPrefix, NextMessage
  <2>5. QED
    BY <1>1, <1>2, <1>3, <2>1, <2>2, <2>3, <2>4, WriterQuietStep DEF WriterSendsPrefix
<1>4. CASE WriterSendsData(w)
  <2>1. QueueBounded' /\ (~closed /\ writeQueue' # <<>> => writing)
    BY <1>2, <1>4 DEF WriterSendsData, QueueBounded
  <2>2. CASE closed
    BY <1>1, <1>2, <1>4, <2>1, <2>2, WriterQuietStep DEF WriterSendsData
  <2>3. CASE ~closed
    BY <1>1, <1>2, <1>4, <2>1, <2>3, WriterQuietStep DEF WriterSendsData
  <2>4. QED
    BY <2>2, <2>3
<1>5. CASE WriterRejects(w)
  BY <1>1, <1>5, WriterStopStep DEF WriterRejects
<1>6. CASE WriterFails(w)
  BY <1>1, <1>6, WriterStopStep DEF WriterFails
<1>7. CASE WriterEnds(w)
  <2> USE DEF WriterEnds, writerFrame, ownerVars, peerVars
  <2>1. /\ pc' \in [Coroutines -> Pcs] /\ pc'[w] = "idle"
        /\ \A c \in Coroutines \ {w} : pc'[c] = pc[c]
        /\ pc'[Reader] = pc[Reader]
    BY <1>7, WriterFrame DEF Pcs
  <2>2. io' \in Ops /\ io'[w] = "none" /\ \A c \in Coroutines \ {w} : io'[c] = io[c]
    BY <1>7 DEF IInv, TypeOK, Ops, Coroutines
  <2>3. TypeOK'
    BY <1>7, <2>1, <2>2 DEF IInv, TypeOK, Ops, Pcs
  <2>4. \A v \in Writers : ~Live(v)'
    BY <1>1, <2>1, LiveWriter DEF Live, Coroutines
  <2>5. IoIsAwaited' /\ ReaderNeedsStart'
    BY <1>7, <2>1, <2>2 DEF IInv, IoIsAwaited, ReaderNeedsStart
  <2>6. ~closed => writeQueue = <<>>
    BY <1>7 DEF HasNext
  <2>7. ClosedIsDrained' /\ QueueBounded'
    BY <1>2, <1>7, <2>2 DEF IInv, ClosedIsDrained, QueueBounded
  <2>8. QED
    BY <1>7, <2>3, <2>4, <2>5, <2>6, <2>7
    DEF IInv, WritingIsAccurate, SingleWriter, QueueIsServed, ClosedNotifiedOnce
<1>8. QED
  BY <1>3, <1>4, <1>5, <1>6, <1>7 DEF WriteLoop

-------------------------------------------------------------------------------
(* The invariant and what follows from it.                                 *)

LEMMA StepKeeps == IInv /\ [Next]_vars => IInv'
<1> SUFFICES ASSUME IInv, [Next]_vars PROVE IInv'
  OBVIOUS
<1>1. CASE Next
  BY <1>1, OwnerStep, StrandStep, ReadLoopStep, WriteLoopStep, NetworkStep DEF Next
<1>2. CASE UNCHANGED vars
  <2>1. TypeOK'
    BY <1>2 DEF vars, ownerVars, stateVars, coVars, peerVars, IInv, TypeOK
  <2>2. QED
    BY <1>2, <2>1, QuietStep
    DEF vars, stateVars, coVars, IInv, ClosedIsDrained, IoIsAwaited, ReaderNeedsStart,
        Live
<1>3. QED
  BY <1>1, <1>2

\* Everything that must stay true for the properties of the endpoint to hold.
THEOREM Invariance == Spec => []IInv
BY InitEstablishes, StepKeeps, PTL DEF Spec

\* The variables keep their types (all of Connection.hpp).
THEOREM TypeCorrect == Spec => []TypeOK
BY Invariance, PTL DEF IInv

\* Two writeLoop coroutines never write at the same time (Connection.hpp:192-206).
THEOREM WritersExclude == Spec => []SingleWriter
BY Invariance, PTL DEF IInv

\* The write queue never exceeds its limit (Connection.hpp:183-188).
THEOREM QueueLimit == Spec => []QueueBounded
BY Invariance, PTL DEF IInv

\* The owner hears of the close exactly once (Connection.hpp:276-313).
THEOREM CloseNotice == Spec => []ClosedNotifiedOnce
BY Invariance, PTL DEF IInv

\* A queued message of an open connection has a coroutine that will take it
\* (Connection.hpp:192-206, 273).
THEOREM NoneStranded == Spec => []NoStrandedMessage
<1>1. IInv => NoStrandedMessage
  BY DEF IInv, QueueIsServed, WritingIsAccurate, NoStrandedMessage
<1>2. QED
  BY <1>1, Invariance, PTL

\* A closed connection has no queued message and no pending operation
\* (Connection.hpp:283-290).
THEOREM DrainedWhenClosed == Spec => []ClosedIsDrained
BY Invariance, PTL DEF IInv

\* Closing is final: nothing restarts, is queued, reaches the wire or is handled
\* afterwards (Connection.hpp:155, 177, 217, 278).
THEOREM ClosingIsFinal == Spec => ClosedIsFinal
<1> USE DEF ownerVars, stateVars, coVars, peerVars, readerFrame, writerFrame, ioFrame
<1> DEFINE Final == closed => /\ closed' /\ started' = started /\ wire' = wire
                              /\ writeQueue' = writeQueue /\ handled' = handled
<1>1. IInv /\ Next => Final
  <2> SUFFICES ASSUME IInv, Next, closed
               PROVE  closed' /\ started' = started /\ wire' = wire
                      /\ writeQueue' = writeQueue /\ handled' = handled
    OBVIOUS
  <2>1. CASE Owner
    BY <2>1 DEF Owner, Start, Stop, Send, Post, Release
  <2>2. CASE Strand
    BY <2>2 DEF Strand, ExpiredJob, StartImpl, StopJob, SendImpl, SendIgnored,
       SendOverflows, SendQueues, StopImpl
  <2>3. CASE ReadLoop
    BY <2>3 DEF ReadLoop, ReaderStarts, ReaderFails, ReaderDrops, ReaderHandles,
       HandlerReturns, HandlerThrows, ReadLoopTop, StopImpl
  <2>4. ASSUME NEW w \in Writers, WriteLoop(w)
        PROVE  closed' /\ started' = started /\ wire' = wire
               /\ writeQueue' = writeQueue /\ handled' = handled
    BY <2>4 DEF WriteLoop, WriterSendsPrefix, WriterRejects, WriterSendsData, WriterFails,
       WriterEnds, HasNext, StopImpl
  <2>5. CASE Network
    <3>1. \A c \in Coroutines : io[c] # "pending"
      BY DEF IInv, ClosedIsDrained
    <3>2. QED
      BY <2>5, <3>1 DEF Network, IoReads, IoReadsEof, IoReadBreaks, PeerSends, PeerCloses,
         IoWrites, IoWriteBreaks, Coroutines
  <2>6. QED
    BY <2>1, <2>2, <2>3, <2>4, <2>5 DEF Next
<1>2. IInv /\ [Next]_vars => [Final]_vars
  BY <1>1
<1>3. QED
  BY <1>2, Invariance, PTL DEF Spec, ClosedIsFinal
-------------------------------------------------------------------------------
(* What a Connection puts on the wire: whole frames, in the order of the   *)
(* calls of send(), so that it implements MessagePipe.  The argument       *)
(* numbers every message that is still on its way: in the mailbox of the   *)
(* strand, in m_writeQueue, and in the frame of the write coroutine.       *)


\* n messages were taken from m_writeQueue; the rest of it continues the count.
QueueNumbered(n) == \A i \in 1 .. Len(writeQueue) : writeQueue[i] = n + i

IsSend(mb, i) == mb[i].op = "send"

\* The send() calls in a mailbox carry the messages after k, in order and without a
\* gap, up to the last one sent.
Numbered(mb, k, last) ==
  /\ k <= last
  /\ \A i \in 1 .. Len(mb) : IsSend(mb, i) => mb[i].msg \in k + 1 .. last
  /\ \A i, j \in 1 .. Len(mb) :
       IsSend(mb, i) /\ IsSend(mb, j) /\ i < j => mb[i].msg < mb[j].msg
  /\ \A m \in k + 1 .. last : \E i \in 1 .. Len(mb) : IsSend(mb, i) /\ mb[i].msg = m

MailNumbered(k) == Numbered(mailbox, k, calls["send"])

\* How far the write coroutine has come with the n-th message.
WriterAt(w, n) ==
  /\ AtLoopTop(w) => Len(wire) = 2 * n
  /\ pc[w] = "prefix" /\ io[w] = "pending" => Len(wire) + 2 = 2 * n /\ current[w] = n
  /\ (pc[w] = "prefix" /\ io[w] = "ok") \/ (pc[w] = "data" /\ io[w] = "pending")
       => Len(wire) + 1 = 2 * n /\ current[w] = n

Whole == \A i \in 1 .. Len(wire) : wire[i].part # "torn"

WireAt(n) ==
  /\ (\A w \in Writers : ~Live(w)) => Len(wire) = 2 * n
  /\ \A w \in Writers : Live(w) => WriterAt(w, n)
  /\ (\A w \in Writers : io[w] # "error") => Whole

Numbering(n) == QueueNumbered(n) /\ MailNumbered(n + Len(writeQueue)) /\ WireAt(n)

PInv == IInv /\ WireIsFramed /\ (Alive /\ ~closed => \E n \in Nat : Numbering(n))

-------------------------------------------------------------------------------

LEMMA Halves ==
  ASSUME NEW n \in Nat
  PROVE  /\ (2 * n) \div 2 = n /\ (2 * n + 1) \div 2 = n
         /\ (2 * n) % 2 = 0 /\ (2 * n + 1) % 2 = 1
OBVIOUS

\* A new connection has sent nothing (Connection.hpp:334-351).
LEMMA PipeInitEstablishes == Init => PInv
<1> SUFFICES ASSUME Init PROVE PInv
  OBVIOUS
<1>1. mailbox = <<>> /\ writeQueue = <<>> /\ wire = <<>> /\ calls["send"] = 0
  BY DEF Init, Calls
<1>2. WireIsFramed /\ QueueNumbered(0) /\ WireAt(0)
  <2>1. \A w \in Writers : pc[w] = "idle"
    BY DEF Init, Coroutines
  <2> QED BY <1>1, <2>1 DEF WireIsFramed, QueueNumbered, WireAt, Live, Whole
<1>3. MailNumbered(0)
  BY <1>1 DEF MailNumbered, Numbered
<1> QED BY <1>1, <1>2, <1>3, InitEstablishes DEF PInv, Numbering

\* A coroutine suspended in a write has captured the connection, which is open, and no
\* other coroutine writes (Connection.hpp:192-206, 248-274).
LEMMA PendingWrite ==
  ASSUME IInv, NEW w \in Writers, io[w] = "pending"
  PROVE  /\ ~closed /\ Alive /\ Live(w) /\ pc[w] \in {"prefix", "data"}
         /\ \A v \in Writers \ {w} : ~Live(v) /\ io[v] = "none"
<1>1. pc[w] \in {"prefix", "data"} /\ ~closed
  BY CoroutineAssumption DEF IInv, IoIsAwaited, ClosedIsDrained, Coroutines
<1>2. Live(w) /\ Alive
  BY <1>1 DEF Live, Alive, Coroutines
<1>3. ASSUME NEW v \in Writers \ {w} PROVE ~Live(v) /\ io[v] = "none"
  <2>1. ~Live(v)
    BY <1>2 DEF IInv, SingleWriter
  <2> QED BY <2>1, CoroutineAssumption DEF IInv, IoIsAwaited, Live, Coroutines
<1> QED BY <1>1, <1>2, <1>3

LEMMA MessagesAreNumbers ==
  ASSUME NEW mb \in Seq(Job)
  PROVE  \A i \in 1 .. Len(mb) : mb[i].msg \in Nat
<1> TAKE i \in 1 .. Len(mb)
<1>1. mb[i] \in Job
  BY ElementOfSeq
<1> QED BY <1>1 DEF Job

\* The mailbox after its head was taken.
LEMMA TailNumbered ==
  ASSUME NEW mb \in Seq(Job), mb # <<>>, NEW k \in Nat, NEW last \in Nat,
         Numbered(mb, k, last)
  PROVE  /\ Head(mb).op # "send" => Numbered(Tail(mb), k, last)
         /\ Head(mb).op = "send" => /\ Head(mb).msg = k + 1
                                   /\ Numbered(Tail(mb), k + 1, last)
<1> DEFINE t == Tail(mb)
           n == Len(mb)
<1>1. /\ n \in Nat \ {0} /\ Len(t) = n - 1 /\ Head(mb) = mb[1]
      /\ \A i \in 1 .. n - 1 : t[i] = mb[i + 1]
  OBVIOUS
<1>2. \A i \in 1 .. n : mb[i].msg \in Nat
  BY MessagesAreNumbers
<1>3. /\ k <= last
      /\ \A i \in 1 .. n : IsSend(mb, i) => mb[i].msg \in k + 1 .. last
      /\ \A i, j \in 1 .. n : IsSend(mb, i) /\ IsSend(mb, j) /\ i < j => mb[i].msg < mb[j].msg
      /\ \A m \in k + 1 .. last : \E i \in 1 .. n : IsSend(mb, i) /\ mb[i].msg = m
  BY DEF Numbered
<1> HIDE DEF t, n
<1>4. \A i \in 1 .. n - 1 : i + 1 \in 1 .. n /\ (IsSend(t, i) <=> IsSend(mb, i + 1))
  BY <1>1 DEF IsSend
<1>5. \A i, j \in 1 .. n - 1 :
        IsSend(t, i) /\ IsSend(t, j) /\ i < j => t[i].msg < t[j].msg
  <2> SUFFICES ASSUME NEW i \in 1 .. n - 1, NEW j \in 1 .. n - 1,
                      IsSend(t, i), IsSend(t, j), i < j
               PROVE  t[i].msg < t[j].msg
    OBVIOUS
  <2>1. mb[i + 1].msg < mb[j + 1].msg
    <3>1. IsSend(mb, i + 1) /\ IsSend(mb, j + 1) /\ i + 1 \in 1 .. n /\ j + 1 \in 1 .. n
      BY <1>4
    <3>2. i + 1 < j + 1
      OBVIOUS
    <3> QED BY <1>3, <3>1, <3>2
  <2> QED BY <1>1, <2>1
<1>6. CASE Head(mb).op # "send"
  <2>1. \A i \in 1 .. n - 1 : IsSend(t, i) => t[i].msg \in k + 1 .. last
    BY <1>1, <1>3, <1>4
  <2>2. ASSUME NEW m \in k + 1 .. last
        PROVE  \E i \in 1 .. n - 1 : IsSend(t, i) /\ t[i].msg = m
    <3>1. PICK i \in 1 .. n : IsSend(mb, i) /\ mb[i].msg = m
      BY <1>3
    <3>2. i # 1
      BY <1>1, <1>6, <3>1 DEF IsSend
    <3>3. i - 1 \in 1 .. n - 1 /\ (i - 1) + 1 = i
      BY <1>1, <3>2
    <3>4. IsSend(t, i - 1) /\ t[i - 1].msg = m
      BY <1>1, <1>4, <3>1, <3>3
    <3> QED BY <3>3, <3>4
  <2>3. Numbered(t, k, last)
    BY <1>1, <1>3, <1>5, <2>1, <2>2 DEF Numbered
  <2> QED BY <1>6, <2>3 DEF t
<1>7. CASE Head(mb).op = "send"
  <2>1. IsSend(mb, 1) /\ 1 \in 1 .. n /\ mb[1].msg \in k + 1 .. last
    BY <1>1, <1>3, <1>7 DEF IsSend
  <2>2. PICK f \in 1 .. n : IsSend(mb, f) /\ mb[f].msg = k + 1
    <3>1. k + 1 \in k + 1 .. last
      BY <2>1
    <3> QED BY <1>3, <3>1
  <2>3. mb[1].msg = k + 1
    <3>1. f # 1 => 1 < f
      BY <1>1
    <3>2. f # 1 => mb[1].msg < mb[f].msg
      BY <1>3, <2>1, <2>2, <3>1
    <3> QED BY <2>1, <2>2, <3>2
  <2>4. \A i \in 1 .. n - 1 : IsSend(t, i) => t[i].msg \in k + 2 .. last
    <3> SUFFICES ASSUME NEW i \in 1 .. n - 1, IsSend(t, i) PROVE t[i].msg \in k + 2 .. last
      OBVIOUS
    <3>1. mb[1].msg < mb[i + 1].msg /\ mb[i + 1].msg \in k + 1 .. last
      BY <1>1, <1>3, <1>4, <2>1
    <3>2. mb[i + 1].msg \in k + 2 .. last
      BY <2>3, <3>1
    <3> QED BY <1>1, <3>2
  <2>5. ASSUME NEW m \in k + 2 .. last
        PROVE  \E i \in 1 .. n - 1 : IsSend(t, i) /\ t[i].msg = m
    <3>1. PICK i \in 1 .. n : IsSend(mb, i) /\ mb[i].msg = m
      BY <1>3
    <3>2. i # 1
      BY <2>3, <3>1
    <3>3. i - 1 \in 1 .. n - 1 /\ (i - 1) + 1 = i
      BY <1>1, <3>2
    <3>4. IsSend(t, i - 1) /\ t[i - 1].msg = m
      BY <1>1, <1>4, <3>1, <3>3
    <3> QED BY <3>3, <3>4
  <2>6. k + 1 <= last /\ k + 2 = (k + 1) + 1
    BY <2>1
  <2>7. Numbered(t, k + 1, last)
    BY <1>1, <1>5, <2>4, <2>5, <2>6 DEF Numbered
  <2> QED BY <1>1, <1>7, <2>3, <2>7 DEF t
<1> QED BY <1>6, <1>7

\* A call is posted behind the others; send() takes the next number.
LEMMA AppendNumbered ==
  ASSUME NEW mb \in Seq(Job), NEW job \in Job, NEW k \in Nat, NEW last \in Nat,
         Numbered(mb, k, last)
  PROVE  /\ job.op # "send" => Numbered(Append(mb, job), k, last)
         /\ job.op = "send" /\ job.msg = last + 1 => Numbered(Append(mb, job), k, last + 1)
<1> DEFINE a == Append(mb, job)
           n == Len(mb)
<1>1. /\ n \in Nat /\ Len(a) = n + 1 /\ a[n + 1] = job
      /\ \A i \in 1 .. n : a[i] = mb[i]
  OBVIOUS
<1>2. \A i \in 1 .. n : mb[i].msg \in Nat
  BY MessagesAreNumbers
<1>3. /\ k <= last
      /\ \A i \in 1 .. n : IsSend(mb, i) => mb[i].msg \in k + 1 .. last
      /\ \A i, j \in 1 .. n : IsSend(mb, i) /\ IsSend(mb, j) /\ i < j => mb[i].msg < mb[j].msg
      /\ \A m \in k + 1 .. last : \E i \in 1 .. n : IsSend(mb, i) /\ mb[i].msg = m
  BY DEF Numbered
<1> HIDE DEF a, n
<1>4. /\ \A i \in 1 .. n : i \in 1 .. n + 1 /\ (IsSend(a, i) <=> IsSend(mb, i))
      /\ IsSend(a, n + 1) <=> job.op = "send"
  BY <1>1 DEF IsSend
<1>5. \A i \in 1 .. n + 1 : i # n + 1 => i \in 1 .. n
  BY <1>1
<1>6. CASE job.op # "send"
  <2>1. \A i \in 1 .. n + 1 : IsSend(a, i) => i \in 1 .. n /\ IsSend(mb, i) /\ a[i] = mb[i]
    BY <1>1, <1>4, <1>5, <1>6
  <2>2. /\ \A i \in 1 .. n + 1 : IsSend(a, i) => a[i].msg \in k + 1 .. last
        /\ \A i, j \in 1 .. n + 1 :
             IsSend(a, i) /\ IsSend(a, j) /\ i < j => a[i].msg < a[j].msg
    BY <1>3, <2>1
  <2>3. \A m \in k + 1 .. last : \E i \in 1 .. n + 1 : IsSend(a, i) /\ a[i].msg = m
    BY <1>1, <1>3, <1>4
  <2>4. Numbered(a, k, last)
    BY <1>1, <1>3, <2>2, <2>3 DEF Numbered
  <2> QED BY <1>6, <2>4 DEF a
<1>7. CASE job.op = "send" /\ job.msg = last + 1
  <2>1. ASSUME NEW i \in 1 .. n + 1, IsSend(a, i)
        PROVE  \/ i = n + 1 /\ a[i].msg = last + 1
               \/ /\ i \in 1 .. n /\ IsSend(mb, i) /\ a[i].msg = mb[i].msg
                  /\ a[i].msg \in k + 1 .. last
    BY <1>1, <1>3, <1>4, <1>5, <1>7, <2>1
  <2>2. \A i \in 1 .. n + 1 : IsSend(a, i) => a[i].msg \in k + 1 .. last + 1
    BY <1>3, <2>1
  <2>3. ASSUME NEW i \in 1 .. n + 1, NEW j \in 1 .. n + 1,
               IsSend(a, i), IsSend(a, j), i < j
        PROVE  a[i].msg < a[j].msg
    <3>1. i \in 1 .. n /\ IsSend(mb, i) /\ a[i].msg = mb[i].msg /\ a[i].msg \in k + 1 .. last
      BY <1>1, <2>1, <2>3
    <3> QED BY <1>3, <2>1, <2>3, <3>1
  <2>4. ASSUME NEW m \in k + 1 .. last + 1
        PROVE  \E i \in 1 .. n + 1 : IsSend(a, i) /\ a[i].msg = m
    <3>1. CASE m = last + 1
      <4>1. n + 1 \in 1 .. n + 1
        BY <1>1
      <4> QED BY <1>1, <1>4, <1>7, <3>1, <4>1
    <3>2. CASE m \in k + 1 .. last
      BY <1>1, <1>3, <1>4, <3>2
    <3> QED BY <3>1, <3>2
  <2>5. Numbered(a, k, last + 1)
    <3>1. k <= last + 1
      BY <1>3
    <3>2. Len(a) = n + 1
      BY <1>1
    <3> QED BY <2>2, <2>3, <2>4, <3>1, <3>2 DEF Numbered
  <2> QED BY <1>7, <2>5 DEF a
<1> QED BY <1>6, <1>7

-------------------------------------------------------------------------------
(* The numbering of the messages that are still on their way.              *)

\* Nobody revives a connection, closed or destroyed (Connection.hpp:68, 84, 103, 276-313).
LEMMA NoReturn ==
  ASSUME IInv, Next
  PROVE  /\ closed => closed'
         /\ Alive' => Alive
<1> USE DEF ownerVars, stateVars, coVars, peerVars, readerFrame, writerFrame, ioFrame
<1>1. CASE Owner
  BY <1>1 DEF Owner, Start, Stop, Send, Post, Release, Alive, Live
<1>2. CASE Strand
  BY <1>2 DEF Strand, ExpiredJob, StartImpl, StopJob, SendImpl, SendIgnored, SendOverflows,
              SendQueues, StopImpl, Alive, Live
<1>3. CASE ReadLoop
  <2>1. Live(Reader) /\ (closed => closed')
    BY <1>3 DEF ReadLoop, ReaderStarts, ReaderFails, ReaderDrops, ReaderHandles,
                HandlerReturns, HandlerThrows, ReadLoopTop, StopImpl, ReadFailed, ReadDone, Live
  <2> QED BY <2>1 DEF Alive, Coroutines
<1>4. ASSUME NEW w \in Writers, WriteLoop(w) PROVE Alive /\ (closed => closed')
  <2>1. Live(w) /\ (closed => closed')
    BY <1>4 DEF WriteLoop, WriterSendsPrefix, WriterRejects, WriterSendsData, WriterFails,
                WriterEnds, AtLoopTop, StopImpl, Live
  <2> QED BY <2>1 DEF Alive, Coroutines
<1>5. CASE Network
  <2>1. pc' = pc /\ held' = held /\ closed' = closed
    BY <1>5 DEF Network, IoReads, IoReadsEof, IoReadBreaks, PeerSends, PeerCloses, IoWrites,
                IoWriteBreaks
  <2> QED BY <2>1 DEF Alive, Live
<1> QED BY <1>1, <1>2, <1>3, <1>4, <1>5 DEF Next

\* A step that no write coroutine takes part in.
LEMMA WireAtStays ==
  ASSUME NEW n \in Nat, WireAt(n), UNCHANGED <<wire, current>>,
         \A w \in Writers : pc'[w] = pc[w] /\ io'[w] = io[w]
  PROVE  WireAt(n)'
BY DEF WireAt, WriterAt, AtLoopTop, Live, Whole

LEMMA QueueAndMailStay ==
  ASSUME NEW n \in Nat, QueueNumbered(n), MailNumbered(n + Len(writeQueue)),
         UNCHANGED <<writeQueue, mailbox, calls>>
  PROVE  QueueNumbered(n)' /\ MailNumbered(n + Len(writeQueue))'
BY DEF QueueNumbered, MailNumbered

\* The owner's calls (Connection.hpp:57-116).
LEMMA OwnerNumbers ==
  ASSUME IInv, Owner, NEW n \in Nat, Numbering(n)
  PROVE  Numbering(n)'
<1> USE DEF stateVars, coVars
<1>1. WireAt(n)'
  <2>1. wire' = wire /\ pc' = pc /\ io' = io /\ current' = current
    BY DEF Owner, Start, Stop, Send, Post, Release
  <2> QED BY <2>1, WireAtStays DEF Numbering
<1>2. UNCHANGED writeQueue /\ QueueNumbered(n)'
  BY DEF Numbering, Owner, Start, Stop, Send, Post, Release, QueueNumbered
<1>3. mailbox \in Seq(Job) /\ calls \in [Calls -> Nat] /\ n + Len(writeQueue) \in Nat
  BY DEF IInv, TypeOK
<1>4. MailNumbered(n + Len(writeQueue))'
  <2>1. ASSUME NEW op \in {"start", "stop"}, Post(op, 0) PROVE MailNumbered(n + Len(writeQueue))'
    <3>1. [op |-> op, msg |-> 0] \in Job /\ calls'["send"] = calls["send"]
          /\ calls["send"] \in Nat
      BY <1>3, <2>1 DEF Post, Job, Calls
    <3>2. mailbox' = Append(mailbox, [op |-> op, msg |-> 0])
      BY <2>1 DEF Post
    <3>3. Numbered(mailbox', n + Len(writeQueue), calls["send"])
      BY <1>3, <3>1, <3>2, AppendNumbered DEF Numbering, MailNumbered
    <3> QED BY <1>2, <3>1, <3>3 DEF MailNumbered
  <2>2. CASE Send
    <3> DEFINE job == [op |-> "send", msg |-> calls["send"] + 1]
    <3>1. calls["send"] \in Nat /\ calls'["send"] = calls["send"] + 1
      BY <1>3, <2>2 DEF Send, Post, Calls
    <3>2. job \in Job /\ job.op = "send" /\ job.msg = calls["send"] + 1
      BY <3>1 DEF Job, Calls
    <3>3. mailbox' = Append(mailbox, job)
      BY <2>2 DEF Send, Post
    <3> HIDE DEF job
    <3>4. Numbered(mailbox', n + Len(writeQueue), calls["send"] + 1)
      BY <1>3, <3>1, <3>2, <3>3, AppendNumbered DEF Numbering, MailNumbered
    <3> QED BY <1>2, <3>1, <3>4 DEF MailNumbered
  <2>3. CASE Release
    BY <1>2, <2>3 DEF Release, Numbering, MailNumbered
  <2> QED BY <2>1, <2>2, <2>3 DEF Owner, Start, Stop
<1> QED BY <1>1, <1>2, <1>4 DEF Numbering

\* A lambda that is no send() changes neither the queue nor a write coroutine, unless it
\* closes the connection (Connection.hpp:147-173).
LEMMA StartNumbers ==
  ASSUME IInv, StartImpl, NEW n \in Nat, Numbering(n)
  PROVE  Numbering(n)'
<1> USE DEF StartImpl, Take, ownerVars
<1>1. \A w \in Writers : pc'[w] = pc[w] /\ io'[w] = io[w]
  BY CoroutineAssumption DEF IInv, TypeOK, Coroutines
<1>2. WireAt(n)'
  BY <1>1, WireAtStays DEF Numbering
<1>3. QueueNumbered(n)' /\ UNCHANGED writeQueue
  BY DEF Numbering, QueueNumbered
<1>4. /\ mailbox \in Seq(Job) /\ calls["send"] \in Nat /\ n + Len(writeQueue) \in Nat
      /\ mailbox # <<>> /\ Head(mailbox).op # "send"
  BY DEF IInv, TypeOK, Calls
<1>5. Numbered(Tail(mailbox), n + Len(writeQueue), calls["send"])
  BY <1>4, TailNumbered DEF Numbering, MailNumbered
<1> QED BY <1>2, <1>3, <1>5 DEF Numbering, MailNumbered

\* sendImpl queues the next message; a new write coroutine starts at a frame boundary
\* (Connection.hpp:175-207).
LEMMA SendNumbers ==
  ASSUME IInv, SendImpl, ~closed', NEW n \in Nat, Numbering(n)
  PROVE  Numbering(n)'
<1> USE DEF Take, ownerVars
<1>1. SendQueues
  BY DEF SendImpl, SendIgnored, SendOverflows, StopImpl, stateVars
<1> DEFINE k == n + Len(writeQueue)
           msg == Head(mailbox).msg
<1>2. /\ mailbox \in Seq(Job) /\ calls["send"] \in Nat /\ writeQueue \in Seq(Nat) /\ k \in Nat
      /\ mailbox # <<>> /\ Head(mailbox).op = "send"
      /\ mailbox' = Tail(mailbox) /\ UNCHANGED <<calls, wire>>
  BY DEF SendImpl, IInv, TypeOK, Calls
<1>3. msg = k + 1 /\ Numbered(mailbox', k + 1, calls["send"])
  BY <1>2, TailNumbered DEF Numbering, MailNumbered
<1>4. /\ Len(writeQueue') = Len(writeQueue) + 1 /\ writeQueue'[Len(writeQueue) + 1] = msg
      /\ \A i \in 1 .. Len(writeQueue) : writeQueue'[i] = writeQueue[i]
  <2>1. writeQueue' = Append(writeQueue, msg) /\ msg \in Nat
    BY <1>1, <1>2, <1>3 DEF SendQueues
  <2> HIDE DEF msg
  <2> QED BY <1>2, <2>1, AppendProperties
<1>5. QueueNumbered(n)'
  <2> HIDE DEF msg
  <2>1. Len(writeQueue) \in Nat
    BY <1>2
  <2>2. ASSUME NEW i \in 1 .. Len(writeQueue) + 1 PROVE writeQueue'[i] = n + i
    <3>1. CASE i = Len(writeQueue) + 1
      BY <1>3, <1>4, <2>1, <3>1
    <3>2. CASE i \in 1 .. Len(writeQueue)
      BY <1>4, <3>2 DEF Numbering, QueueNumbered
    <3> QED BY <2>1, <3>1, <3>2
  <2> QED BY <1>4, <2>2 DEF QueueNumbered
<1>6. MailNumbered(n + Len(writeQueue))'
  <2>1. n + Len(writeQueue') = k + 1
    BY <1>2, <1>4
  <2> QED BY <1>2, <1>3, <2>1 DEF MailNumbered
<1>7. WireAt(n)'
  <2>1. CASE writing
    BY <1>1, <1>2, <2>1, WireAtStays DEF SendQueues, NeedsWriter, Numbering
  <2>2. CASE ~writing
    <3>1. PICK w \in Writers : pc[w] = "idle" /\ pc' = [pc EXCEPT ![w] = "spawned"]
      BY <1>1, <2>2 DEF SendQueues, NeedsWriter
    <3>2. UNCHANGED <<io, wire>> /\ ~closed
      BY <1>1, <1>2 DEF SendQueues
    <3>3. \A v \in Writers : ~Live(v) /\ io[v] = "none"
      BY <2>2, <3>2, CoroutineAssumption
         DEF IInv, WritingIsAccurate, IoIsAwaited, Live, Coroutines
    <3>4. /\ pc'[w] = "spawned"
          /\ \A v \in Writers \ {w} : pc'[v] = pc[v]
      BY <3>1 DEF IInv, TypeOK, Coroutines
    <3>5. Len(wire) = 2 * n /\ Whole
      BY <3>3 DEF Numbering, WireAt
    <3>6. Whole' /\ Live(w)'
      BY <3>2, <3>4, <3>5, <1>2 DEF Whole, Live
    <3>7. \A v \in Writers : Live(v)' => WriterAt(v, n)'
      BY <1>2, <3>3, <3>4, <3>5 DEF WriterAt, Live
    <3> QED BY <3>6, <3>7 DEF WireAt
  <2> QED BY <2>1, <2>2 DEF IInv, TypeOK
<1> QED BY <1>5, <1>6, <1>7 DEF Numbering

\* readLoop does not touch what is sent (Connection.hpp:209-246).
LEMMA ReadLoopNumbers ==
  ASSUME IInv, ReadLoop, ~closed', NEW n \in Nat, Numbering(n)
  PROVE  Numbering(n)'
<1> USE DEF readerFrame, ownerVars, stateVars
<1>1. /\ \E p \in Pcs : pc' = [pc EXCEPT ![Reader] = p]
      /\ \E o \in {"none", "pending"} : io' = [io EXCEPT ![Reader] = o]
      /\ UNCHANGED <<writeQueue, mailbox, calls, wire, current>>
  BY DEF ReadLoop, ReaderStarts, ReaderFails, ReaderDrops, ReaderHandles, HandlerReturns,
         HandlerThrows, ReadLoopTop, ReaderEnds, StopImpl, Pcs
<1>2. \A w \in Writers : pc'[w] = pc[w] /\ io'[w] = io[w]
  BY <1>1, CoroutineAssumption DEF IInv, TypeOK, Coroutines
<1> QED BY <1>1, <1>2, WireAtStays, QueueAndMailStay DEF Numbering

\* writeLoop takes the messages in order and writes prefix, payload, prefix, ...; it
\* finds the queue empty at a frame boundary only (Connection.hpp:248-274).
LEMMA WriteLoopNumbers ==
  ASSUME IInv, NEW w \in Writers, WriteLoop(w), ~closed', NEW n \in Nat, Numbering(n)
  PROVE  \E m \in Nat : Numbering(m)'
<1> USE DEF writerFrame, ownerVars, stateVars
<1>1. /\ Live(w) /\ ~closed /\ ~WriterRejects(w) /\ ~WriterFails(w)
      /\ UNCHANGED <<mailbox, calls, wire>>
  BY DEF WriteLoop, WriterSendsPrefix, WriterRejects, WriterSendsData, WriterFails,
         WriterEnds, AtLoopTop, StopImpl, Live
<1>2. /\ WriterAt(w, n) /\ (io[w] # "error" => Whole)
      /\ \A v \in Writers \ {w} : ~Live(v) /\ io[v] = "none"
  <2>1. \A v \in Writers \ {w} : ~Live(v)
    BY <1>1 DEF IInv, SingleWriter
  <2>2. \A v \in Writers \ {w} : io[v] = "none"
    BY <2>1, CoroutineAssumption DEF IInv, IoIsAwaited, Live, Coroutines
  <2> QED BY <1>1, <2>1, <2>2 DEF Numbering, WireAt
<1>3. ASSUME NEW p \in {"prefix", "data", "idle"}, pc' = [pc EXCEPT ![w] = p],
             NEW o \in {"pending", "none"}, io' = [io EXCEPT ![w] = o]
      PROVE  /\ pc'[w] = p /\ io'[w] = o
             /\ \A v \in Writers \ {w} : ~Live(v)' /\ io'[v] = "none"
  BY <1>2, <1>3 DEF IInv, TypeOK, Coroutines, Live
<1>4. writeQueue \in Seq(Nat) /\ Len(writeQueue) \in Nat /\ Len(wire) \in Nat
  BY DEF IInv, TypeOK
<1>5. CASE WriterSendsPrefix(w)
  <2>1. /\ AtLoopTop(w) /\ writeQueue # <<>> /\ writeQueue' = Tail(writeQueue)
        /\ current' = [current EXCEPT ![w] = Head(writeQueue)]
        /\ pc' = [pc EXCEPT ![w] = "prefix"] /\ io' = [io EXCEPT ![w] = "pending"]
    BY <1>5 DEF WriterSendsPrefix, HasNext, NextMessage
  <2>2. /\ Len(writeQueue') = Len(writeQueue) - 1 /\ Len(writeQueue) >= 1
        /\ Head(writeQueue) = writeQueue[1]
        /\ \A i \in 1 .. Len(writeQueue) - 1 : writeQueue'[i] = writeQueue[i + 1]
    BY <1>4, <2>1
  <2>3. Head(writeQueue) = n + 1
    BY <1>4, <2>2 DEF Numbering, QueueNumbered
  <2>4. QueueNumbered(n + 1)'
    <3> SUFFICES ASSUME NEW i \in 1 .. Len(writeQueue) - 1 PROVE writeQueue'[i] = (n + 1) + i
      BY <2>2 DEF QueueNumbered
    <3>1. writeQueue[i + 1] = n + (i + 1)
      BY <1>4 DEF Numbering, QueueNumbered
    <3> QED BY <2>2, <3>1
  <2>5. MailNumbered((n + 1) + Len(writeQueue))'
    <3>1. (n + 1) + Len(writeQueue') = n + Len(writeQueue)
      BY <1>4, <2>2
    <3> QED BY <1>1, <3>1 DEF Numbering, MailNumbered
  <2>6. /\ pc'[w] = "prefix" /\ io'[w] = "pending" /\ current'[w] = n + 1
        /\ \A v \in Writers \ {w} : ~Live(v)'
    BY <1>3, <2>1, <2>3 DEF IInv, TypeOK
  <2>7. Len(wire') + 2 = 2 * (n + 1) /\ Whole'
    <3>1. io[w] # "error"
      BY <2>1 DEF AtLoopTop, IInv, IoIsAwaited, Coroutines
    <3>2. Whole'
      BY <1>1, <1>2, <3>1 DEF Whole
    <3> QED BY <1>1, <1>2, <1>4, <2>1, <3>2 DEF WriterAt
  <2>8. WireAt(n + 1)'
    BY <2>6, <2>7 DEF WireAt, WriterAt, AtLoopTop, Live
  <2> QED BY <2>4, <2>5, <2>8 DEF Numbering
<1>6. CASE WriterSendsData(w)
  <2>1. /\ pc[w] = "prefix" /\ io[w] = "ok" /\ UNCHANGED <<writeQueue, current>>
        /\ pc' = [pc EXCEPT ![w] = "data"] /\ io' = [io EXCEPT ![w] = "pending"]
    BY <1>1, <1>6 DEF WriterSendsData
  <2>2. /\ pc'[w] = "data" /\ io'[w] = "pending" /\ \A v \in Writers \ {w} : ~Live(v)'
    BY <1>3, <2>1
  <2>3. Len(wire) + 1 = 2 * n /\ current[w] = n /\ Whole'
    BY <1>1, <1>2, <2>1 DEF WriterAt, Whole
  <2>4. WireAt(n)'
    BY <1>1, <2>1, <2>2, <2>3 DEF WireAt, WriterAt, AtLoopTop, Live
  <2> QED BY <1>1, <2>1, <2>4, QueueAndMailStay DEF Numbering
<1>7. CASE WriterEnds(w)
  <2>1. /\ AtLoopTop(w) /\ UNCHANGED writeQueue
        /\ pc' = [pc EXCEPT ![w] = "idle"] /\ io' = [io EXCEPT ![w] = "none"]
    BY <1>7 DEF WriterEnds
  <2>2. \A v \in Writers : ~Live(v)'
    BY <1>3, <2>1 DEF Live
  <2>3. Len(wire) = 2 * n /\ Whole'
    <3>1. io[w] # "error"
      BY <2>1 DEF AtLoopTop, IInv, IoIsAwaited, Coroutines
    <3> QED BY <1>1, <1>2, <2>1, <3>1 DEF WriterAt, Whole
  <2>4. WireAt(n)'
    BY <1>1, <2>2, <2>3 DEF WireAt
  <2> QED BY <1>1, <2>1, <2>4, QueueAndMailStay DEF Numbering
<1> QED BY <1>1, <1>5, <1>6, <1>7 DEF WriteLoop

-------------------------------------------------------------------------------
(* What reaches the wire.                                                  *)

\* The next piece of the n-th message continues a well-framed wire.
LEMMA NextPiece ==
  ASSUME IInv, WireIsFramed, Whole, NEW n \in Nat, NEW part \in {"prefix", "data", "torn"},
         wire' = Append(wire, [part |-> part, msg |-> n]),
         \/ Len(wire) + 2 = 2 * n /\ part # "data"
         \/ Len(wire) + 1 = 2 * n /\ part # "prefix"
  PROVE  /\ WireIsFramed'
         /\ Len(wire') = Len(wire) + 1
         /\ part # "torn" => Whole'
<1>1. wire \in Seq(Piece) /\ [part |-> part, msg |-> n] \in Piece
  BY DEF IInv, TypeOK, Piece
<1>2. /\ Len(wire) \in Nat /\ Len(wire') = Len(wire) + 1 /\ DOMAIN wire' = 1 .. Len(wire')
      /\ DOMAIN wire = 1 .. Len(wire)
      /\ \A i \in 1 .. Len(wire) : wire'[i] = wire[i]
      /\ wire'[Len(wire) + 1] = [part |-> part, msg |-> n]
  BY <1>1, AppendProperties
<1>3. ASSUME NEW i \in 1 .. Len(wire)
      PROVE  /\ wire'[i].part # "torn" /\ wire'[i].msg = (i + 1) \div 2
             /\ wire'[i].part = IF i % 2 = 1 THEN "prefix" ELSE "data"
  BY <1>2 DEF WireIsFramed, Whole
<1>4. ASSUME NEW i \in 1 .. Len(wire'), i = Len(wire) + 1
      PROVE  /\ wire'[i].part = part /\ wire'[i].msg = (i + 1) \div 2
             /\ part # "torn" => part = IF i % 2 = 1 THEN "prefix" ELSE "data"
  <2>1. wire'[i].part = part /\ wire'[i].msg = n
    BY <1>2, <1>4
  <2>2. CASE Len(wire) + 2 = 2 * n /\ part # "data"
    <3>1. i + 1 = 2 * n /\ n >= 1
      BY <1>2, <1>4, <2>2
    <3>2. (i + 1) \div 2 = n /\ i % 2 = 1
      BY <1>2, <1>4, <3>1
    <3> QED BY <2>1, <2>2, <3>2
  <2>3. CASE Len(wire) + 1 = 2 * n /\ part # "prefix"
    <3>1. i = 2 * n
      BY <1>4, <2>3
    <3>2. (i + 1) \div 2 = n /\ i % 2 # 1
      BY <3>1, Halves
    <3> QED BY <2>1, <2>3, <3>2
  <2> QED BY <2>2, <2>3
<1>5. ASSUME NEW i \in 1 .. Len(wire') PROVE i \in 1 .. Len(wire) \/ i = Len(wire) + 1
  BY <1>2
<1>6. WireIsFramed'
  BY <1>2, <1>3, <1>4, <1>5 DEF WireIsFramed
<1>7. part # "torn" => Whole'
  BY <1>3, <1>4, <1>5 DEF Whole
<1> QED BY <1>2, <1>6, <1>7

\* A completed or broken write (MessageChannel.hpp:77-78).
LEMMA WriteCompletes ==
  ASSUME PInv, NEW w \in Writers, IoWrites(w) \/ IoWriteBreaks(w)
  PROVE  WireIsFramed' /\ \E n \in Nat : Numbering(n) /\ Numbering(n)'
<1> USE DEF ioFrame, stateVars, ownerVars
<1>1. IInv /\ io[w] = "pending"
  BY DEF PInv, IoWrites, IoWriteBreaks
<1>2. /\ ~closed /\ Alive /\ Live(w) /\ pc[w] \in {"prefix", "data"}
      /\ \A v \in Writers \ {w} : ~Live(v) /\ io[v] = "none"
  BY <1>1, PendingWrite
<1>3. PICK n \in Nat : Numbering(n)
  BY <1>2 DEF PInv
<1>4. /\ Whole /\ current[w] = n /\ Len(wire) \in Nat
      /\ pc[w] = "prefix" => Len(wire) + 2 = 2 * n
      /\ pc[w] = "data" => Len(wire) + 1 = 2 * n
  <2>1. Len(wire) \in Nat
    BY <1>1 DEF IInv, TypeOK
  <2> QED BY <1>1, <1>2, <1>3, <2>1 DEF Numbering, WireAt, WriterAt
<1>5. UNCHANGED <<pc, current, writeQueue, mailbox, calls>>
  BY DEF IoWrites, IoWriteBreaks
<1>6. QueueNumbered(n)' /\ MailNumbered(n + Len(writeQueue))'
  BY <1>3, <1>5, QueueAndMailStay DEF Numbering
<1>7. Live(w)'
  BY <1>2, <1>5 DEF Live
<1>8. \A v \in Writers \ {w} : ~Live(v)'
  BY <1>2, <1>5 DEF Live
<1>9. CASE IoWrites(w)
  <2>1. io'[w] = "ok" /\ wire' = Append(wire, [part |-> pc[w], msg |-> n])
    BY <1>1, <1>4, <1>9 DEF IoWrites, IInv, TypeOK, Coroutines
  <2>2. WireIsFramed' /\ Len(wire') = Len(wire) + 1 /\ Whole'
    BY <1>1, <1>2, <1>4, <2>1, NextPiece DEF PInv
  <2>3. WriterAt(w, n)'
    BY <1>2, <1>4, <1>5, <2>1, <2>2 DEF WriterAt, AtLoopTop
  <2>4. WireAt(n)'
    BY <1>7, <1>8, <2>2, <2>3 DEF WireAt
  <2> QED BY <1>3, <1>6, <2>2, <2>4 DEF Numbering
<1>10. CASE IoWriteBreaks(w)
  <2>1. /\ io'[w] = "error"
        /\ wire' = wire \/ wire' = Append(wire, [part |-> "torn", msg |-> n])
    BY <1>1, <1>4, <1>10 DEF IoWriteBreaks, IInv, TypeOK, Coroutines
  <2>2. WireIsFramed'
    <3>1. CASE wire' = wire
      BY <3>1 DEF PInv, WireIsFramed
    <3>2. CASE wire' = Append(wire, [part |-> "torn", msg |-> n])
      BY <1>1, <1>2, <1>4, <3>2, NextPiece DEF PInv
    <3> QED BY <2>1, <3>1, <3>2
  <2>3. WireAt(n)'
    BY <1>2, <1>5, <1>7, <1>8, <2>1 DEF WireAt, WriterAt, AtLoopTop
  <2> QED BY <1>3, <1>6, <2>2, <2>3 DEF Numbering
<1> QED BY <1>9, <1>10

\* Only a write of the network puts something on the wire.
LEMMA WireStays ==
  ASSUME Next, ~\E w \in Writers : IoWrites(w) \/ IoWriteBreaks(w)
  PROVE  wire' = wire
<1> USE DEF writerFrame, readerFrame, ioFrame
<1>1. CASE Owner
  BY <1>1 DEF Owner, Start, Stop, Send, Post, Release
<1>2. CASE Strand
  BY <1>2 DEF Strand, ExpiredJob, StartImpl, StopJob, SendImpl
<1>3. CASE ReadLoop
  BY <1>3 DEF ReadLoop, ReaderStarts, ReaderFails, ReaderDrops, ReaderHandles,
              HandlerReturns, HandlerThrows
<1>4. ASSUME NEW w \in Writers, WriteLoop(w) PROVE wire' = wire
  BY <1>4 DEF WriteLoop, WriterSendsPrefix, WriterRejects, WriterSendsData, WriterFails,
              WriterEnds
<1>5. CASE Network
  BY <1>5 DEF Network, IoReads, IoReadsEof, IoReadBreaks, PeerSends, PeerCloses
<1> QED BY <1>1, <1>2, <1>3, <1>4, <1>5 DEF Next

\* The peer and its frames concern only what is read.
LEMMA PeerNumbers ==
  ASSUME IInv, NEW n \in Nat, Numbering(n),
         IoReads \/ IoReadsEof \/ IoReadBreaks \/ PeerSends \/ PeerCloses
  PROVE  Numbering(n)'
<1> USE DEF ioFrame, stateVars, ownerVars, coVars
<1>1. /\ pc' = pc /\ (io' = io \/ \E o \in {"ok", "error"} : io' = [io EXCEPT ![Reader] = o])
      /\ UNCHANGED <<writeQueue, mailbox, calls, wire, current>>
  BY DEF IoReads, IoReadsEof, IoReadBreaks, PeerSends, PeerCloses
<1>2. \A w \in Writers : pc'[w] = pc[w] /\ io'[w] = io[w]
  BY <1>1, CoroutineAssumption DEF IInv, TypeOK, Coroutines
<1> QED BY <1>1, <1>2, WireAtStays, QueueAndMailStay DEF Numbering

LEMMA PipeStepKeeps == PInv /\ [Next]_vars => PInv'
<1> SUFFICES ASSUME PInv, [Next]_vars PROVE PInv'
  OBVIOUS
<1>1. CASE UNCHANGED vars
  <2>1. IInv'
    BY <1>1, StepKeeps DEF PInv
  <2>2. UNCHANGED <<wire, closed, held, pc, io, current, writeQueue, mailbox, calls>>
    BY <1>1 DEF vars, ownerVars, stateVars, coVars
  <2>3. WireIsFramed' /\ (Alive' <=> Alive)
    BY <2>2 DEF PInv, WireIsFramed, Alive, Live
  <2>4. \A n \in Nat : Numbering(n) => Numbering(n)'
    BY <2>2, WireAtStays, QueueAndMailStay DEF Numbering
  <2> QED BY <2>1, <2>2, <2>3, <2>4 DEF PInv
<1>2. ASSUME NEW w \in Writers, IoWrites(w) \/ IoWriteBreaks(w) PROVE PInv'
  <2>1. IInv'
    BY <1>2, StepKeeps DEF PInv, Next, Network
  <2> QED BY <1>2, <2>1, WriteCompletes DEF PInv
<1>3. CASE Next /\ ~\E w \in Writers : IoWrites(w) \/ IoWriteBreaks(w)
  <2>1. IInv /\ IInv'
    BY <1>3, StepKeeps DEF PInv
  <2>2. WireIsFramed'
    BY <1>3, WireStays DEF PInv, WireIsFramed
  <2>3. ASSUME Alive', ~closed' PROVE \E n \in Nat : Numbering(n)'
    <3>1. Alive /\ ~closed
      BY <1>3, <2>1, <2>3, NoReturn
    <3>2. PICK n \in Nat : Numbering(n)
      BY <3>1 DEF PInv
    <3>3. CASE Owner
      BY <2>1, <3>2, <3>3, OwnerNumbers
    <3>4. CASE Strand
      <4>1. ~ExpiredJob /\ ~StopJob
        BY <2>3, <3>1 DEF ExpiredJob, StopJob, StopImpl
      <4> QED BY <2>1, <2>3, <3>2, <3>4, <4>1, StartNumbers, SendNumbers DEF Strand
    <3>5. CASE ReadLoop
      BY <2>1, <2>3, <3>2, <3>5, ReadLoopNumbers
    <3>6. ASSUME NEW w \in Writers, WriteLoop(w) PROVE \E m \in Nat : Numbering(m)'
      BY <2>1, <2>3, <3>2, <3>6, WriteLoopNumbers
    <3>7. CASE IoReads \/ IoReadsEof \/ IoReadBreaks \/ PeerSends \/ PeerCloses
      BY <2>1, <3>2, <3>7, PeerNumbers
    <3> QED BY <1>3, <3>3, <3>4, <3>5, <3>6, <3>7 DEF Next, Network
  <2> QED BY <2>1, <2>2, <2>3 DEF PInv
<1> QED BY <1>1, <1>2, <1>3

\* Every message on its way to the wire has its number.
THEOREM PipeInvariance == Spec => []PInv
BY PipeInitEstablishes, PipeStepKeeps, PTL DEF Spec

\* For any queue limit and any interleaving of send(), stop(), the coroutines and the
\* network, the bytes on the wire are whole frames of consecutive messages, and only the
\* last one may be cut off (MessageChannel.hpp:77-78, Connection.hpp:253-258).
THEOREM FramedWire == Spec => []WireIsFramed
<1>1. PInv => WireIsFramed
  BY DEF PInv
<1> QED BY <1>1, PipeInvariance, PTL

-------------------------------------------------------------------------------
(* The refinement.                                                         *)

\* What is delivered when the payload of the n-th message completes.
LEMMA DeliversNext ==
  ASSUME IInv, WireIsFramed, Whole, NEW n \in Nat, Len(wire) + 1 = 2 * n,
         wire' = Append(wire, [part |-> "data", msg |-> n])
  PROVE  Len(Delivered) = n - 1 /\ Delivered' = Append(Delivered, n)
<1>1. wire \in Seq(Piece) /\ [part |-> "data", msg |-> n] \in Piece
  BY DEF IInv, TypeOK, Piece
<1>2. /\ Len(wire) \in Nat /\ Len(wire') = Len(wire) + 1
      /\ DOMAIN wire = 1 .. Len(wire)
      /\ \A i \in 1 .. Len(wire) : wire'[i] = wire[i]
      /\ wire'[Len(wire) + 1] = [part |-> "data", msg |-> n]
  BY <1>1, AppendProperties
<1>3. n >= 1 /\ n - 1 \in Nat
  BY <1>2
<1>4. ASSUME NEW i \in 1 .. n - 1
      PROVE  2 * i \in 1 .. Len(wire) /\ wire[2 * i].part = "data" /\ wire[2 * i].msg = i
  <2>1. 2 * i \in 1 .. Len(wire) /\ i \in Nat
    BY <1>2, <1>3
  <2>2. /\ wire[2 * i].msg = (2 * i + 1) \div 2
        /\ wire[2 * i].part = IF (2 * i) % 2 = 1 THEN "prefix" ELSE "data"
    BY <1>2, <2>1 DEF WireIsFramed, Whole
  <2> QED BY <2>1, <2>2, Halves
<1>5. Payloads = 1 .. n - 1
  <2>1. \A i \in Payloads : i \in 1 .. n - 1
    BY <1>2, <1>3 DEF Payloads
  <2>2. ASSUME NEW i \in 1 .. n - 1 PROVE i \in Payloads
    <3>1. i \in 1 .. Len(wire) /\ 2 * i <= Len(wire)
      BY <1>2, <1>3
    <3>2. wire[2 * i].part = "data"
      BY <1>4
    <3> QED BY <3>1, <3>2 DEF Payloads
  <2> QED BY <2>1, <2>2
<1>6. Payloads' = 1 .. n
  <2>1. \A i \in Payloads' : i \in 1 .. n
    BY <1>2, <1>3 DEF Payloads
  <2>2. ASSUME NEW i \in 1 .. n PROVE i \in Payloads'
    <3>1. CASE i = n
      BY <1>2, <1>3, <3>1 DEF Payloads
    <3>2. CASE i \in 1 .. n - 1
      <4>1. i \in 1 .. Len(wire') /\ 2 * i <= Len(wire')
        BY <1>2, <1>3
      <4>2. wire'[2 * i].part = "data"
        BY <1>2, <1>4, <3>2
      <4> QED BY <4>1, <4>2 DEF Payloads
    <3> QED BY <1>3, <3>1, <3>2
  <2> QED BY <2>1, <2>2
<1>7. Delivered = [i \in 1 .. n - 1 |-> i]
  BY <1>4, <1>5 DEF Delivered
<1>8. Delivered' = [i \in 1 .. n |-> i]
  <2>1. ASSUME NEW i \in 1 .. n PROVE wire'[2 * i].msg = i
    <3>1. CASE i = n
      BY <1>2, <3>1
    <3>2. CASE i \in 1 .. n - 1
      BY <1>2, <1>4, <3>2
    <3> QED BY <1>3, <3>1, <3>2
  <2> QED BY <1>6, <2>1 DEF Delivered
<1>9. [i \in 1 .. n - 1 |-> i] \in Seq(Nat) /\ Len([i \in 1 .. n - 1 |-> i]) = n - 1
  BY <1>3
<1>10. Append([i \in 1 .. n - 1 |-> i], n) = [i \in 1 .. n |-> i]
  BY <1>3, <1>9
<1> QED BY <1>7, <1>8, <1>9, <1>10

\* A prefix or a torn piece delivers nothing.
LEMMA DeliversNothing ==
  ASSUME IInv, NEW n \in Nat, NEW part \in {"prefix", "torn"},
         wire' = Append(wire, [part |-> part, msg |-> n])
  PROVE  Delivered' = Delivered
<1>1. wire \in Seq(Piece) /\ [part |-> part, msg |-> n] \in Piece
  BY DEF IInv, TypeOK, Piece
<1>2. /\ Len(wire) \in Nat /\ Len(wire') = Len(wire) + 1
      /\ \A i \in 1 .. Len(wire) : wire'[i] = wire[i]
      /\ wire'[Len(wire) + 1] = [part |-> part, msg |-> n]
  BY <1>1, AppendProperties
<1>3. ASSUME NEW i \in Payloads'
      PROVE  i \in Payloads
  <2>1. i \in 1 .. Len(wire) + 1 /\ 2 * i <= Len(wire) + 1 /\ wire'[2 * i].part = "data"
    BY <1>2 DEF Payloads
  <2>2. 2 * i # Len(wire) + 1
    BY <1>2, <2>1
  <2> QED BY <1>2, <2>1, <2>2 DEF Payloads
<1>4. ASSUME NEW i \in Payloads
      PROVE  i \in Payloads' /\ wire'[2 * i] = wire[2 * i]
  <2>1. i \in 1 .. Len(wire) /\ 2 * i <= Len(wire) /\ wire[2 * i].part = "data"
    BY DEF Payloads
  <2>2. 2 * i \in 1 .. Len(wire)
    BY <1>2, <2>1
  <2> QED BY <1>2, <2>1, <2>2 DEF Payloads
<1> QED BY <1>3, <1>4 DEF Delivered

\* A step that closes the connection closes the pipe, and any other one that neither
\* sends nor writes leaves the pipe as it is.
LEMMA ClosesOrStutters ==
  ASSUME IInv, IInv', calls'["send"] = calls["send"], wire' = wire, closed => closed'
  PROVE  Pipe!Next \/ UNCHANGED Pipe!vars
<1>1. calls'["send"] = calls["send"] /\ Delivered' = Delivered
  BY DEF Delivered, Payloads
<1>2. /\ notified = (IF closed THEN 1 ELSE 0) /\ notified' = (IF closed' THEN 1 ELSE 0)
      /\ closed \in BOOLEAN /\ closed' \in BOOLEAN
  BY DEF IInv, ClosedNotifiedOnce, TypeOK
<1>3. CASE ~closed /\ closed'
  <2>1. Pipe!Close
    BY <1>1, <1>2, <1>3 DEF Pipe!Close
  <2> QED BY <2>1 DEF Pipe!Next
<1>4. CASE closed' = closed
  <2>1. notified' = notified /\ (~closed)' = (~closed)
    BY <1>2, <1>4
  <2> QED BY <1>1, <2>1 DEF Pipe!vars
<1> QED BY <1>2, <1>3, <1>4

LEMMA PipeInitMaps == Init => Pipe!Init
<1> SUFFICES ASSUME Init PROVE Pipe!Init
  OBVIOUS
<1>1. wire = <<>> /\ calls["send"] = 0 /\ ~closed /\ notified = 0
  BY DEF Init, Calls
<1>2. Payloads = {}
  BY <1>1 DEF Payloads
<1>3. Delivered = <<>>
  BY <1>2 DEF Delivered
<1> QED BY <1>1, <1>3 DEF Pipe!Init

LEMMA PipeStepMaps == PInv /\ PInv' /\ [Next]_vars => [Pipe!Next]_Pipe!vars
<1> SUFFICES ASSUME PInv, PInv', [Next]_vars PROVE Pipe!Next \/ UNCHANGED Pipe!vars
  OBVIOUS
<1>1. IInv /\ IInv'
  BY DEF PInv
<1>2. CASE UNCHANGED vars
  BY <1>1, <1>2, ClosesOrStutters DEF vars, ownerVars, stateVars
<1>3. CASE Send
  <2>1. calls \in [Calls -> Nat] /\ UNCHANGED <<wire, closed, notified>>
    BY <1>1, <1>3 DEF IInv, TypeOK, Send, Post, stateVars
  <2>2. calls'["send"] = calls["send"] + 1
    BY <1>3, <2>1 DEF Send, Post, Calls
  <2>3. Delivered' = Delivered
    BY <2>1 DEF Delivered, Payloads
  <2>4. Pipe!Send
    BY <2>1, <2>2, <2>3 DEF Pipe!Send
  <2> QED BY <2>4 DEF Pipe!Next
<1>4. ASSUME NEW w \in Writers, IoWrites(w) \/ IoWriteBreaks(w)
      PROVE  Pipe!Next \/ UNCHANGED Pipe!vars
  <2>1. /\ io[w] = "pending" /\ UNCHANGED <<calls, closed, notified>>
    BY <1>4 DEF IoWrites, IoWriteBreaks, ioFrame, ownerVars, stateVars
  <2>2. ~closed /\ Alive /\ Live(w) /\ pc[w] \in {"prefix", "data"}
        /\ \A v \in Writers \ {w} : io[v] = "none"
    BY <1>1, <2>1, PendingWrite
  <2>3. PICK n \in Nat : Numbering(n)
    BY <2>2 DEF PInv
  <2>4. /\ Whole /\ current[w] = n
        /\ pc[w] = "data" => Len(wire) + 1 = 2 * n
    BY <2>1, <2>2, <2>3 DEF Numbering, WireAt, WriterAt
  <2>5. CASE IoWrites(w) /\ pc[w] = "data"
    <3>1. wire' = Append(wire, [part |-> "data", msg |-> n])
      BY <2>4, <2>5 DEF IoWrites
    <3>2. Len(Delivered) = n - 1 /\ Delivered' = Append(Delivered, n)
      BY <1>1, <2>4, <2>5, <3>1, DeliversNext DEF PInv
    <3>3. n <= calls["send"] /\ calls["send"] \in Nat
      <4>1. Len(writeQueue) \in Nat /\ calls["send"] \in Nat
        BY <1>1 DEF IInv, TypeOK, Calls
      <4> QED BY <2>3, <4>1 DEF Numbering, MailNumbered, Numbered
    <3>4. Len(Delivered) < calls["send"] /\ Len(Delivered) + 1 = n
      BY <3>2, <3>3
    <3>5. Pipe!Deliver
      BY <2>1, <2>2, <3>2, <3>4 DEF Pipe!Deliver
    <3> QED BY <3>5 DEF Pipe!Next
  <2>6. CASE \E part \in {"prefix", "torn"} : wire' = Append(wire, [part |-> part, msg |-> n])
    <3>1. Delivered' = Delivered
      BY <1>1, <2>6, DeliversNothing
    <3> QED BY <2>1, <3>1 DEF Pipe!vars
  <2>7. CASE wire' = wire
    BY <1>1, <2>1, <2>7, ClosesOrStutters
  <2>8. \/ (IoWrites(w) /\ pc[w] = "data") \/ wire' = wire
        \/ \E part \in {"prefix", "torn"} : wire' = Append(wire, [part |-> part, msg |-> n])
    BY <1>4, <2>2, <2>4 DEF IoWrites, IoWriteBreaks
  <2> QED BY <2>5, <2>6, <2>7, <2>8
<1>5. CASE Next /\ ~Send /\ ~\E w \in Writers : IoWrites(w) \/ IoWriteBreaks(w)
  <2>1. wire' = wire /\ (closed => closed')
    BY <1>1, <1>5, WireStays, NoReturn
  <2>2. calls'["send"] = calls["send"]
    <3>1. calls \in [Calls -> Nat]
      BY <1>1 DEF IInv, TypeOK
    <3>2. CASE Start \/ Stop \/ Release
      BY <3>1, <3>2 DEF Start, Stop, Release, Post, Calls
    <3>3. CASE Strand
      BY <3>3 DEF Strand, ExpiredJob, StartImpl, StopJob, SendImpl, ownerVars
    <3>4. CASE ReadLoop
      BY <3>4 DEF ReadLoop, ReaderStarts, ReaderFails, ReaderDrops, ReaderHandles,
                  HandlerReturns, HandlerThrows, readerFrame, ownerVars
    <3>5. ASSUME NEW w \in Writers, WriteLoop(w) PROVE calls' = calls
      BY <3>5 DEF WriteLoop, WriterSendsPrefix, WriterRejects, WriterSendsData, WriterFails,
                  WriterEnds, writerFrame, ownerVars
    <3>6. CASE Network
      BY <1>5, <3>6 DEF Network, IoReads, IoReadsEof, IoReadBreaks, PeerSends, PeerCloses,
                        ioFrame, ownerVars
    <3> QED BY <1>5, <3>2, <3>3, <3>4, <3>5, <3>6 DEF Next, Owner
  <2> QED BY <1>1, <2>1, <2>2, ClosesOrStutters
<1> QED BY <1>2, <1>3, <1>4, <1>5

\* A Connection is a FIFO pipe that works until it closes, once, for any queue limit and
\* any interleaving (Connection.hpp:175-313).
THEOREM ConnectionIsAPipe == Spec => PipeSpec
BY PipeInitMaps, PipeStepMaps, PipeInvariance, PTL DEF Spec, PipeSpec, Pipe!Spec
===============================================================================
