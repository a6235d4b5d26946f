----------------------------- MODULE ServerProofs -----------------------------
(***************************************************************************)
(* Proofs about Server for any number of connections, players and          *)
(* requests.  NoGhostPlayer and RegistryMatches need each other: a new     *)
(* connection has no player because its id was never used before, which    *)
(* the registry knows.  The world below is WorldService, so what           *)
(* WorldServiceProofs says of it holds of the server's world.              *)
(***************************************************************************)
EXTENDS Server, WorldServiceProofs, SequenceTheorems

\* The types of what the registry depends on; what the strands carry is not part of it.
ServerTypeOK ==
  /\ loop \in {"running", "ended", "died"} /\ stopped \in BOOLEAN
  /\ lastId \in Keys /\ registered \subseteq Keys
  /\ status \in [Keys -> {"none", "created", "open", "closed", "destroyed"}]

SInv == IInv /\ ServerTypeOK /\ NoGhostPlayer /\ RegistryMatches

-------------------------------------------------------------------------------

\* The counter counts until it wraps around to zero (connection_id.hpp:8-26).
LEMMA NextIdCounts ==
  ASSUME lastId \in Keys, ~IdsExhausted
  PROVE  NextId = lastId + 1 /\ NextId \in Keys
<1>1. IdSpace \in Nat \ {0} /\ lastId \in Nat /\ lastId <= IdSpace - 1 /\ Keys = 0 .. IdSpace - 1
  BY IdAssumption
<1>2. CASE lastId + 1 = IdSpace
  <2>1. (lastId + 1) % IdSpace = 0
    BY <1>1, <1>2
  <2> QED BY <2>1 DEF IdsExhausted, NextId
<1>3. CASE lastId + 1 < IdSpace
  <2>1. (lastId + 1) % IdSpace = lastId + 1
    BY <1>1, <1>3
  <2> QED BY <1>1, <1>3, <2>1 DEF NextId
<1> QED BY <1>1, <1>2, <1>3

\* At the start there are no connections (TcpServer.hpp:31-37).
LEMMA ServerInitEstablishes == Init => SInv
<1> SUFFICES ASSUME Init PROVE SInv
  OBVIOUS
<1>1. IInv
  BY WorldInitEstablishes DEF Init
<1>2. 0 \in Keys /\ 1 .. 0 = {}
  BY IdAssumption
<1> QED BY <1>1, <1>2 DEF Init, SInv, ServerTypeOK, NoGhostPlayer, RegistryMatches, WorldInit, NoPlayer

\* A step that leaves the world, the registry and the connections' states alone.
LEMMA QuietStep ==
  ASSUME SInv, UNCHANGED <<worldVars, stopped, registered, status, lastId>>,
         loop' = loop \/ (loop = "running" /\ loop' \in {"ended", "died"})
  PROVE  SInv'
BY DEF SInv, IInv, WorldTypeOK, PlayersAreBound, worldVars, ServerTypeOK, NoGhostPlayer,
       RegistryMatches

\* The accept loop registers a connection under an id that was never used.
LEMMA AcceptStep ==
  ASSUME SInv, Accept
  PROVE  SInv'
<1>1. /\ ~stopped /\ UNCHANGED <<worldVars, loop, stopped>> /\ loop = "running"
      /\ lastId' = lastId + 1 /\ lastId + 1 \in Keys
      /\ registered' = registered \cup {lastId + 1}
      /\ status' = [status EXCEPT ![lastId + 1] = "created"]
  BY NextIdCounts DEF Accept, SInv, ServerTypeOK
<1>2. lastId \in Nat
  BY IdAssumption DEF SInv, ServerTypeOK
<1>3. status[lastId + 1] = "none"
  <2>1. lastId + 1 \notin 1 .. lastId
    BY <1>2
  <2> QED BY <1>1, <2>1 DEF SInv, RegistryMatches
<1>4. IInv'
  BY <1>1 DEF SInv, IInv, WorldTypeOK, PlayersAreBound, worldVars
<1>5. ServerTypeOK'
  BY <1>1 DEF SInv, ServerTypeOK
<1>6. NoGhostPlayer'
  BY <1>1, <1>3 DEF SInv, NoGhostPlayer, ServerTypeOK, worldVars
<1>7. RegistryMatches'
  <2>1. registered' = {k \in Keys : status'[k] \in {"created", "open"}}
    BY <1>1 DEF SInv, RegistryMatches, ServerTypeOK
  <2>2. {k \in Keys : status'[k] # "none"} = {k \in Keys : status[k] # "none"} \cup {lastId + 1}
    BY <1>1 DEF SInv, ServerTypeOK
  <2>3. (1 .. lastId) \cup {lastId + 1} = 1 .. lastId + 1
    BY <1>2
  <2> QED BY <1>1, <2>1, <2>2, <2>3 DEF SInv, RegistryMatches
<1> QED BY <1>4, <1>5, <1>6, <1>7 DEF SInv

\* stopAll empties the registry; what it destroys never had a player.
LEMMA StopStep ==
  ASSUME SInv, Stop
  PROVE  SInv'
<1>1. /\ stopped' = TRUE /\ registered' = {} /\ UNCHANGED <<worldVars, loop, lastId>>
      /\ status' = [k \in Keys |-> IF status[k] = "created" THEN "destroyed" ELSE status[k]]
  BY DEF Stop, StopAll, acceptVars
<1>2. IInv'
  BY <1>1 DEF SInv, IInv, WorldTypeOK, PlayersAreBound, worldVars
<1>3. ServerTypeOK' /\ NoGhostPlayer'
  BY <1>1 DEF SInv, ServerTypeOK, NoGhostPlayer, worldVars
<1>4. {k \in Keys : status'[k] # "none"} = {k \in Keys : status[k] # "none"}
  BY <1>1 DEF SInv, ServerTypeOK
<1> QED BY <1>1, <1>2, <1>3, <1>4 DEF SInv, RegistryMatches

\* stopImpl of an open connection: its player and its registration go with it.
LEMMA CloseStep ==
  ASSUME SInv, NEW k \in Keys, status[k] = "open", Close(k),
         UNCHANGED <<loop, stopped, lastId>>
  PROVE  SInv'
<1>1. /\ status' = [status EXCEPT ![k] = "closed"]
      /\ DisconnectPlayer(k)
      /\ registered' = IF stopped THEN registered ELSE registered \ {k}
  BY DEF Close
<1>2. IInv'
  BY <1>1, DisconnectStep DEF SInv
<1>3. binding'[k] = NoPlayer /\ \A j \in Keys \ {k} : binding'[j] = binding[j]
  BY <1>1 DEF DisconnectPlayer, Unbound, worldVars, SInv, IInv, WorldTypeOK
<1>4. ServerTypeOK'
  BY <1>1 DEF SInv, ServerTypeOK
<1>5. NoGhostPlayer'
  BY <1>1, <1>3 DEF SInv, ServerTypeOK, NoGhostPlayer
<1>6. RegistryMatches'
  <2>1. {j \in Keys : status'[j] # "none"} = {j \in Keys : status[j] # "none"}
    BY <1>1 DEF SInv, ServerTypeOK
  <2>2. {j \in Keys : status'[j] \in {"created", "open"}}
          = {j \in Keys : status[j] \in {"created", "open"}} \ {k}
    BY <1>1 DEF SInv, ServerTypeOK
  <2> QED BY <1>1, <2>1, <2>2 DEF SInv, RegistryMatches
<1> QED BY <1>2, <1>4, <1>5, <1>6 DEF SInv

\* A posted call is executed: start opens, stop closes, a send only writes.
LEMMA JobStep ==
  ASSUME SInv, NEW k \in Keys, RunJob(k)
  PROVE  SInv'
<1> DEFINE job == Head(posted[k])
<1>1. UNCHANGED <<loop, stopped, lastId>>
  BY DEF RunJob, acceptVars
<1>2. CASE job.op = "start" /\ status[k] = "created"
  <2>1. status' = [status EXCEPT ![k] = "open"] /\ UNCHANGED <<worldVars, registered>>
    BY <1>2 DEF RunJob
  <2>2. IInv' /\ ServerTypeOK'
    BY <1>1, <2>1 DEF SInv, IInv, WorldTypeOK, PlayersAreBound, worldVars, ServerTypeOK
  <2>3. NoGhostPlayer'
    BY <2>1 DEF SInv, NoGhostPlayer, ServerTypeOK, worldVars
  <2>4. /\ {j \in Keys : status'[j] # "none"} = {j \in Keys : status[j] # "none"}
        /\ {j \in Keys : status'[j] \in {"created", "open"}}
             = {j \in Keys : status[j] \in {"created", "open"}}
    BY <1>2, <2>1 DEF SInv, ServerTypeOK
  <2> QED BY <1>1, <2>1, <2>2, <2>3, <2>4 DEF SInv, RegistryMatches
<1>3. CASE job.op = "stop" /\ status[k] = "open"
  <2>1. Close(k)
    BY <1>3 DEF RunJob
  <2> QED BY <1>1, <1>3, <2>1, CloseStep
<1>4. CASE ~(job.op = "start" /\ status[k] = "created") /\ ~(job.op = "stop" /\ status[k] = "open")
  <2>1. UNCHANGED <<worldVars, registered, status>>
    BY <1>4 DEF RunJob
  <2> QED BY <1>1, <2>1, QuietStep
<1> QED BY <1>2, <1>3, <1>4

\* A request is handled on an open connection only, which may give it a player.
LEMMA HandleStep ==
  ASSUME SInv, NEW k \in Keys, Handle(k)
  PROVE  SInv'
<1>1. /\ status[k] = "open" /\ ConnectPlayer(k)
      /\ UNCHANGED <<loop, lastId, stopped, registered, status>>
  BY DEF Handle, MayHandle, acceptVars
<1>2. IInv'
  BY <1>1, ConnectStep DEF SInv
<1>3. \A j \in Keys \ {k} : binding'[j] = binding[j]
  BY <1>1 DEF ConnectPlayer, Unbound, worldVars, SInv, IInv, WorldTypeOK
<1>4. ServerTypeOK' /\ NoGhostPlayer' /\ RegistryMatches'
  BY <1>1, <1>3 DEF SInv, ServerTypeOK, NoGhostPlayer, RegistryMatches
<1> QED BY <1>2, <1>4 DEF SInv

LEMMA ServerStepKeeps == SInv /\ [Next]_vars => SInv'
<1> SUFFICES ASSUME SInv, [Next]_vars PROVE SInv'
  OBVIOUS
<1>1. CASE UNCHANGED vars
  BY <1>1, QuietStep DEF vars, acceptVars, connVars
<1>2. CASE Accept
  BY <1>2, AcceptStep
<1>3. CASE AcceptThrows
  <2>1. UNCHANGED <<worldVars, stopped, registered, status>> /\ loop' = "died"
    BY <1>3 DEF AcceptThrows, connVars
  <2>2. lastId' \in Keys
    BY <1>3, IdAssumption DEF AcceptThrows, IdsExhausted
  <2> QED BY <2>1, <2>2 DEF SInv, IInv, WorldTypeOK, PlayersAreBound, worldVars,
                            ServerTypeOK, NoGhostPlayer, RegistryMatches
<1>4. CASE AcceptEnds
  BY <1>4, QuietStep DEF AcceptEnds, connVars
<1>5. CASE Stop
  BY <1>5, StopStep
<1>6. ASSUME NEW k \in Keys, RunJob(k) PROVE SInv'
  BY <1>6, JobStep
<1>7. ASSUME NEW k \in Keys, Break(k) PROVE SInv'
  BY <1>7, CloseStep DEF Break, acceptVars
<1>8. ASSUME NEW k \in Keys, ReadStep(k) PROVE SInv'
  <2>1. CASE ReadCompletes(k) \/ ReadDropped(k)
    BY <2>1, QuietStep DEF ReadCompletes, ReadDropped, acceptVars
  <2>2. CASE Handle(k)
    BY <2>2, HandleStep
  <2>3. CASE HandleThrows(k)
    BY <2>3, CloseStep DEF HandleThrows, MayHandle, acceptVars
  <2> QED BY <1>8, <2>1, <2>2, <2>3 DEF ReadStep
<1>9. ASSUME NEW k \in Keys, NEW kind \in Kinds, ClientSends(k, kind) PROVE SInv'
  BY <1>9, QuietStep DEF ClientSends, acceptVars, connVars
<1> QED BY <1>1, <1>2, <1>3, <1>4, <1>5, <1>6, <1>7, <1>8, <1>9 DEF Next

\* SInv is an inductive invariant of the server.
THEOREM ServerInvariance == Spec => []SInv
BY ServerInitEstablishes, ServerStepKeeps, PTL DEF Spec

\* No player outlives his connection, whatever is read, posted or closed in between
\* (Connection.hpp:217, ServerConnectionManager.cpp:51-55).
THEOREM NoGhosts == Spec => []NoGhostPlayer
BY ServerInvariance, PTL DEF SInv

\* The registry holds the live connections, and ids are not used twice
\* (ServerConnectionManager.cpp:12-39, 57-73, 122-136).
THEOREM Registry == Spec => []RegistryMatches
BY ServerInvariance, PTL DEF SInv

-------------------------------------------------------------------------------

\* A step of the server is a step of the world or leaves it alone.
LEMMA WorldStep ==
  ASSUME [Next]_vars
  PROVE  [WorldNext]_worldVars
<1>1. CASE UNCHANGED vars
  BY <1>1 DEF vars
<1>2. CASE Accept \/ AcceptThrows \/ AcceptEnds \/ Stop
  BY <1>2 DEF Accept, AcceptThrows, AcceptEnds, Stop
<1>3. ASSUME NEW k \in Keys, RunJob(k) \/ Break(k) \/ ReadStep(k) PROVE [WorldNext]_worldVars
  <2>1. ConnectPlayer(k) \/ DisconnectPlayer(k) \/ UNCHANGED worldVars
    BY <1>3 DEF RunJob, Break, Close, ReadStep, ReadCompletes, ReadDropped, Handle, HandleThrows
  <2> QED BY <2>1 DEF WorldNext
<1>4. ASSUME NEW k \in Keys, NEW kind \in Kinds, ClientSends(k, kind)
      PROVE  [WorldNext]_worldVars
  BY <1>4 DEF ClientSends
<1> QED BY <1>1, <1>2, <1>3, <1>4 DEF Next

\* The server implements WorldService: handlers, closes and the stop use the world
\* through connect() and disconnect() alone (ServerMessageHandler.cpp:31-61).
THEOREM ServerImplementsWorld == Spec => WorldSpec
<1>1. Init => WorldInit
  BY DEF Init
<1> QED BY <1>1, WorldStep, PTL DEF Spec, WorldSpec

-------------------------------------------------------------------------------
(* The responses of a connection, from the handler to the wire.            *)

Reply == [id : Nat, status : {"none", "ok", "error"}, shown : SUBSET PlayerIds]

StreamTypes ==
  /\ posted \in [Keys -> Seq([op : {"start", "send", "stop"}, response : Reply])]
  /\ sent \in [Keys -> Seq(Kinds)]
  /\ taken \in [Keys -> Nat] /\ got \in [Keys -> BOOLEAN]
  /\ wire \in [Keys -> Seq(Reply)]

\* r is the response to the i-th request of a connection.
Answers(k, r, i) ==
  /\ i \in 1 .. taken[k] /\ r.id = i
  /\ r.status = IF sent[k][i] = "unset" THEN "error" ELSE "ok"
  /\ status[k] = "open" /\ sent[k][i] = "state_snapshot" =>
       binding[k] \in r.shown /\ binding[k] # NoPlayer

\* The responses that wait on the strand continue those on the wire.
Queued(k) ==
  \A i \in 1 .. Len(posted[k]) :
    /\ posted[k][i].op # "start"
    /\ posted[k][i].op = "send" => Answers(k, posted[k][i].response, Len(wire[k]) + i)

\* While the server runs, every request that was taken is answered or being handled.
Counted(k) ==
  /\ \A i \in 1 .. Len(posted[k]) : posted[k][i].op = "send"
  /\ Len(wire[k]) + Len(posted[k]) + (IF got[k] THEN 1 ELSE 0) = taken[k]

Stream(k) ==
  /\ taken[k] <= Len(sent[k])
  /\ \A i \in 1 .. Len(wire[k]) : Answers(k, wire[k][i], i)
  /\ status[k] \in {"none", "created"} => wire[k] = <<>> /\ taken[k] = 0 /\ ~got[k]
  /\ status[k] = "created" => posted[k] = <<Job("start", NoResponse)>>
  /\ status[k] = "open" => Queued(k)
  /\ status[k] = "open" /\ ~stopped => Counted(k)

AInv == SInv /\ StreamTypes /\ \A k \in Keys : Stream(k)

\* What is left of a strand when its first job is taken.
LEMMA TakeFirst ==
  ASSUME NEW S, NEW s \in Seq(S), s # <<>>
  PROVE  /\ Head(s) \in S /\ Head(s) = s[1]
         /\ Len(s) \in Nat /\ 1 \in 1 .. Len(s)
         /\ Tail(s) \in Seq(S) /\ Len(Tail(s)) = Len(s) - 1
         /\ \A i \in 1 .. Len(Tail(s)) : i + 1 \in 1 .. Len(s) /\ Tail(s)[i] = s[i + 1]
<1>1. Len(s) \in Nat /\ Len(s) > 0
  BY EmptySeq
<1>2. Tail(s) \in Seq(S) /\ Len(Tail(s)) = Len(s) - 1 /\ \A i \in 1 .. Len(s) - 1 : Tail(s)[i] = s[i + 1]
  BY HeadTailProperties
<1>3. Head(s) = s[1] /\ Head(s) \in S
  BY HeadTailProperties, <1>1
<1> QED BY <1>1, <1>2, <1>3

\* One more element at the end.
LEMMA PutLast ==
  ASSUME NEW S, NEW s \in Seq(S), NEW e \in S
  PROVE  /\ Len(s) \in Nat /\ Append(s, e) \in Seq(S) /\ Len(Append(s, e)) = Len(s) + 1
         /\ \A i \in 1 .. Len(Append(s, e)) :
              \/ i \in 1 .. Len(s) /\ Append(s, e)[i] = s[i]
              \/ i = Len(s) + 1 /\ Append(s, e)[i] = e
BY AppendProperties

\* A connection the step does not concern.
LEMMA StreamStays ==
  ASSUME NEW k \in Keys, Stream(k), stopped => stopped',
         status'[k] = status[k], binding'[k] = binding[k], posted'[k] = posted[k],
         sent'[k] = sent[k], taken'[k] = taken[k], got'[k] = got[k], wire'[k] = wire[k]
  PROVE  Stream(k)'
<1>1. ASSUME NEW r, NEW i, Answers(k, r, i) PROVE Answers(k, r, i)'
  BY <1>1 DEF Answers
<1>2. Queued(k) => Queued(k)'
  BY <1>1 DEF Queued
<1>3. Counted(k) => Counted(k)'
  BY DEF Counted
<1>4. (\A i \in 1 .. Len(wire[k]) : Answers(k, wire[k][i], i))'
  BY <1>1 DEF Stream
<1> QED BY <1>2, <1>3, <1>4 DEF Stream

\* What is on the wire of a connection that closes stays what it is.
LEMMA ClosedStream ==
  ASSUME NEW k \in Keys, Stream(k), status'[k] = "closed" \/ status'[k] = "destroyed",
         UNCHANGED <<sent, taken, wire>>
  PROVE  Stream(k)'
BY DEF Stream, Answers

\* The close of a connection concerns no other one.
LEMMA CloseFrame ==
  ASSUME SInv, NEW k \in Keys, Close(k)
  PROVE  /\ status'[k] = "closed"
         /\ \A j \in Keys \ {k} : status'[j] = status[j] /\ binding'[j] = binding[j]
BY DEF Close, DisconnectPlayer, Unbound, worldVars, SInv, IInv, WorldTypeOK, ServerTypeOK

LEMMA AnswersInitEstablishes == Init => AInv
<1> SUFFICES ASSUME Init PROVE AInv
  OBVIOUS
<1>1. StreamTypes
  BY DEF Init, StreamTypes
<1>2. ASSUME NEW k \in Keys PROVE Stream(k)
  BY DEF Init, Stream
<1> QED BY <1>1, <1>2, ServerInitEstablishes DEF AInv

\* A new connection has one job, its start (ServerConnectionManager.cpp:12-39).
LEMMA AcceptAnswers ==
  ASSUME AInv, Accept
  PROVE  StreamTypes' /\ \A k \in Keys : Stream(k)'
<1> DEFINE n == lastId + 1
<1>1. /\ n \in Keys /\ status' = [status EXCEPT ![n] = "created"]
      /\ posted' = [posted EXCEPT ![n] = <<Job("start", NoResponse)>>]
      /\ UNCHANGED <<binding, stopped, taken, got, wire, sent, loop>>
  BY NextIdCounts DEF Accept, AInv, SInv, ServerTypeOK, worldVars
<1>2. status[n] = "none"
  <2>1. lastId \in Nat /\ lastId + 1 \notin 1 .. lastId
    BY IdAssumption DEF AInv, SInv, ServerTypeOK
  <2> QED BY <1>1, <2>1 DEF AInv, SInv, RegistryMatches, Accept
<1> HIDE DEF n
<1>3. StreamTypes'
  <2>1. Job("start", NoResponse) \in [op : {"start", "send", "stop"}, response : Reply]
    BY DEF Job, NoResponse, Reply
  <2>2. <<Job("start", NoResponse)>> \in Seq([op : {"start", "send", "stop"}, response : Reply])
    BY <2>1
  <2> QED BY <1>1, <2>2 DEF AInv, StreamTypes
<1>4. /\ status'[n] = "created" /\ posted'[n] = <<Job("start", NoResponse)>>
      /\ \A k \in Keys \ {n} : status'[k] = status[k] /\ posted'[k] = posted[k]
  BY <1>1 DEF AInv, SInv, ServerTypeOK, StreamTypes
<1>5. ASSUME NEW k \in Keys PROVE Stream(k)'
  <2>1. CASE k = n
    BY <1>1, <1>2, <1>4, <2>1 DEF AInv, Stream
  <2>2. CASE k # n
    <3>1. status'[k] = status[k] /\ posted'[k] = posted[k]
      BY <1>4, <2>2
    <3> QED BY <1>1, <3>1, StreamStays DEF AInv
  <2> QED BY <2>1, <2>2
<1> QED BY <1>3, <1>5

\* stopAll posts a stop behind what is already on each strand
\* (ServerConnectionManager.cpp:122-136).
LEMMA StopAnswers ==
  ASSUME AInv, Stop
  PROVE  StreamTypes' /\ \A k \in Keys : Stream(k)'
<1> DEFINE stop == Job("stop", NoResponse)
           Jobs == [op : {"start", "send", "stop"}, response : Reply]
<1>1. /\ stopped' = TRUE /\ UNCHANGED <<binding, taken, got, wire, sent>>
      /\ posted' = [k \in Keys |-> IF k \in registered THEN Append(posted[k], stop) ELSE posted[k]]
      /\ status' = [k \in Keys |-> IF status[k] = "created" THEN "destroyed" ELSE status[k]]
  BY DEF Stop, StopAll, worldVars
<1>2. stop \in Jobs /\ stop.op = "stop"
  BY DEF Job, NoResponse, Reply
<1>3. posted \in [Keys -> Seq(Jobs)]
  BY DEF AInv, StreamTypes
<1> HIDE DEF stop, Jobs
<1>4. StreamTypes'
  <2>1. \A k \in Keys : Append(posted[k], stop) \in Seq(Jobs)
    BY <1>2, <1>3, AppendProperties
  <2>2. posted' \in [Keys -> Seq(Jobs)]
    BY <1>1, <1>3, <2>1
  <2> QED BY <1>1, <2>2 DEF AInv, StreamTypes, Jobs
<1>5. ASSUME NEW k \in Keys PROVE Stream(k)'
  <2>1. CASE status[k] = "created"
    BY <1>1, <2>1, ClosedStream DEF AInv
  <2>2. CASE status[k] = "open"
    <3>1. status'[k] = "open" /\ posted'[k] \in {posted[k], Append(posted[k], stop)}
      BY <1>1, <2>2
    <3>2. /\ Len(posted[k]) \in Nat
          /\ \A i \in 1 .. Len(posted'[k]) :
               \/ i \in 1 .. Len(posted[k]) /\ posted'[k][i] = posted[k][i]
               \/ posted'[k][i] = stop
      <4>1. posted[k] \in Seq(Jobs)
        BY <1>3
      <4> QED BY <1>2, <3>1, <4>1, AppendProperties, SMTT(30)
    <3>3. ASSUME NEW r, NEW i, Answers(k, r, i) PROVE Answers(k, r, i)'
      BY <1>1, <2>2, <3>1, <3>3 DEF Answers
    <3>4. Queued(k)'
      BY <1>1, <1>2, <2>2, <3>2, <3>3 DEF AInv, Stream, Queued
    <3> QED BY <1>1, <2>2, <3>1, <3>3, <3>4 DEF AInv, Stream
  <2>3. CASE status[k] \notin {"created", "open"}
    BY <1>1, <2>3 DEF AInv, Stream, Answers
  <2> QED BY <2>1, <2>2, <2>3
<1> QED BY <1>4, <1>5

\* The strand of a connection runs its jobs in order (Connection.hpp:147-206).
LEMMA JobAnswers ==
  ASSUME AInv, NEW k \in Keys, RunJob(k)
  PROVE  StreamTypes' /\ \A j \in Keys : Stream(j)'
<1> DEFINE Jobs == [op : {"start", "send", "stop"}, response : Reply]
           job == Head(posted[k])
<1>1. /\ posted[k] # <<>> /\ posted' = [posted EXCEPT ![k] = Tail(posted[k])]
      /\ UNCHANGED <<stopped, taken, got, sent>>
  BY DEF RunJob
<1>2. /\ posted \in [Keys -> Seq(Jobs)] /\ posted[k] \in Seq(Jobs)
      /\ wire \in [Keys -> Seq(Reply)] /\ wire[k] \in Seq(Reply)
  BY DEF AInv, StreamTypes
<1> HIDE DEF Jobs
<1>3. /\ job \in Jobs /\ job = posted[k][1]
      /\ Len(posted[k]) \in Nat /\ 1 \in 1 .. Len(posted[k])
      /\ Tail(posted[k]) \in Seq(Jobs) /\ Len(Tail(posted[k])) = Len(posted[k]) - 1
      /\ \A i \in 1 .. Len(Tail(posted[k])) :
           i + 1 \in 1 .. Len(posted[k]) /\ Tail(posted[k])[i] = posted[k][i + 1]
  BY <1>1, <1>2, TakeFirst
<1>4. job.response \in Reply /\ job.op \in {"start", "send", "stop"}
  BY <1>3 DEF Jobs
<1>5. /\ posted'[k] = Tail(posted[k]) /\ \A j \in Keys \ {k} : posted'[j] = posted[j]
      /\ posted' \in [Keys -> Seq(Jobs)]
  BY <1>1, <1>2, <1>3
<1>0. /\ job.op = "start" /\ status[k] = "created" =>
           status' = [status EXCEPT ![k] = "open"] /\ UNCHANGED <<binding, wire>>
      /\ job.op = "send" /\ status[k] = "open" =>
           /\ wire' = [wire EXCEPT ![k] = Append(wire[k], job.response)]
           /\ UNCHANGED <<status, binding>>
      /\ job.op = "stop" /\ status[k] = "open" => Close(k) /\ UNCHANGED wire
      /\ ~(job.op = "start" /\ status[k] = "created") /\ ~(status[k] = "open" /\ job.op # "start") =>
           UNCHANGED <<binding, status, wire>>
  BY <1>4 DEF RunJob, worldVars
<1> HIDE DEF job
<1>6. CASE job.op = "start" /\ status[k] = "created"
  <2>1. status' = [status EXCEPT ![k] = "open"] /\ UNCHANGED <<binding, wire>>
    BY <1>0, <1>6
  <2>2. StreamTypes'
    BY <1>1, <1>5, <2>1 DEF AInv, StreamTypes, Jobs
  <2>3. status'[k] = "open" /\ \A j \in Keys \ {k} : status'[j] = status[j]
    BY <2>1 DEF AInv, SInv, ServerTypeOK
  <2>4. Stream(k)'
    <3>1. /\ wire[k] = <<>> /\ taken[k] = 0 /\ got[k] = FALSE /\ taken[k] <= Len(sent[k])
          /\ posted[k] = <<Job("start", NoResponse)>>
      BY <1>2, <1>6 DEF AInv, Stream, StreamTypes
    <3>2. Len(<<Job("start", NoResponse)>>) = 1 /\ Len(<<>>) = 0
      OBVIOUS
    <3>3. Len(wire'[k]) = 0 /\ Len(posted'[k]) = 0
      BY <1>3, <1>5, <2>1, <3>1, <3>2
    <3>4. 1 .. 0 = {} /\ taken'[k] = 0 /\ got'[k] = FALSE /\ taken'[k] <= Len(sent'[k])
      BY <1>1, <3>1
    <3>5. Queued(k)' /\ Counted(k)'
      BY <3>3, <3>4 DEF Queued, Counted
    <3> QED BY <2>3, <3>3, <3>4, <3>5 DEF Stream
  <2>5. ASSUME NEW j \in Keys \ {k} PROVE Stream(j)'
    BY <1>1, <1>5, <2>1, <2>3, StreamStays DEF AInv
  <2> QED BY <2>2, <2>4, <2>5
<1>7. CASE job.op = "send" /\ status[k] = "open"
  <2>1. /\ wire' = [wire EXCEPT ![k] = Append(wire[k], job.response)]
        /\ UNCHANGED <<status, binding>>
    BY <1>0, <1>7
  <2>2. /\ Len(wire[k]) \in Nat /\ Append(wire[k], job.response) \in Seq(Reply)
        /\ Len(Append(wire[k], job.response)) = Len(wire[k]) + 1
        /\ \A i \in 1 .. Len(Append(wire[k], job.response)) :
             \/ i \in 1 .. Len(wire[k]) /\ Append(wire[k], job.response)[i] = wire[k][i]
             \/ i = Len(wire[k]) + 1 /\ Append(wire[k], job.response)[i] = job.response
    BY <1>2, <1>4, PutLast
  <2>3. /\ wire' \in [Keys -> Seq(Reply)] /\ wire'[k] = Append(wire[k], job.response)
        /\ \A j \in Keys \ {k} : wire'[j] = wire[j]
    BY <1>2, <2>1, <2>2
  <2>4. StreamTypes'
    BY <1>1, <1>5, <2>3 DEF AInv, StreamTypes, Jobs
  <2> DEFINE n == Len(wire[k])
             m == Len(posted[k])
  <2>5. /\ n \in Nat /\ Len(wire'[k]) = n + 1
        /\ \A i \in 1 .. Len(wire'[k]) :
             (i \in 1 .. n /\ wire'[k][i] = wire[k][i]) \/ (i = n + 1 /\ wire'[k][i] = job.response)
    BY <2>2, <2>3
  <2>6. /\ m \in Nat /\ 1 \in 1 .. m /\ posted[k][1] = job /\ Len(posted'[k]) = m - 1
        /\ \A i \in 1 .. Len(posted'[k]) : i + 1 \in 1 .. m /\ posted'[k][i] = posted[k][i + 1]
    BY <1>3, <1>5
  <2>7. Stream(k) /\ Queued(k) /\ (~stopped => Counted(k))
    BY <1>7 DEF AInv, Stream
  <2>8. ASSUME NEW r, NEW i, Answers(k, r, i) PROVE Answers(k, r, i)'
    BY <1>1, <2>1, <2>8 DEF Answers
  <2>9. Answers(k, job.response, n + 1)
    BY <1>7, <2>6, <2>7 DEF Queued
  <2>10. (\A i \in 1 .. Len(wire[k]) : Answers(k, wire[k][i], i))'
    <3>1. \A i \in 1 .. n : Answers(k, wire[k][i], i)
      BY <2>7 DEF Stream
    <3> HIDE DEF n
    <3>2. ASSUME NEW i \in 1 .. Len(wire'[k]) PROVE Answers(k, wire[k][i], i)'
      <4>1. CASE i \in 1 .. n /\ wire'[k][i] = wire[k][i]
        <5>1. Answers(k, wire[k][i], i)
          BY <3>1, <4>1
        <5> QED BY <2>8, <4>1, <5>1
      <4>2. CASE i = n + 1 /\ wire'[k][i] = job.response
        BY <2>8, <2>9, <4>2
      <4> QED BY <2>5, <4>1, <4>2
    <3> QED BY <3>2
  <2>11. Queued(k)'
    <3> SUFFICES ASSUME NEW i \in 1 .. Len(posted'[k])
                 PROVE  /\ posted'[k][i].op # "start"
                        /\ posted'[k][i].op = "send" =>
                             Answers(k, posted[k][i].response, Len(wire[k]) + i)'
      BY DEF Queued
    <3>1. i + 1 \in 1 .. m /\ posted'[k][i] = posted[k][i + 1]
      BY <2>6
    <3>2. /\ posted[k][i + 1].op # "start"
          /\ posted[k][i + 1].op = "send" => Answers(k, posted[k][i + 1].response, n + (i + 1))
      BY <2>7, <3>1 DEF Queued
    <3>3. Len(wire'[k]) + i = n + (i + 1)
      <4>1. n \in Nat /\ i \in Nat /\ Len(wire'[k]) = n + 1
        BY <2>5, <2>6
      <4> HIDE DEF n, m
      <4> QED BY <4>1
    <3> QED BY <2>8, <3>1, <3>2, <3>3
  <2>12. ~stopped => Counted(k)'
    <3> SUFFICES ASSUME ~stopped PROVE Counted(k)'
      OBVIOUS
    <3>1. /\ \A i \in 1 .. m : posted[k][i].op = "send"
          /\ n + m + (IF got[k] THEN 1 ELSE 0) = taken[k]
      BY <2>7 DEF Counted
    <3>2. \A i \in 1 .. Len(posted'[k]) : posted'[k][i].op = "send"
      BY <2>6, <3>1
    <3>3. Len(wire'[k]) + Len(posted'[k]) = n + m
      <4>1. n \in Nat /\ m \in Nat /\ Len(wire'[k]) = n + 1 /\ Len(posted'[k]) = m - 1
        BY <2>5, <2>6
      <4> HIDE DEF n, m
      <4> QED BY <4>1
    <3> QED BY <1>1, <3>1, <3>2, <3>3 DEF Counted
  <2>13. Stream(k)'
    <3>1. status'[k] = "open" /\ taken'[k] <= Len(sent'[k])
      BY <1>1, <1>7, <2>1, <2>7 DEF Stream
    <3>2. stopped' = stopped
      BY <1>1
    <3> QED BY <2>10, <2>11, <2>12, <3>1, <3>2 DEF Stream
  <2>14. ASSUME NEW j \in Keys \ {k} PROVE Stream(j)'
    BY <1>1, <1>5, <2>1, <2>3, StreamStays DEF AInv
  <2> QED BY <2>4, <2>13, <2>14
<1>8. CASE job.op = "stop" /\ status[k] = "open"
  <2>1. Close(k) /\ UNCHANGED wire
    BY <1>0, <1>8
  <2>2. /\ status'[k] = "closed"
        /\ \A j \in Keys \ {k} : status'[j] = status[j] /\ binding'[j] = binding[j]
    BY <2>1, CloseFrame DEF AInv
  <2>3. StreamTypes'
    BY <1>1, <1>5, <2>1 DEF AInv, StreamTypes, Jobs
  <2>4. Stream(k)'
    BY <1>1, <2>1, <2>2, ClosedStream DEF AInv
  <2>5. ASSUME NEW j \in Keys \ {k} PROVE Stream(j)'
    BY <1>1, <1>5, <2>1, <2>2, StreamStays DEF AInv
  <2> QED BY <2>3, <2>4, <2>5
<1>9. CASE /\ ~(job.op = "start" /\ status[k] = "created")
           /\ ~(job.op = "send" /\ status[k] = "open")
           /\ ~(job.op = "stop" /\ status[k] = "open")
  <2>1. UNCHANGED <<binding, status, wire>>
    BY <1>0, <1>4, <1>9
  <2>2. StreamTypes'
    BY <1>1, <1>5, <2>1 DEF AInv, StreamTypes, Jobs
  <2>3. status[k] \notin {"created", "open"}
    <3>1. status[k] # "created"
      <4> SUFFICES ASSUME status[k] = "created" PROVE FALSE
        OBVIOUS
      <4>1. posted[k] = <<Job("start", NoResponse)>>
        BY DEF AInv, Stream
      <4>2. <<Job("start", NoResponse)>>[1].op = "start"
        BY DEF Job
      <4> QED BY <1>3, <1>9, <4>1, <4>2
    <3>2. status[k] = "open" => job.op # "start"
      BY <1>3 DEF AInv, Stream, Queued
    <3> QED BY <1>4, <1>9, <3>1, <3>2
  <2>4. Stream(k)'
    BY <1>1, <2>1, <2>3 DEF AInv, Stream, Answers
  <2>5. ASSUME NEW j \in Keys \ {k} PROVE Stream(j)'
    BY <1>1, <1>5, <2>1, StreamStays DEF AInv
  <2> QED BY <2>2, <2>4, <2>5
<1> QED BY <1>6, <1>7, <1>8, <1>9

\* A connection closes: what it wrote is not taken back (Connection.hpp:119-145).
LEMMA CloseAnswers ==
  ASSUME AInv, NEW k \in Keys, Close(k), UNCHANGED <<stopped, posted, taken, wire, sent>>,
         got' = got \/ got' = [got EXCEPT ![k] = FALSE]
  PROVE  StreamTypes' /\ \A j \in Keys : Stream(j)'
<1>1. /\ status'[k] = "closed"
      /\ \A j \in Keys \ {k} : status'[j] = status[j] /\ binding'[j] = binding[j]
  BY CloseFrame DEF AInv
<1>2. StreamTypes'
  BY DEF AInv, StreamTypes
<1>3. Stream(k)'
  BY <1>1, ClosedStream DEF AInv
<1>4. ASSUME NEW j \in Keys \ {k} PROVE Stream(j)'
  <2>1. got'[j] = got[j]
    BY DEF AInv, StreamTypes
  <2> QED BY <1>1, <2>1, StreamStays DEF AInv
<1> QED BY <1>2, <1>3, <1>4

\* A client sends a further request.
LEMMA SendAnswers ==
  ASSUME AInv, NEW k \in Keys, NEW kind \in Kinds, ClientSends(k, kind)
  PROVE  StreamTypes' /\ \A j \in Keys : Stream(j)'
<1>1. /\ status[k] = "open" /\ sent' = [sent EXCEPT ![k] = Append(sent[k], kind)]
      /\ UNCHANGED <<binding, stopped, status, posted, taken, got, wire>>
  BY DEF ClientSends, worldVars, connVars
<1>2. sent \in [Keys -> Seq(Kinds)] /\ sent[k] \in Seq(Kinds) /\ taken[k] \in Nat
  BY DEF AInv, StreamTypes
<1>3. /\ Len(sent[k]) \in Nat /\ Append(sent[k], kind) \in Seq(Kinds)
      /\ Len(Append(sent[k], kind)) = Len(sent[k]) + 1
      /\ \A i \in 1 .. Len(sent[k]) : Append(sent[k], kind)[i] = sent[k][i]
  BY <1>2, PutLast, AppendProperties
<1>4. /\ sent'[k] = Append(sent[k], kind) /\ sent' \in [Keys -> Seq(Kinds)]
      /\ \A j \in Keys \ {k} : sent'[j] = sent[j]
  BY <1>1, <1>2, <1>3
<1>5. StreamTypes'
  BY <1>1, <1>4 DEF AInv, StreamTypes
<1>6. Stream(k) /\ Queued(k) /\ (~stopped => Counted(k)) /\ taken[k] <= Len(sent[k])
  BY <1>1 DEF AInv, Stream
<1>7. ASSUME NEW r, NEW i, Answers(k, r, i) PROVE Answers(k, r, i)'
  <2>1. i \in 1 .. taken[k] /\ i \in 1 .. Len(sent[k])
    BY <1>2, <1>3, <1>6, <1>7 DEF Answers
  <2>2. sent'[k][i] = sent[k][i]
    BY <1>3, <1>4, <2>1
  <2> QED BY <1>1, <1>7, <2>2 DEF Answers
<1>8. Stream(k)'
  <2>1. taken'[k] <= Len(sent'[k])
    BY <1>1, <1>2, <1>3, <1>4, <1>6
  <2>2. (\A i \in 1 .. Len(wire[k]) : Answers(k, wire[k][i], i))'
    BY <1>1, <1>6, <1>7 DEF Stream
  <2>3. Queued(k)'
    BY <1>1, <1>6, <1>7 DEF Queued
  <2>4. ~stopped => Counted(k)'
    BY <1>1, <1>6 DEF Counted
  <2> QED BY <1>1, <2>1, <2>2, <2>3, <2>4 DEF Stream
<1>9. ASSUME NEW j \in Keys \ {k} PROVE Stream(j)'
  BY <1>1, <1>4, StreamStays DEF AInv
<1> QED BY <1>5, <1>8, <1>9

\* readMessage has taken the next request (Connection.hpp:210-216).
LEMMA ReadAnswers ==
  ASSUME AInv, NEW k \in Keys, ReadCompletes(k)
  PROVE  StreamTypes' /\ \A j \in Keys : Stream(j)'
<1>1. /\ status[k] = "open" /\ got[k] = FALSE /\ taken[k] < Len(sent[k])
      /\ got' = [got EXCEPT ![k] = TRUE] /\ taken' = [taken EXCEPT ![k] = taken[k] + 1]
      /\ UNCHANGED <<binding, stopped, status, posted, wire, sent>>
  BY DEF ReadCompletes, worldVars, AInv, StreamTypes
<1>2. sent[k] \in Seq(Kinds) /\ Len(sent[k]) \in Nat /\ taken[k] \in Nat
  BY DEF AInv, StreamTypes
<1>3. /\ got'[k] = TRUE /\ taken'[k] = taken[k] + 1
      /\ \A j \in Keys \ {k} : got'[j] = got[j] /\ taken'[j] = taken[j]
  BY <1>1 DEF AInv, StreamTypes
<1>4. StreamTypes'
  <2>1. taken \in [Keys -> Nat] /\ got \in [Keys -> BOOLEAN]
    BY DEF AInv, StreamTypes
  <2>2. taken' \in [Keys -> Nat] /\ got' \in [Keys -> BOOLEAN]
    BY <1>1, <1>2, <2>1
  <2> QED BY <1>1, <2>2 DEF AInv, StreamTypes
<1>5. Stream(k) /\ Queued(k) /\ (~stopped => Counted(k))
  BY <1>1 DEF AInv, Stream
<1>6. ASSUME NEW r, NEW i, Answers(k, r, i) PROVE Answers(k, r, i)'
  BY <1>1, <1>2, <1>3, <1>6 DEF Answers
<1>7. Stream(k)'
  <2>1. taken'[k] <= Len(sent'[k])
    BY <1>1, <1>2, <1>3
  <2>2. (\A i \in 1 .. Len(wire[k]) : Answers(k, wire[k][i], i))'
    BY <1>1, <1>5, <1>6 DEF Stream
  <2>3. Queued(k)'
    BY <1>1, <1>5, <1>6 DEF Queued
  <2>4. ~stopped => Counted(k)'
    <3> SUFFICES ASSUME ~stopped PROVE Counted(k)'
      OBVIOUS
    <3>1. /\ \A i \in 1 .. Len(posted[k]) : posted[k][i].op = "send"
          /\ Len(wire[k]) + Len(posted[k]) + (IF got[k] THEN 1 ELSE 0) = taken[k]
      BY <1>5 DEF Counted
    <3>2. Len(wire[k]) \in Nat /\ Len(posted[k]) \in Nat
      <4>1. /\ wire[k] \in Seq(Reply)
            /\ posted[k] \in Seq([op : {"start", "send", "stop"}, response : Reply])
        BY DEF AInv, StreamTypes
      <4> QED BY <4>1, LenProperties
    <3>3. Len(wire[k]) + Len(posted[k]) + 1 = taken[k] + 1
      <4> DEFINE n == Len(wire[k])
                 m == Len(posted[k])
                 t == taken[k]
      <4>1. n \in Nat /\ m \in Nat /\ t \in Nat
        BY <1>2, <3>2
      <4>2. n + m + 0 = t
        BY <1>1, <3>1
      <4> HIDE DEF n, m, t
      <4>3. n + m + 1 = t + 1
        BY <4>1, <4>2
      <4> QED BY <4>3 DEF n, m, t
    <3>4. UNCHANGED <<wire, posted>> /\ got'[k] = TRUE /\ taken'[k] = taken[k] + 1
      BY <1>1, <1>3
    <3> QED BY <3>1, <3>3, <3>4 DEF Counted
  <2> QED BY <1>1, <2>1, <2>2, <2>3, <2>4 DEF Stream
<1>8. ASSUME NEW j \in Keys \ {k} PROVE Stream(j)'
  BY <1>1, <1>3, StreamStays DEF AInv
<1> QED BY <1>4, <1>7, <1>8

\* A read that resumes on a closed connection is dropped (Connection.hpp:217).
LEMMA DropAnswers ==
  ASSUME AInv, NEW k \in Keys, ReadDropped(k)
  PROVE  StreamTypes' /\ \A j \in Keys : Stream(j)'
<1>1. /\ status[k] = "closed" /\ got' = [got EXCEPT ![k] = FALSE]
      /\ UNCHANGED <<binding, stopped, status, posted, taken, wire, sent>>
  BY DEF ReadDropped, worldVars
<1>2. StreamTypes' /\ \A j \in Keys \ {k} : got'[j] = got[j]
  BY <1>1 DEF AInv, StreamTypes
<1>3. Stream(k)'
  BY <1>1, ClosedStream DEF AInv
<1>4. ASSUME NEW j \in Keys \ {k} PROVE Stream(j)'
  BY <1>1, <1>2, StreamStays DEF AInv
<1> QED BY <1>2, <1>3, <1>4

\* The sender is connected first, so the snapshot shows him (ServerMessageHandler.cpp:31-57).
LEMMA SenderIsShown ==
  ASSUME AInv, NEW k \in Keys, Handle(k)
  PROVE  /\ players' \subseteq PlayerIds /\ binding'[k] \in players' /\ binding'[k] # NoPlayer
         /\ binding[k] # NoPlayer => binding'[k] = binding[k]
         /\ \A j \in Keys \ {k} : binding'[j] = binding[j]
<1>1. ConnectPlayer(k)
  BY DEF Handle
<1>2. WorldTypeOK' /\ WorldTypeOK
  BY HandleStep DEF AInv, SInv, IInv
<1>3. players' \subseteq PlayerIds
  <2>1. nextPlayer' \in 1 .. MaxPlayerId /\ players' \subseteq 1 .. nextPlayer' - 1
    BY <1>2 DEF WorldTypeOK
  <2>2. \A a, b \in Nat : a <= b => 1 .. a - 1 \subseteq 1 .. b - 1
    OBVIOUS
  <2>3. MaxPlayerId \in Nat /\ nextPlayer' \in Nat /\ nextPlayer' <= MaxPlayerId
    BY <2>1, PlayerIdAssumption
  <2>4. 1 .. nextPlayer' - 1 \subseteq 1 .. MaxPlayerId - 1
    BY <2>2, <2>3
  <2> QED BY <2>1, <2>4 DEF PlayerIds
<1>4. CASE Unbound(k)
  <2>1. binding' = [binding EXCEPT ![k] = nextPlayer] /\ players' = players \cup {nextPlayer}
    BY <1>1, <1>4 DEF ConnectPlayer, AddPlayer, NewId
  <2> QED BY <1>2, <1>3, <1>4, <2>1 DEF WorldTypeOK, Unbound, NoPlayer
<1>5. CASE ~Unbound(k)
  BY <1>1, <1>2, <1>3, <1>5 DEF ConnectPlayer, worldVars, WorldTypeOK, Unbound
<1> QED BY <1>4, <1>5

\* The response is posted behind those the connection still has to write
\* (ServerConnectionManager.cpp:41-49, 95-105).
LEMMA HandleAnswers ==
  ASSUME AInv, NEW k \in Keys, Handle(k)
  PROVE  StreamTypes' /\ \A j \in Keys : Stream(j)'
<1> DEFINE Jobs == [op : {"start", "send", "stop"}, response : Reply]
           n == Len(wire[k])
           m == Len(posted[k])
           t == taken[k]
<1>0. PICK r : r = Response(t, sent[k][t], players')
  OBVIOUS
<1>1. /\ got[k] = TRUE /\ status[k] = "open" /\ got' = [got EXCEPT ![k] = FALSE]
      /\ posted' = IF k \in registered /\ ~stopped
                   THEN [posted EXCEPT ![k] = Append(posted[k], Job("send", r))]
                   ELSE posted
      /\ UNCHANGED <<stopped, status, taken, wire, sent>>
  BY <1>0 DEF Handle, MayHandle, SendResponse, Snapshot, AInv, StreamTypes
<1>2. /\ players' \subseteq PlayerIds /\ binding'[k] \in players' /\ binding'[k] # NoPlayer
      /\ binding[k] # NoPlayer => binding'[k] = binding[k]
      /\ \A j \in Keys \ {k} : binding'[j] = binding[j]
  BY SenderIsShown
<1>3. /\ posted \in [Keys -> Seq(Jobs)] /\ posted[k] \in Seq(Jobs) /\ wire[k] \in Seq(Reply)
      /\ t \in Nat /\ got \in [Keys -> BOOLEAN]
  BY DEF AInv, StreamTypes
<1>4. n \in Nat /\ m \in Nat
  BY <1>3, LenProperties
<1>5. Job("send", r) \in Jobs /\ Job("send", r).op = "send" /\ Job("send", r).response = r
  BY <1>0, <1>2, <1>3 DEF Job, Response, Reply
<1>6. /\ r.id = t /\ r.status = IF sent[k][t] = "unset" THEN "error" ELSE "ok"
      /\ sent[k][t] = "state_snapshot" => r.shown = players'
  BY <1>0 DEF Response
<1> HIDE DEF Jobs, n, m, t
<1>7. /\ Append(posted[k], Job("send", r)) \in Seq(Jobs)
      /\ Len(Append(posted[k], Job("send", r))) = m + 1
      /\ \A i \in 1 .. m + 1 :
           \/ i \in 1 .. m /\ Append(posted[k], Job("send", r))[i] = posted[k][i]
           \/ i = m + 1 /\ Append(posted[k], Job("send", r))[i] = Job("send", r)
  BY <1>3, <1>5, PutLast DEF m
<1>8. /\ posted' \in [Keys -> Seq(Jobs)] /\ got' \in [Keys -> BOOLEAN] /\ got'[k] = FALSE
      /\ \A j \in Keys \ {k} : posted'[j] = posted[j] /\ got'[j] = got[j]
  BY <1>1, <1>3, <1>7
<1>9. StreamTypes'
  BY <1>1, <1>8 DEF AInv, StreamTypes, Jobs
<1>10. ASSUME NEW q, NEW i, Answers(k, q, i) PROVE Answers(k, q, i)'
  BY <1>1, <1>2, <1>10 DEF Answers
<1>11. Stream(k) /\ Queued(k) /\ (~stopped => Counted(k)) /\ taken[k] <= Len(sent[k])
  BY <1>1 DEF AInv, Stream
<1>12. (\A i \in 1 .. Len(wire[k]) : Answers(k, wire[k][i], i))'
  BY <1>1, <1>10, <1>11 DEF Stream
<1>13. ASSUME stopped PROVE Stream(k)'
  <2>1. posted' = posted /\ stopped'
    BY <1>1, <1>13
  <2>2. Queued(k)'
    BY <1>1, <1>10, <1>11, <2>1 DEF Queued
  <2> QED BY <1>1, <1>11, <1>12, <2>1, <2>2 DEF Stream
<1>14. ASSUME ~stopped PROVE Stream(k)'
  <2>1. k \in registered
    BY <1>1, <1>14 DEF AInv, SInv, RegistryMatches
  <2>2. posted'[k] = Append(posted[k], Job("send", r))
    BY <1>1, <1>3, <1>14, <2>1
  <2>3. /\ \A i \in 1 .. m : posted[k][i].op = "send"
        /\ n + m + 1 = t
    BY <1>1, <1>11, <1>14 DEF Counted, n, m, t
  <2>4. Len(posted'[k]) = m + 1 /\ \A i \in 1 .. m + 1 :
             \/ i \in 1 .. m /\ posted'[k][i] = posted[k][i]
             \/ i = m + 1 /\ posted'[k][i] = Job("send", r)
    BY <1>7, <2>2
  <2>5. Answers(k, r, t)'
    <3>1. t \in 1 .. t
      BY <1>3, <1>4, <2>3
    <3> QED BY <1>1, <1>2, <1>6, <3>1 DEF Answers, t
  <2>6. ASSUME NEW i \in 1 .. m + 1
        PROVE  posted'[k][i].op = "send" /\ Answers(k, posted[k][i].response, Len(wire[k]) + i)'
    <3>1. wire'[k] = wire[k] /\ Len(wire[k]) = n
      BY <1>1 DEF n
    <3>2. CASE i \in 1 .. m /\ posted'[k][i] = posted[k][i]
      <4>1. posted[k][i].op = "send" /\ Answers(k, posted[k][i].response, n + i)
        BY <1>11, <2>3, <3>2 DEF Queued, m, n
      <4> QED BY <1>10, <3>1, <3>2, <4>1
    <3>3. CASE i = m + 1 /\ posted'[k][i] = Job("send", r)
      <4>1. n + i = t
        BY <1>3, <1>4, <2>3, <3>3
      <4>2. Len(wire'[k]) + i = t' /\ posted'[k][i].response = r
        BY <1>1, <1>5, <3>1, <3>3, <4>1 DEF t
      <4> QED BY <1>5, <2>5, <3>3, <4>2
    <3> QED BY <2>4, <3>2, <3>3
  <2>7. Queued(k)'
    BY <2>4, <2>6 DEF Queued
  <2>8. Counted(k)'
    <3>1. \A i \in 1 .. Len(posted'[k]) : posted'[k][i].op = "send"
      BY <2>4, <2>6
    <3>2. n + (m + 1) + 0 = t
      BY <1>3, <1>4, <2>3
    <3>3. wire'[k] = wire[k] /\ taken'[k] = taken[k]
      BY <1>1
    <3> QED BY <1>8, <2>4, <3>1, <3>2, <3>3 DEF Counted, n, t
  <2> QED BY <1>1, <1>11, <1>12, <2>7, <2>8 DEF Stream
<1>15. ASSUME NEW j \in Keys \ {k} PROVE Stream(j)'
  BY <1>1, <1>2, <1>8, StreamStays DEF AInv
<1> QED BY <1>9, <1>13, <1>14, <1>15

LEMMA AnswersStepKeeps == AInv /\ [Next]_vars => AInv'
<1> SUFFICES ASSUME AInv, [Next]_vars PROVE StreamTypes' /\ \A j \in Keys : Stream(j)'
  BY ServerStepKeeps DEF AInv
<1>1. CASE UNCHANGED vars \/ AcceptThrows \/ AcceptEnds
  <2>1. UNCHANGED <<binding, stopped, status, posted, taken, got, wire, sent>>
    BY <1>1 DEF vars, worldVars, connVars, AcceptThrows, AcceptEnds
  <2>2. StreamTypes'
    BY <2>1 DEF AInv, StreamTypes
  <2>3. ASSUME NEW j \in Keys PROVE Stream(j)'
    BY <2>1, StreamStays DEF AInv
  <2> QED BY <2>2, <2>3
<1>2. CASE Accept
  BY <1>2, AcceptAnswers
<1>3. CASE Stop
  BY <1>3, StopAnswers
<1>4. ASSUME NEW k \in Keys, RunJob(k) PROVE StreamTypes' /\ \A j \in Keys : Stream(j)'
  BY <1>4, JobAnswers
<1>5. ASSUME NEW k \in Keys, Break(k) PROVE StreamTypes' /\ \A j \in Keys : Stream(j)'
  BY <1>5, CloseAnswers DEF Break
<1>6. ASSUME NEW k \in Keys, ReadStep(k) PROVE StreamTypes' /\ \A j \in Keys : Stream(j)'
  <2>1. CASE HandleThrows(k)
    BY <2>1, CloseAnswers DEF HandleThrows
  <2> QED BY <1>6, <2>1, ReadAnswers, DropAnswers, HandleAnswers DEF ReadStep
<1>7. ASSUME NEW k \in Keys, NEW kind \in Kinds, ClientSends(k, kind)
      PROVE  StreamTypes' /\ \A j \in Keys : Stream(j)'
  BY <1>7, SendAnswers
<1> QED BY <1>1, <1>2, <1>3, <1>4, <1>5, <1>6, <1>7 DEF Next

\* AInv is an inductive invariant of the server.
THEOREM AnswersInvariance == Spec => []AInv
BY AnswersInitEstablishes, AnswersStepKeeps, PTL DEF Spec

\* The responses on a connection answer its requests one by one, in order, and show
\* the player who asks his own place in the world (ServerConnectionManager.cpp:41-49,
\* ServerMessageHandler.cpp:31-57).
THEOREM OrderedAnswers == Spec => []AnswersInOrder
<1>1. AInv => AnswersInOrder
  <2> SUFFICES ASSUME AInv, NEW k \in Keys
               PROVE  /\ Len(wire[k]) <= taken[k]
                      /\ \A i \in DOMAIN wire[k] :
                           /\ wire[k][i].id = i
                           /\ wire[k][i].status = IF sent[k][i] = "unset" THEN "error" ELSE "ok"
                           /\ status[k] = "open" /\ sent[k][i] = "state_snapshot" =>
                                binding[k] \in wire[k][i].shown
    BY DEF AnswersInOrder
  <2>1. /\ Len(wire[k]) \in Nat /\ DOMAIN wire[k] = 1 .. Len(wire[k]) /\ taken[k] \in Nat
    <3>1. wire[k] \in Seq(Reply) /\ taken[k] \in Nat
      BY DEF AInv, StreamTypes
    <3> QED BY <3>1, LenProperties
  <2>2. \A i \in 1 .. Len(wire[k]) : Answers(k, wire[k][i], i)
    BY DEF AInv, Stream
  <2>3. Len(wire[k]) <= taken[k]
    <3>1. CASE Len(wire[k]) = 0
      BY <2>1, <3>1
    <3>2. CASE Len(wire[k]) # 0
      <4>1. Len(wire[k]) \in 1 .. taken[k]
        BY <2>1, <2>2, <3>2 DEF Answers
      <4> QED BY <2>1, <4>1
    <3> QED BY <3>1, <3>2
  <2> QED BY <2>1, <2>2, <2>3 DEF Answers
<1> QED BY <1>1, AnswersInvariance, PTL
===============================================================================
