-------------------------------- MODULE Server --------------------------------
(***************************************************************************)
(* The server: TcpServer's accept loop, ServerConnectionManager,           *)
(* ServerMessageHandler and the connections, on top of WorldService.       *)
(*                                                                         *)
(* All of it runs on the one thread of io_context::run, one handler at a   *)
(* time.  A connection is used through what Connection.tla shows of it:    *)
(* posted calls run in order, a read may complete before the connection    *)
(* closes and resume after, and the close handler runs once.  A definition *)
(* whose name extends the next one's is a faulty variant of it that no     *)
(* action uses.                                                            *)
(***************************************************************************)
EXTENDS WorldService, Sequences, FiniteSets

CONSTANTS
  IdSpace,      \* number of values of connection_id (2^16)
  MaxRequests,  \* bound: requests a client sends on one connection
  Kinds         \* payloads of a request: "ping", "state_snapshot", "unset"

ASSUME IdAssumption == IdSpace \in Nat \ {0} /\ Keys = 0 .. IdSpace - 1

ASSUME KindAssumption == Kinds \subseteq {"ping", "state_snapshot", "unset"}

VARIABLES
  loop,         \* the accept loop: "running", "ended" or "died"
  stopped,      \* m_stopped of TcpServer and of the manager
  lastId,       \* m_nextConnectionId
  registered,   \* keys of m_connections
  status,       \* each connection: "none", "created", "open", "closed", "destroyed"
  posted,       \* calls posted to its strand
  sent,         \* requests its client sent
  taken,        \* requests its readMessage has taken
  got,          \* a read has completed and not yet resumed
  wire          \* responses it wrote

acceptVars == <<loop, lastId>>
connVars   == <<status, posted, taken, got, wire>>
vars == <<worldVars, acceptVars, stopped, registered, connVars, sent>>

NoResponse == [id |-> 0, status |-> "none", shown |-> {}]

Init ==
  /\ WorldInit
  /\ loop = "running" /\ stopped = FALSE /\ lastId = 0
  /\ registered = {}
  /\ status = [k \in Keys |-> "none"]
  /\ posted = [k \in Keys |-> <<>>]
  /\ sent = [k \in Keys |-> <<>>]
  /\ taken = [k \in Keys |-> 0]
  /\ got = [k \in Keys |-> FALSE]
  /\ wire = [k \in Keys |-> <<>>]

Job(op, response) == [op |-> op, response |-> response]

-------------------------------------------------------------------------------
(* TcpServer and ServerConnectionManager::create.                          *)

NextId == (lastId + 1) % IdSpace

IdsExhaustedUnchecked == FALSE

\* The counter has wrapped around: ids are never handed out twice.
IdsExhausted == NextId = 0

Accept ==
  /\ loop = "running" /\ ~stopped /\ ~IdsExhausted
  /\ lastId' = NextId
  /\ registered' = registered \cup {NextId}
  /\ status' = [status EXCEPT ![NextId] = "created"]
  /\ posted' = [posted EXCEPT ![NextId] = <<Job("start", NoResponse)>>]
  /\ UNCHANGED <<worldVars, loop, stopped, taken, got, wire, sent>>

\* create() throws "Too many connections"; the loop was spawned detached.
AcceptThrows ==
  /\ loop = "running" /\ ~stopped /\ IdsExhausted
  /\ lastId' = NextId
  /\ loop' = "died"
  /\ UNCHANGED <<worldVars, stopped, registered, connVars, sent>>

\* The accept is cancelled, or has completed and create() returns null.
AcceptEnds ==
  /\ loop = "running" /\ stopped
  /\ loop' = "ended"
  /\ UNCHANGED <<worldVars, lastId, stopped, registered, connVars, sent>>

StopAllDropsOnly ==
  /\ registered' = {}
  /\ status' = [k \in Keys |-> IF status[k] = "created" THEN "destroyed" ELSE status[k]]
  /\ UNCHANGED posted

\* stopAll.  A connection whose start() has not run has no coroutine to keep it
\* alive: it is destroyed with the snapshot, and its close handler never runs.
StopAll ==
  /\ registered' = {}
  /\ posted' = [k \in Keys |-> IF k \in registered
                               THEN Append(posted[k], Job("stop", NoResponse))
                               ELSE posted[k]]
  /\ status' = [k \in Keys |-> IF status[k] = "created" THEN "destroyed" ELSE status[k]]

Stop ==
  /\ ~stopped
  /\ stopped' = TRUE
  /\ StopAll
  /\ UNCHANGED <<worldVars, acceptVars, taken, got, wire, sent>>

-------------------------------------------------------------------------------
(* The connections.                                                        *)

\* stopImpl: onDisconnect, then remove() unless the manager is stopped.
Close(k) ==
  /\ status' = [status EXCEPT ![k] = "closed"]
  /\ DisconnectPlayer(k)
  /\ registered' = IF stopped THEN registered ELSE registered \ {k}

\* The strand runs a posted call.  A response is on the wire at once here: the queue and
\* the write coroutine between the two are Connection's part.
RunJob(k) ==
  /\ posted[k] # <<>>
  /\ posted' = [posted EXCEPT ![k] = Tail(@)]
  /\ LET job == Head(posted[k]) IN
       CASE job.op = "start" /\ status[k] = "created" ->
              /\ status' = [status EXCEPT ![k] = "open"]
              /\ UNCHANGED <<worldVars, registered, wire>>
         [] job.op = "send" /\ status[k] = "open" ->
              /\ wire' = [wire EXCEPT ![k] = Append(@, job.response)]
              /\ UNCHANGED <<worldVars, registered, status>>
         [] job.op = "stop" /\ status[k] = "open" ->
              Close(k) /\ UNCHANGED wire
         [] OTHER -> UNCHANGED <<worldVars, registered, status, wire>>
  /\ UNCHANGED <<acceptVars, stopped, taken, got, sent>>

\* The client closes, a read or a write fails, or the write queue overflows.
Break(k) ==
  /\ status[k] = "open"
  /\ Close(k)
  /\ UNCHANGED <<acceptVars, stopped, posted, taken, got, wire, sent>>

ClientSends(k, kind) ==
  /\ status[k] = "open" /\ Len(sent[k]) < MaxRequests
  /\ sent' = [sent EXCEPT ![k] = Append(@, kind)]
  /\ UNCHANGED <<worldVars, acceptVars, stopped, registered, connVars>>

ReadCompletes(k) ==
  /\ status[k] = "open" /\ ~got[k] /\ taken[k] < Len(sent[k])
  /\ got' = [got EXCEPT ![k] = TRUE]
  /\ taken' = [taken EXCEPT ![k] = @ + 1]
  /\ UNCHANGED <<worldVars, acceptVars, stopped, registered, status, posted, wire, sent>>

\* The read resumes on a closed connection and is dropped (Connection.hpp:217).
ReadDropped(k) ==
  /\ got[k] /\ status[k] = "closed"
  /\ got' = [got EXCEPT ![k] = FALSE]
  /\ UNCHANGED <<worldVars, acceptVars, stopped, registered, status, posted, taken, wire,
                 sent>>

-------------------------------------------------------------------------------
(* ServerMessageHandler::onMessage and ServerConnectionManager::send.      *)

ResponseWithoutId(id, kind, shown) ==
  [id     |-> 0,
   status |-> IF kind = "unset" THEN "error" ELSE "ok",
   shown  |-> IF kind = "state_snapshot" THEN shown ELSE {}]

\* request_id is copied from the request, which here is its number.
Response(id, kind, shown) ==
  [id     |-> id,
   status |-> IF kind = "unset" THEN "error" ELSE "ok",
   shown  |-> IF kind = "state_snapshot" THEN shown ELSE {}]

MayHandleClosed(k) == got[k]

MayHandle(k) == got[k] /\ status[k] = "open"

SnapshotBeforeConnect == players

\* The snapshot is taken after the sender was given a player.
Snapshot == players'

SendResponse(k, response) ==
  posted' = IF k \in registered /\ ~stopped
            THEN [posted EXCEPT ![k] = Append(@, Job("send", response))]
            ELSE posted

Handle(k) ==
  /\ MayHandle(k) /\ ~ConnectThrows(k)
  /\ got' = [got EXCEPT ![k] = FALSE]
  /\ ConnectPlayer(k)
  /\ SendResponse(k, Response(taken[k], sent[k][taken[k]], Snapshot))
  /\ UNCHANGED <<acceptVars, stopped, registered, status, taken, wire, sent>>

HandleThrowsKeepsOpen(k) ==
  /\ MayHandle(k) /\ ConnectThrows(k)
  /\ got' = [got EXCEPT ![k] = FALSE]
  /\ UNCHANGED <<worldVars, acceptVars, stopped, registered, status, posted, taken, wire,
                 sent>>

\* "Too many players": the exception leaves onMessage and closes the connection.
HandleThrows(k) ==
  /\ MayHandle(k) /\ ConnectThrows(k)
  /\ got' = [got EXCEPT ![k] = FALSE]
  /\ Close(k)
  /\ UNCHANGED <<acceptVars, stopped, posted, taken, wire, sent>>

-------------------------------------------------------------------------------

ReadStep(k) == ReadCompletes(k) \/ ReadDropped(k) \/ Handle(k) \/ HandleThrows(k)

Next ==
  \/ Accept \/ AcceptThrows \/ AcceptEnds \/ Stop
  \/ \E k \in Keys :
       \/ RunJob(k) \/ Break(k) \/ ReadStep(k)
       \/ \E kind \in Kinds : ClientSends(k, kind)

Spec == Init /\ [][Next]_vars

\* io.run() executes every ready handler and reads what has arrived.
Fairness ==
  /\ WF_vars(AcceptEnds)
  /\ \A k \in Keys : WF_vars(RunJob(k)) /\ WF_vars(ReadStep(k))

FairSpec == Spec /\ Fairness

-------------------------------------------------------------------------------
(* Properties.                                                             *)

Responses == [id : 0 .. MaxRequests, status : {"none", "ok", "error"},
              shown : SUBSET PlayerIds]

\* The types of the variables.
TypeOK ==
  /\ WorldTypeOK
  /\ loop \in {"running", "ended", "died"} /\ stopped \in BOOLEAN
  /\ lastId \in Keys /\ registered \subseteq Keys
  /\ status \in [Keys -> {"none", "created", "open", "closed", "destroyed"}]
  /\ posted \in [Keys -> Seq([op : {"start", "send", "stop"}, response : Responses])]
  /\ sent \in [Keys -> Seq(Kinds)]
  /\ taken \in [Keys -> 0 .. MaxRequests]
  /\ got \in [Keys -> BOOLEAN]
  /\ wire \in [Keys -> Seq(Responses)]

\* Only an open connection has a player: none is left behind in the world when
\* its client goes, even when a message of the client was read before the close
\* and its handler resumes after (Connection.hpp:217, ServerConnectionManager.cpp:51-55).
NoGhostPlayer == \A k \in Keys : binding[k] # NoPlayer => status[k] = "open"

\* The manager knows exactly the connections that can still be served, and no
\* connection id was given to two of them: the ids in use are those up to the
\* counter, until it wraps around (ServerConnectionManager.cpp:12-39, 57-73, 122-136).
RegistryMatches ==
  /\ registered = IF stopped THEN {} ELSE {k \in Keys : status[k] \in {"created", "open"}}
  /\ loop # "died" => {k \in Keys : status[k] # "none"} = 1 .. lastId

\* The responses on a connection answer its requests one by one, in order, each under
\* its own request_id; and whoever asks for the state sees himself in it, from the
\* first request on (ServerConnectionManager.cpp:41-49, ServerMessageHandler.cpp:31-57).
AnswersInOrder ==
  \A k \in Keys :
    /\ Len(wire[k]) <= taken[k]
    /\ \A i \in DOMAIN wire[k] :
         /\ wire[k][i].id = i
         /\ wire[k][i].status = IF sent[k][i] = "unset" THEN "error" ELSE "ok"
         /\ status[k] = "open" /\ sent[k][i] = "state_snapshot" =>
              binding[k] \in wire[k][i].shown

\* A request without a payload is answered with STATUS_ERROR: docs/protocol.md:79
\* says so of every such request, here of those a running server takes.
UnsetIsAnswered ==
  [][\A k \in Keys :
        ~stopped /\ got[k] /\ ~got'[k] /\ status[k] = "open"
        /\ sent[k][taken[k]] = "unset" =>
          \E i \in DOMAIN posted'[k] \ DOMAIN posted[k] :
            posted'[k][i].response.status = "error"]_vars

\* Once the server was stopped the accept loop ends, every connection closes and
\* no player is left (TcpServer.cpp:74-86, ServerConnectionManager.cpp:122-136).
StopEmptiesServer ==
  stopped ~> /\ loop # "running" /\ players = {}
             /\ \A k \in Keys : status[k] \notin {"created", "open"}

\* A request of a client is answered, or the connection closes: no request is
\* left hanging on an open connection (ServerConnectionManager.cpp:41-49,
\* Connection.hpp:228-233).
RequestsAreAnswered ==
  \A k \in Keys :
    Len(sent[k]) > 0 ~> status[k] # "open" \/ Len(wire[k]) = Len(sent[k])
===============================================================================
