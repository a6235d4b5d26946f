----------------------------- MODULE SystemProofs -----------------------------
(***************************************************************************)
(* One client and the server, for any number of calls, connections and     *)
(* requests.  Each of the two behaves in System as it does alone, so what  *)
(* ClientNetworkProofs and ServerProofs prove holds here too; the          *)
(* invariant added here relates the two ends of the connections, and from  *)
(* all three follows what the client and the server promise together.      *)
(***************************************************************************)
EXTENDS System, FiniteSetTheorems, SequenceTheorems, TLAPS

OfClient == INSTANCE ClientNetworkProofs

OfServer == INSTANCE ServerProofs

-------------------------------------------------------------------------------
(* The steps of the two modules, with and without their proofs.            *)

\* The assumptions about the constants are the same.
LEMMA SameAssumptions ==
  /\ OfClient!PendingAssumption /\ OfClient!NoneAssumption
  /\ OfServer!PlayerIdAssumption /\ OfServer!CoordinateAssumption
  /\ OfServer!IdAssumption /\ OfServer!KindAssumption
  /\ MaxPending \in Nat \ {0} /\ None \notin Connects
  /\ MaxPlayerId \in Nat \ {0} /\ IntMax \in Nat /\ Deltas \subseteq -IntMax - 1 .. IntMax
  /\ IdSpace \in Nat \ {0} /\ Keys = 0 .. IdSpace - 1
  /\ Kinds \subseteq {"ping", "state_snapshot", "unset"}
BY ClientAssumption, ServerAssumption
   DEF Client!PendingAssumption, Client!NoneAssumption, Server!PlayerIdAssumption,
       Server!CoordinateAssumption, Server!IdAssumption, Server!KindAssumption,
       Server!Coordinates, OfClient!PendingAssumption, OfClient!NoneAssumption,
       OfServer!PlayerIdAssumption, OfServer!CoordinateAssumption,
       OfServer!IdAssumption, OfServer!KindAssumption, OfServer!Coordinates

LEMMA SameServerSteps ==
  /\ Server!Init => OfServer!Init
  /\ Server!Accept => OfServer!Accept
  /\ \A k \in Keys :
       /\ Server!RunJob(k) => OfServer!RunJob(k)
       /\ Server!Break(k) => OfServer!Break(k)
       /\ Server!ReadCompletes(k) => OfServer!ReadCompletes(k)
       /\ Server!ReadDropped(k) => OfServer!ReadDropped(k)
       /\ Server!Handle(k) => OfServer!Handle(k)
       /\ \A kind \in Kinds : Server!ClientSends(k, kind) => OfServer!ClientSends(k, kind)
<1>1. ASSUME Server!Init PROVE OfServer!Init
  BY <1>1
     DEF Server!Init, OfServer!Init, Server!WorldInit, OfServer!WorldInit,
         Server!PlayerIds, OfServer!PlayerIds, Server!Spawn, OfServer!Spawn,
         Server!NoPlayer, OfServer!NoPlayer
<1>2. ASSUME Server!Accept PROVE OfServer!Accept
  BY <1>2
     DEF Server!Accept, OfServer!Accept, Server!IdsExhausted, OfServer!IdsExhausted,
         Server!NextId, OfServer!NextId, Server!Job, OfServer!Job, Server!NoResponse,
         OfServer!NoResponse, Server!worldVars, OfServer!worldVars
<1>3. ASSUME NEW k \in Keys, Server!RunJob(k) PROVE OfServer!RunJob(k)
  BY <1>3
     DEF Server!RunJob, OfServer!RunJob, Server!worldVars, OfServer!worldVars,
         Server!Close, OfServer!Close, Server!acceptVars, OfServer!acceptVars,
         Server!DisconnectPlayer, OfServer!DisconnectPlayer, Server!Unbound,
         OfServer!Unbound, Server!NoPlayer, OfServer!NoPlayer, Server!RemovePlayer,
         OfServer!RemovePlayer
<1>4. ASSUME NEW k \in Keys, Server!Break(k) PROVE OfServer!Break(k)
  BY <1>4
     DEF Server!Break, OfServer!Break, Server!Close, OfServer!Close, Server!acceptVars,
         OfServer!acceptVars, Server!DisconnectPlayer, OfServer!DisconnectPlayer,
         Server!Unbound, OfServer!Unbound, Server!worldVars, OfServer!worldVars,
         Server!NoPlayer, OfServer!NoPlayer, Server!RemovePlayer, OfServer!RemovePlayer
<1>5. ASSUME NEW k \in Keys, Server!ReadCompletes(k) PROVE OfServer!ReadCompletes(k)
  BY <1>5
     DEF Server!ReadCompletes, OfServer!ReadCompletes, Server!worldVars,
         OfServer!worldVars, Server!acceptVars, OfServer!acceptVars
<1>6. ASSUME NEW k \in Keys, Server!ReadDropped(k) PROVE OfServer!ReadDropped(k)
  BY <1>6
     DEF Server!ReadDropped, OfServer!ReadDropped, Server!worldVars, OfServer!worldVars,
         Server!acceptVars, OfServer!acceptVars
<1>7. ASSUME NEW k \in Keys, Server!Handle(k) PROVE OfServer!Handle(k)
  BY <1>7
     DEF Server!Handle, OfServer!Handle, Server!MayHandle, OfServer!MayHandle,
         Server!ConnectThrows, OfServer!ConnectThrows, Server!ConnectPlayer,
         OfServer!ConnectPlayer, Server!SendResponse, OfServer!SendResponse,
         Server!Response, OfServer!Response, Server!Snapshot, OfServer!Snapshot,
         Server!acceptVars, OfServer!acceptVars, Server!Unbound, OfServer!Unbound,
         Server!NoIdLeft, OfServer!NoIdLeft, Server!worldVars, OfServer!worldVars,
         Server!AddPlayer, OfServer!AddPlayer, Server!NewId, OfServer!NewId, Server!Job,
         OfServer!Job, Server!NoPlayer, OfServer!NoPlayer, Server!Spawn, OfServer!Spawn
<1>8. ASSUME NEW k \in Keys, NEW kind \in Kinds, Server!ClientSends(k, kind)
      PROVE  OfServer!ClientSends(k, kind)
  BY <1>8
     DEF Server!ClientSends, OfServer!ClientSends, Server!worldVars, OfServer!worldVars,
         Server!acceptVars, OfServer!acceptVars, Server!connVars, OfServer!connVars
<1> QED BY <1>1, <1>2, <1>3, <1>4, <1>5, <1>6, <1>7, <1>8

LEMMA SameClientSteps ==
  /\ Client!Init => OfClient!Init
  /\ \A c \in Connects :
       /\ Client!Connect(c) => OfClient!Connect(c)
       /\ Client!DialCompletes(c) => OfClient!DialCompletes(c)
       /\ Client!DialTimesOut(c) => OfClient!DialTimesOut(c)
       /\ Client!ResumeCancelled(c) => OfClient!ResumeCancelled(c)
       /\ Client!ResumeFailed(c) => OfClient!ResumeFailed(c)
       /\ Client!ResumeConnected(c) => OfClient!ResumeConnected(c)
  /\ \A d \in Disconnects :
       /\ Client!Disconnect(d) => OfClient!Disconnect(d)
       /\ Client!DisconnectResumes(d) => OfClient!DisconnectResumes(d)
  /\ \A r \in Requests :
       /\ Client!SendRequest(r) => OfClient!SendRequest(r)
       /\ Client!SendRefused(r) => OfClient!SendRefused(r)
       /\ Client!RequestStep(r) => OfClient!RequestStep(r)
  /\ Client!ConnectionJob => OfClient!ConnectionJob
  /\ Client!ConnectionBreaks => OfClient!ConnectionBreaks
  /\ Client!Receive => OfClient!Receive
  /\ Client!ConnectionClosed => OfClient!ConnectionClosed
<1>1. ASSUME Client!Init PROVE OfClient!Init
  BY <1>1
     DEF Client!Init, OfClient!Init
<1>2. ASSUME NEW c \in Connects, Client!Connect(c) PROVE OfClient!Connect(c)
  BY <1>2
     DEF Client!Connect, OfClient!Connect, Client!MayConnect, OfClient!MayConnect,
         Client!SetState, OfClient!SetState, Client!managerVars, OfClient!managerVars,
         Client!linkVars, OfClient!linkVars, Client!requestVars, OfClient!requestVars
<1>3. ASSUME NEW c \in Connects, Client!DialCompletes(c) PROVE OfClient!DialCompletes(c)
  BY <1>3
     DEF Client!DialCompletes, OfClient!DialCompletes, Client!managerVars,
         OfClient!managerVars, Client!linkVars, OfClient!linkVars, Client!requestVars,
         OfClient!requestVars
<1>4. ASSUME NEW c \in Connects, Client!DialTimesOut(c) PROVE OfClient!DialTimesOut(c)
  BY <1>4
     DEF Client!DialTimesOut, OfClient!DialTimesOut, Client!managerVars,
         OfClient!managerVars, Client!linkVars, OfClient!linkVars, Client!requestVars,
         OfClient!requestVars
<1>5. ASSUME NEW c \in Connects, Client!ResumeCancelled(c) PROVE OfClient!ResumeCancelled(c)
  BY <1>5
     DEF Client!ResumeCancelled, OfClient!ResumeCancelled, Client!DialResumed,
         OfClient!DialResumed, Client!SetState, OfClient!SetState, Client!managerVars,
         OfClient!managerVars, Client!linkVars, OfClient!linkVars, Client!requestVars,
         OfClient!requestVars, Client!InFlightDial, OfClient!InFlightDial
<1>6. ASSUME NEW c \in Connects, Client!ResumeFailed(c) PROVE OfClient!ResumeFailed(c)
  BY <1>6
     DEF Client!ResumeFailed, OfClient!ResumeFailed, Client!DialResumed,
         OfClient!DialResumed, Client!SetState, OfClient!SetState, Client!managerVars,
         OfClient!managerVars, Client!linkVars, OfClient!linkVars, Client!requestVars,
         OfClient!requestVars, Client!InFlightDial, OfClient!InFlightDial
<1>7. ASSUME NEW c \in Connects, Client!ResumeConnected(c) PROVE OfClient!ResumeConnected(c)
  BY <1>7
     DEF Client!ResumeConnected, OfClient!ResumeConnected, Client!StartConnection,
         OfClient!StartConnection, Client!SetState, OfClient!SetState, Client!requestVars,
         OfClient!requestVars
<1>8. ASSUME NEW d \in Disconnects, Client!Disconnect(d) PROVE OfClient!Disconnect(d)
  BY <1>8
     DEF Client!Disconnect, OfClient!Disconnect, Client!DisconnectIdle,
         OfClient!DisconnectIdle, Client!DisconnectAgain, OfClient!DisconnectAgain,
         Client!DisconnectDialling, OfClient!DisconnectDialling,
         Client!DisconnectConnected, OfClient!DisconnectConnected, Client!managerVars,
         OfClient!managerVars, Client!CloseConnectingSocket,
         OfClient!CloseConnectingSocket, Client!StopConnection, OfClient!StopConnection,
         Client!FailPending, OfClient!FailPending, Client!Table, OfClient!Table,
         Client!Cancelled, OfClient!Cancelled
<1>9. ASSUME NEW d \in Disconnects, Client!DisconnectResumes(d) PROVE OfClient!DisconnectResumes(d)
  BY <1>9
     DEF Client!DisconnectResumes, OfClient!DisconnectResumes, Client!dialVars,
         OfClient!dialVars, Client!managerVars, OfClient!managerVars, Client!linkVars,
         OfClient!linkVars, Client!requestVars, OfClient!requestVars
<1> OfClient!TableFull <=> Client!TableFull
  <2>1. OfClient!Table = Client!Table
    BY DEF OfClient!Table, Client!Table
  <2> QED BY <2>1, Zenon
          DEF OfClient!TableFull, Client!TableFull, OfClient!Cardinality,
              Client!Cardinality, Cardinality
<1>10. ASSUME NEW r \in Requests, Client!SendRequest(r) PROVE OfClient!SendRequest(r)
  BY <1>10
     DEF Client!SendRequest, OfClient!SendRequest,
         Client!dialVars, OfClient!dialVars, Client!managerVars, OfClient!managerVars
<1>11. ASSUME NEW r \in Requests, Client!SendRefused(r) PROVE OfClient!SendRefused(r)
  BY <1>11
     DEF Client!SendRefused, OfClient!SendRefused,
         Client!dialVars, OfClient!dialVars, Client!managerVars, OfClient!managerVars,
         Client!linkVars, OfClient!linkVars
<1>12. ASSUME NEW r \in Requests, Client!RequestStep(r) PROVE OfClient!RequestStep(r)
  BY <1>12
     DEF Client!RequestStep, OfClient!RequestStep, Client!TimerExpires,
         OfClient!TimerExpires, Client!RequestResumes, OfClient!RequestResumes,
         Client!dialVars, OfClient!dialVars, Client!managerVars, OfClient!managerVars,
         Client!linkVars, OfClient!linkVars, Client!Outcome, OfClient!Outcome
<1>13. ASSUME Client!ConnectionJob PROVE OfClient!ConnectionJob
  BY <1>13
     DEF Client!ConnectionJob, OfClient!ConnectionJob, Client!dialVars, OfClient!dialVars,
         Client!managerVars, OfClient!managerVars, Client!requestVars,
         OfClient!requestVars
<1>14. ASSUME Client!ConnectionBreaks PROVE OfClient!ConnectionBreaks
  BY <1>14
     DEF Client!ConnectionBreaks, OfClient!ConnectionBreaks, Client!dialVars,
         OfClient!dialVars, Client!managerVars, OfClient!managerVars, Client!requestVars,
         OfClient!requestVars
<1>15. ASSUME Client!Receive PROVE OfClient!Receive
  BY <1>15
     DEF Client!Receive, OfClient!Receive, Client!Matches, OfClient!Matches,
         Client!Cancelled, OfClient!Cancelled, Client!dialVars, OfClient!dialVars,
         Client!managerVars, OfClient!managerVars, Client!Table, OfClient!Table
<1>16. ASSUME Client!ConnectionClosed PROVE OfClient!ConnectionClosed
  BY <1>16
     DEF Client!ConnectionClosed, OfClient!ConnectionClosed, Client!FailPending,
         OfClient!FailPending, Client!ManagerClosed, OfClient!ManagerClosed,
         Client!closedFrame, OfClient!closedFrame, Client!Table, OfClient!Table,
         Client!Cancelled, OfClient!Cancelled, Client!SetState, OfClient!SetState,
         Client!dialVars, OfClient!dialVars
<1> QED BY <1>1, <1>2, <1>3, <1>4, <1>5, <1>6, <1>7, <1>8, <1>9, <1>10, <1>11, <1>12, <1>13,
           <1>14, <1>15, <1>16

\* The variables of one side stay when the other one moves.
LEMMA ServerStays == UNCHANGED serverVars => UNCHANGED OfServer!vars
BY DEF serverVars, OfServer!vars, OfServer!worldVars, OfServer!acceptVars, OfServer!connVars

LEMMA ClientStays == UNCHANGED clientVars => UNCHANGED OfClient!vars
BY DEF clientVars, OfClient!vars, OfClient!dialVars, OfClient!managerVars,
       OfClient!linkVars, OfClient!requestVars

LEMMA ServerStep == [Next]_vars => [OfServer!Next]_OfServer!vars
<1> SUFFICES ASSUME [Next]_vars PROVE [OfServer!Next]_OfServer!vars
  OBVIOUS
<1>1. CASE UNCHANGED serverVars
  BY <1>1, ServerStays
<1>2. CASE ServerAlone
  BY <1>2, SameServerSteps DEF ServerAlone, OfServer!Next, OfServer!ReadStep
<1>3. CASE Accept
  BY <1>3, SameServerSteps DEF Accept, OfServer!Next
<1>4. ASSUME NEW k \in Keys, Arrive(k) \/ Handle(k) \/ ServerEndBreaks(k)
      PROVE  OfServer!Next
  BY <1>4, SameServerSteps
     DEF Arrive, Handle, ServerEndBreaks, OfServer!Next, OfServer!ReadStep
<1>5. \/ ClientAlone \/ ConnectionJob \/ Receive \/ ClientEndBreaks \/ UNCHANGED vars
      \/ \E c \in Connects : Handshake(c) \/ DialCompletes(c) \/ Connected(c)
      => UNCHANGED serverVars
  BY DEF ClientAlone, ConnectionJob, Receive, ClientEndBreaks, Handshake, DialCompletes,
         Connected, vars, serverVars
<1> QED BY <1>1, <1>2, <1>3, <1>4, <1>5 DEF Next

LEMMA ClientStep == [Next]_vars => [OfClient!Next]_OfClient!vars
<1> SUFFICES ASSUME [Next]_vars PROVE [OfClient!Next]_OfClient!vars
  OBVIOUS
<1>1. CASE UNCHANGED clientVars
  BY <1>1, ClientStays
<1>2. CASE ClientAlone
  BY <1>2, SameClientSteps DEF ClientAlone, OfClient!Next, OfClient!DialStep
<1>3. ASSUME NEW c \in Connects, DialCompletes(c) \/ Connected(c)
      PROVE  OfClient!Next
  BY <1>3, SameClientSteps DEF DialCompletes, Connected, OfClient!Next, OfClient!DialStep
<1>4. CASE ConnectionJob \/ Receive \/ ClientEndBreaks
  BY <1>4, SameClientSteps DEF ConnectionJob, Receive, ClientEndBreaks, OfClient!Next
<1>5. \/ ServerAlone \/ Accept \/ UNCHANGED vars
      \/ \E c \in Connects : Handshake(c)
      \/ \E k \in Keys : Arrive(k) \/ Handle(k) \/ ServerEndBreaks(k)
      => UNCHANGED clientVars
  BY DEF ServerAlone, Accept, Handshake, Arrive, Handle, ServerEndBreaks, vars, clientVars
<1> QED BY <1>1, <1>2, <1>3, <1>4, <1>5 DEF Next

\* The server of System is Server, which leaves its clients open.
THEOREM ServerIsServer == Spec => OfServer!Spec
<1>1. Init => OfServer!Init
  BY SameServerSteps DEF Init
<1> QED BY <1>1, ServerStep, PTL DEF Spec, OfServer!Spec

\* The client of System is ClientNetwork, which leaves its server open.
THEOREM ClientIsClient == Spec => OfClient!Spec
<1>1. Init => OfClient!Init
  BY SameClientSteps DEF Init
<1> QED BY <1>1, ClientStep, PTL DEF Spec, OfClient!Spec

\* What holds of each alone holds of both together.
THEOREM BothInvariants == Spec => [](OfServer!AInv /\ OfClient!CInv)
<1>1. OfServer!Spec => []OfServer!AInv
  BY OfServer!AnswersInvariance, SameAssumptions, PTL
<1>2. OfClient!Spec => []OfClient!CInv
  BY OfClient!ClientInvariance, SameAssumptions, PTL
<1> QED BY <1>1, <1>2, ServerIsServer, ClientIsClient, PTL

-------------------------------------------------------------------------------
(* What relates the two ends.                                              *)

\* The server is not stopped, and its accept loop has ids enough.
Running == loop = "running" /\ ~stopped

\* Who is connected with whom: a dial is in the kernel's backlog, accepted, or neither.
Peering ==
  /\ peer \in [Keys -> Connects \cup {None}]
  /\ reached \subseteq Connects /\ backlog \in Seq(Connects)
  /\ \A k \in Keys : (peer[k] = None <=> status[k] = "none") /\ (peer[k] = None => sent[k] = <<>>)
  /\ \A k, l \in Keys : peer[k] # None /\ peer[k] = peer[l] => k = l
  /\ \A i, j \in DOMAIN backlog : backlog[i] = backlog[j] => i = j
  /\ \A i \in DOMAIN backlog : backlog[i] \in reached
  /\ \A k \in Keys : peer[k] # None =>
       peer[k] \in reached /\ \A i \in DOMAIN backlog : backlog[i] # peer[k]

\* What the client wrote to its connection is answered up to `heard` and under way after it.
Linked ==
  /\ asked \in [Connects -> Seq(Nat)] /\ heard \in Nat /\ link \in Connects \cup {None}
  /\ \A c \in Connects : asked[c] # <<>> => dial[c] = "connected"
  /\ link # None => dial[link] = "connected"
  /\ open =>
       /\ link # None
       /\ Len(asked[link]) = heard + Len(inFlight)
       /\ \A i \in 1 .. Len(inFlight) : inFlight[i] = asked[link][heard + i]

\* The server has no request its client did not write.
Carried == \A k \in Keys : peer[k] # None => Len(sent[k]) <= Len(asked[peer[k]])

\* An id belongs to one request and is posted and written at most once.
IdsAreOwn ==
  /\ \A r \in Requests :
       reqId[r] <= nextId /\ (phase[r] \in {"unused", "refused"} => reqId[r] = 0)
  /\ \A r, q \in Requests : reqId[r] # 0 /\ reqId[r] = reqId[q] => r = q
  /\ \A i \in DOMAIN mail : mail[i] <= nextId
  /\ \A i, j \in DOMAIN mail : mail[i] # 0 /\ mail[i] = mail[j] => i = j
  /\ \A c \in Connects : \A i \in DOMAIN asked[c] :
       /\ asked[c][i] \in 1 .. nextId
       /\ \A j \in DOMAIN mail : mail[j] # asked[c][i]
       /\ \A d \in Connects : \A j \in DOMAIN asked[d] :
            asked[c][i] = asked[d][j] => c = d /\ i = j

\* The i-th request of a connection was handled, as far as its responses tell.
Done(k, i) ==
  /\ i \in 1 .. taken[k]
  /\ IF status[k] = "open" THEN got[k] => i # taken[k] ELSE i <= Len(wire[k])

\* A request was served when it was handled on some connection, and before it is answered.
ServedOnce ==
  /\ serves \in [Requests -> {0, 1}]
  /\ \A r \in Requests : serves[r] = 1 =>
       \E k \in Keys : \E i \in 1 .. taken[k] :
         peer[k] # None /\ (got[k] => i # taken[k]) /\ asked[peer[k]][i] = reqId[r]
  /\ \A k \in Keys : \A i \in 1 .. taken[k] : peer[k] # None /\ Done(k, i) =>
       \A r \in Requests : reqId[r] = asked[peer[k]][i] => serves[r] = 1
  /\ \A r \in Requests : pending[r] = "Completed" => serves[r] = 1

LinkInv == Running /\ Peering /\ Linked /\ Carried /\ IdsAreOwn /\ ServedOnce

-------------------------------------------------------------------------------
(* What the invariants of the two sides are used for.                      *)

LEMMA ClientFacts ==
  ASSUME OfClient!CInv
  PROVE  /\ dial \in [Connects -> {"pending", "ok", "error", "aborted", "unused", "connected",
                                   "failed", "rejected"}]
         /\ open \in BOOLEAN /\ nextId \in Nat /\ mail \in Seq(Nat) /\ inFlight \in Seq(Nat)
         /\ Len(mail) \in Nat /\ DOMAIN mail = 1 .. Len(mail) /\ Len(inFlight) \in Nat
         /\ \A i \in 1 .. Len(mail) : mail[i] \in Nat
         /\ phase \in [Requests -> {"unused", "waiting", "refused", "timedOut", "failed",
                                    "answered"}]
         /\ reqId \in [Requests -> Nat]
         /\ pending \in [Requests -> {"none", "Waiting", "Completed", "Failed"}]
         /\ timer \in [Requests -> {"idle", "armed", "expired", "cancelled"}]
         /\ \A r \in Requests : phase[r] = "answered" => pending[r] = "Completed"
<1>1. mail \in Seq(Nat) /\ inFlight \in Seq(Nat)
  BY DEF OfClient!CInv, OfClient!ManagerInv, OfClient!ManagerTypeOK
<1>2. Len(mail) \in Nat /\ DOMAIN mail = 1 .. Len(mail) /\ Len(inFlight) \in Nat
      /\ \A i \in 1 .. Len(mail) : mail[i] \in Nat
  BY <1>1, LenProperties, ElementOfSeq
<1> QED BY <1>1, <1>2
        DEF OfClient!CInv, OfClient!ManagerInv, OfClient!ManagerTypeOK, OfClient!InFlightDial,
            OfClient!RequestInv, OfClient!RequestTypeOK, OfClient!TimerFollows

LEMMA ServerFacts ==
  ASSUME OfServer!AInv, Running
  PROVE  /\ status \in [Keys -> {"none", "created", "open", "closed", "destroyed"}]
         /\ lastId \in Keys /\ {k \in Keys : status[k] # "none"} = 1 .. lastId
         /\ taken \in [Keys -> Nat] /\ got \in [Keys -> BOOLEAN]
         /\ sent \in [Keys -> Seq(Kinds)]
         /\ DOMAIN wire = Keys /\ DOMAIN posted = Keys /\ DOMAIN sent = Keys
         /\ \A k \in Keys :
              /\ Len(wire[k]) \in Nat /\ Len(sent[k]) \in Nat
              /\ taken[k] <= Len(sent[k]) /\ Len(wire[k]) <= taken[k]
              /\ \A i \in 1 .. Len(wire[k]) : wire[k][i].id = i
              /\ status[k] \in {"none", "created"} => taken[k] = 0 /\ ~got[k] /\ Len(wire[k]) = 0
              /\ status[k] = "open" /\ got[k] => Len(wire[k]) + 1 <= taken[k]
<1>1. /\ status \in [Keys -> {"none", "created", "open", "closed", "destroyed"}] /\ lastId \in Keys
      /\ {k \in Keys : status[k] # "none"} = 1 .. lastId /\ loop # "died" /\ ~stopped
  BY DEF OfServer!AInv, OfServer!SInv, OfServer!ServerTypeOK, OfServer!RegistryMatches, Running
<1>2. /\ taken \in [Keys -> Nat] /\ got \in [Keys -> BOOLEAN]
      /\ posted \in [Keys -> Seq([op : {"start", "send", "stop"}, response : OfServer!Reply])]
      /\ sent \in [Keys -> Seq(Kinds)] /\ wire \in [Keys -> Seq(OfServer!Reply)]
  BY DEF OfServer!AInv, OfServer!StreamTypes
<1>3. ASSUME NEW k \in Keys
      PROVE  /\ Len(wire[k]) \in Nat /\ Len(sent[k]) \in Nat
             /\ taken[k] <= Len(sent[k]) /\ Len(wire[k]) <= taken[k]
             /\ \A i \in 1 .. Len(wire[k]) : wire[k][i].id = i
             /\ status[k] \in {"none", "created"} => taken[k] = 0 /\ ~got[k] /\ Len(wire[k]) = 0
             /\ status[k] = "open" /\ got[k] => Len(wire[k]) + 1 <= taken[k]
  <2>1. /\ wire[k] \in Seq(OfServer!Reply) /\ sent[k] \in Seq(Kinds) /\ taken[k] \in Nat
        /\ posted[k] \in Seq([op : {"start", "send", "stop"}, response : OfServer!Reply])
    BY <1>2
  <2>2. OfServer!Stream(k)
    BY DEF OfServer!AInv
  <2>3. Len(wire[k]) \in Nat /\ Len(sent[k]) \in Nat /\ Len(posted[k]) \in Nat
    BY <2>1, LenProperties
  <2>4. /\ taken[k] <= Len(sent[k])
        /\ \A i \in 1 .. Len(wire[k]) : i \in 1 .. taken[k] /\ wire[k][i].id = i
    BY <2>2 DEF OfServer!Stream, OfServer!Answers
  <2>5. Len(wire[k]) <= taken[k]
    <3>1. \A a, b \in Nat : (\A i \in 1 .. a : i \in 1 .. b) => a <= b
      OBVIOUS
    <3> QED BY <2>1, <2>3, <2>4, <3>1
  <2>6. status[k] \in {"none", "created"} => taken[k] = 0 /\ ~got[k] /\ Len(wire[k]) = 0
    <3>1. status[k] \in {"none", "created"} => wire[k] = <<>> /\ taken[k] = 0 /\ ~got[k]
      BY <2>2 DEF OfServer!Stream
    <3> QED BY <3>1
  <2>7. ASSUME status[k] = "open", got[k] PROVE Len(wire[k]) + 1 <= taken[k]
    <3>1. Len(wire[k]) + Len(posted[k]) + 1 = taken[k]
      BY <1>1, <2>2, <2>7 DEF OfServer!Stream, OfServer!Counted
    <3>2. \A a, b, c \in Nat : a + b + 1 = c => a + 1 <= c
      OBVIOUS
    <3> QED BY <2>1, <2>3, <3>1, <3>2
  <2> QED BY <2>3, <2>4, <2>5, <2>6, <2>7
<1> QED BY <1>1, <1>2, <1>3

-------------------------------------------------------------------------------
(* Steps of the client.                                                    *)

\* What a step of the client alone leaves of the connection below and of the requests.
LEMMA AloneEffect ==
  ASSUME OfClient!CInv, ClientAlone
  PROVE  /\ open' = open /\ inFlight' = inFlight
         /\ \A c \in Connects : dial[c] = "connected" => dial'[c] = "connected"
         /\ \A r \in Requests : pending'[r] = "Completed" => pending[r] = "Completed"
         /\ \/ \E r \in Requests : Client!SendRequest(r)
            \/ /\ mail' = mail \/ mail' = Append(mail, 0)
               /\ nextId' = nextId /\ reqId' = reqId
               /\ \A r \in Requests : phase'[r] \in {"unused", "refused"} =>
                                        phase[r] \in {"unused", "refused"}
<1> USE ClientFacts DEF Client!dialVars, Client!managerVars, Client!linkVars, Client!requestVars
<1>1. ASSUME NEW c \in Connects,
             \/ Client!Connect(c) \/ Client!DialTimesOut(c)
             \/ Client!ResumeCancelled(c) \/ Client!ResumeFailed(c)
      PROVE  /\ UNCHANGED <<open, inFlight, mail, nextId, reqId, phase, pending>>
             /\ \A d \in Connects : dial[d] = "connected" => dial'[d] = "connected"
  <2>1. UNCHANGED <<open, inFlight, mail, nextId, reqId, phase, pending>>
    BY <1>1 DEF Client!Connect, Client!DialTimesOut, Client!ResumeCancelled,
                Client!ResumeFailed
  <2>2. /\ dial[c] # "connected"
        /\ \E v \in {"pending", "rejected", "aborted", "failed"} : dial' = [dial EXCEPT ![c] = v]
    BY <1>1 DEF Client!Connect, Client!DialTimesOut, Client!ResumeCancelled,
                Client!ResumeFailed, Client!DialResumed, Client!InFlightDial
  <2> QED BY <2>1, <2>2
<1>2. ASSUME NEW d \in Disconnects, Client!Disconnect(d)
      PROVE  /\ UNCHANGED <<open, inFlight, nextId, reqId, phase>>
             /\ mail' = mail \/ mail' = Append(mail, 0)
             /\ \A c \in Connects : dial[c] = "connected" => dial'[c] = "connected"
             /\ \A r \in Requests : pending'[r] = "Completed" => pending[r] = "Completed"
  BY <1>2 DEF Client!Disconnect, Client!DisconnectIdle, Client!DisconnectAgain,
              Client!DisconnectDialling, Client!DisconnectConnected,
              Client!CloseConnectingSocket, Client!StopConnection, Client!FailPending
<1>3. ASSUME NEW d \in Disconnects, Client!DisconnectResumes(d)
      PROVE  UNCHANGED <<open, inFlight, mail, nextId, reqId, phase, pending, dial>>
  BY <1>3 DEF Client!DisconnectResumes
<1>4. ASSUME NEW r \in Requests, Client!SendRequest(r)
      PROVE  /\ UNCHANGED <<open, inFlight, dial>>
             /\ \A q \in Requests : pending'[q] = "Completed" => pending[q] = "Completed"
  BY <1>4 DEF Client!SendRequest
<1>5. ASSUME NEW r \in Requests, Client!SendRefused(r)
      PROVE  /\ UNCHANGED <<open, inFlight, mail, nextId, reqId, pending, dial>>
             /\ \A q \in Requests : phase'[q] \in {"unused", "refused"} =>
                                      phase[q] \in {"unused", "refused"}
  BY <1>5 DEF Client!SendRefused
<1>6. ASSUME NEW r \in Requests, Client!RequestStep(r)
      PROVE  /\ UNCHANGED <<open, inFlight, mail, nextId, reqId, pending, dial>>
             /\ \A q \in Requests : phase'[q] \in {"unused", "refused"} =>
                                      phase[q] \in {"unused", "refused"}
  <2>1. Client!Outcome(r) \in {"timedOut", "failed", "answered", "cancelled"}
    BY DEF Client!Outcome
  <2> QED BY <1>6, <2>1 DEF Client!RequestStep, Client!TimerExpires, Client!RequestResumes
<1>7. ASSUME Client!ConnectionClosed
      PROVE  /\ UNCHANGED <<open, inFlight, mail, nextId, reqId, phase, dial>>
             /\ \A r \in Requests : pending'[r] = "Completed" => pending[r] = "Completed"
  BY <1>7 DEF Client!ConnectionClosed, Client!FailPending, Client!closedFrame
<1> QED BY <1>1, <1>2, <1>3, <1>4, <1>5, <1>6, <1>7, Zenon DEF ClientAlone

\* A request gets the next id, which no other has, and it was neither posted nor written.
LEMMA SendKeepsIds ==
  ASSUME OfClient!CInv, Linked, IdsAreOwn, NEW r \in Requests, Client!SendRequest(r),
         UNCHANGED asked
  PROVE  IdsAreOwn' /\ reqId[r] = 0 /\ reqId' = [reqId EXCEPT ![r] = nextId + 1]
<1>1. /\ phase[r] = "unused" /\ nextId' = nextId + 1
      /\ phase' = [phase EXCEPT ![r] = "waiting"] /\ reqId' = [reqId EXCEPT ![r] = nextId + 1]
      /\ mail' = Append(mail, nextId + 1)
  BY DEF Client!SendRequest
<1>2. /\ nextId \in Nat /\ mail \in Seq(Nat) /\ reqId \in [Requests -> Nat]
      /\ DOMAIN mail = 1 .. Len(mail) /\ Len(mail) \in Nat
      /\ \A i \in 1 .. Len(mail) : mail[i] \in Nat
      /\ DOMAIN phase = Requests
  BY ClientFacts
<1>3. /\ DOMAIN mail' = 1 .. Len(mail) + 1
      /\ \A i \in 1 .. Len(mail) : mail'[i] = mail[i]
      /\ mail'[Len(mail) + 1] = nextId + 1
  BY <1>1, <1>2, AppendProperties
<1>4. \A i \in DOMAIN mail' : 
        \/ i \in DOMAIN mail /\ mail'[i] = mail[i]
        \/ i = Len(mail) + 1 /\ i \notin DOMAIN mail
  BY <1>2, <1>3
<1>5. \A n \in Nat : n <= nextId => n <= nextId + 1 /\ n # nextId + 1
  BY <1>2
<1>6. /\ \A q \in Requests :
           reqId'[q] <= nextId' /\ (phase'[q] \in {"unused", "refused"} => reqId'[q] = 0)
      /\ \A p, q \in Requests : reqId'[p] # 0 /\ reqId'[p] = reqId'[q] => p = q
  BY <1>1, <1>2, <1>5 DEF IdsAreOwn
<1>7. /\ \A i \in DOMAIN mail' : mail'[i] <= nextId'
      /\ \A i, j \in DOMAIN mail' : mail'[i] # 0 /\ mail'[i] = mail'[j] => i = j
  BY <1>1, <1>2, <1>3, <1>4, <1>5 DEF IdsAreOwn
<1>8. \A c \in Connects : \A i \in DOMAIN asked[c] :
        asked[c][i] \in 1 .. nextId' /\ \A j \in DOMAIN mail' : mail'[j] # asked[c][i]
  <2> SUFFICES ASSUME NEW c \in Connects, NEW i \in DOMAIN asked[c]
      PROVE  asked[c][i] \in 1 .. nextId' /\ \A j \in DOMAIN mail' : mail'[j] # asked[c][i]
    OBVIOUS
  <2>1. asked[c][i] \in 1 .. nextId /\ \A j \in DOMAIN mail : mail[j] # asked[c][i]
    BY DEF IdsAreOwn
  <2> QED BY <1>1, <1>2, <1>3, <1>4, <1>5, <2>1
<1>9. IdsAreOwn'
  BY <1>6, <1>7, <1>8 DEF IdsAreOwn
<1> QED BY <1>1, <1>9 DEF IdsAreOwn

\* A stop() is posted as 0, which is nobody's id.
LEMMA StopKeepsIds ==
  ASSUME OfClient!CInv, IdsAreOwn, mail' = mail \/ mail' = Append(mail, 0),
         UNCHANGED <<nextId, reqId, asked>>,
         \A r \in Requests : phase'[r] \in {"unused", "refused"} =>
                               phase[r] \in {"unused", "refused"}
  PROVE  IdsAreOwn'
<1>1. /\ nextId \in Nat /\ mail \in Seq(Nat)
      /\ DOMAIN mail = 1 .. Len(mail) /\ Len(mail) \in Nat
  BY ClientFacts
<1>2. \A i \in DOMAIN mail' : 
        (i \in DOMAIN mail /\ mail'[i] = mail[i]) \/ mail'[i] = 0
  <2>1. CASE mail' = mail
    BY <2>1
  <2>2. CASE mail' = Append(mail, 0)
    <3>1. /\ DOMAIN mail' = 1 .. Len(mail) + 1
          /\ \A i \in 1 .. Len(mail) : mail'[i] = mail[i]
          /\ mail'[Len(mail) + 1] = 0
      BY <1>1, <2>2, AppendProperties
    <3> QED BY <1>1, <3>1
  <2> QED BY <2>1, <2>2
<1>3. \A r \in Requests :
        reqId'[r] <= nextId' /\ (phase'[r] \in {"unused", "refused"} => reqId'[r] = 0)
  BY DEF IdsAreOwn
<1>4. /\ \A i \in DOMAIN mail' : mail'[i] <= nextId'
      /\ \A i, j \in DOMAIN mail' : mail'[i] # 0 /\ mail'[i] = mail'[j] => i = j
  BY <1>1, <1>2 DEF IdsAreOwn
<1>5. \A c \in Connects : \A i \in DOMAIN asked[c] :
        asked[c][i] \in 1 .. nextId /\ \A j \in DOMAIN mail' : mail'[j] # asked[c][i]
  BY <1>1, <1>2 DEF IdsAreOwn
<1> QED BY <1>3, <1>4, <1>5 DEF IdsAreOwn

\* What the server took, the client wrote.
LEMMA TakenWasAsked ==
  ASSUME OfServer!AInv, LinkInv, NEW k \in Keys, NEW i \in 1 .. taken[k], peer[k] # None
  PROVE  /\ peer[k] \in Connects /\ asked[peer[k]] \in Seq(Nat)
         /\ Len(asked[peer[k]]) \in Nat /\ DOMAIN asked[peer[k]] = 1 .. Len(asked[peer[k]])
         /\ i \in DOMAIN asked[peer[k]] /\ asked[peer[k]][i] \in 1 .. nextId
<1>1. peer[k] \in Connects /\ asked[peer[k]] \in Seq(Nat) /\ Len(sent[k]) <= Len(asked[peer[k]])
  BY DEF LinkInv, Peering, Linked, Carried
<1>2. taken[k] \in Nat /\ Len(sent[k]) \in Nat /\ taken[k] <= Len(sent[k])
  BY ServerFacts DEF LinkInv
<1>3. Len(asked[peer[k]]) \in Nat /\ DOMAIN asked[peer[k]] = 1 .. Len(asked[peer[k]])
  BY <1>1, LenProperties
<1>4. i \in DOMAIN asked[peer[k]]
  BY <1>1, <1>2, <1>3
<1> QED BY <1>1, <1>3, <1>4 DEF LinkInv, IdsAreOwn

\* What the client does alone is seen by the server only after its connection wrote it.
LEMMA AloneStep ==
  ASSUME OfClient!CInv, OfServer!AInv, LinkInv, ClientAlone
  PROVE  LinkInv'
<1>1. UNCHANGED <<serverVars, netVars, serves>>
  BY DEF ClientAlone
<1>2. Running' /\ Peering' /\ Carried'
  BY <1>1 DEF LinkInv, Running, Peering, Carried, serverVars, netVars
<1>3. /\ open' = open /\ inFlight' = inFlight
      /\ \A c \in Connects : dial[c] = "connected" => dial'[c] = "connected"
      /\ \A r \in Requests : pending'[r] = "Completed" => pending[r] = "Completed"
  BY AloneEffect
<1>4. UNCHANGED <<asked, heard, link>>
  BY <1>1 DEF netVars
<1>5. Linked'
  BY <1>3, <1>4 DEF LinkInv, Linked
<1>6. UNCHANGED <<serves, taken, peer, got, status, wire, asked>>
  BY <1>1 DEF serverVars, netVars
<1>7. CASE \E r \in Requests : Client!SendRequest(r)
  <2>1. PICK r \in Requests : Client!SendRequest(r)
    BY <1>7
  <2>2. IdsAreOwn' /\ reqId[r] = 0 /\ reqId' = [reqId EXCEPT ![r] = nextId + 1]
    BY <1>4, <2>1, SendKeepsIds DEF LinkInv
  <2>3. /\ nextId \in Nat /\ DOMAIN reqId = Requests
        /\ \A q \in Requests \ {r} : reqId'[q] = reqId[q]
        /\ reqId'[r] = nextId + 1
    BY <2>2, ClientFacts
  <2>4. \A k \in Keys : \A i \in 1 .. taken[k] : peer[k] # None =>
          asked[peer[k]][i] \in 1 .. nextId /\ peer[k] \in Connects
    BY TakenWasAsked
  <2>5. serves[r] = 0
    BY <2>2, <2>3, <2>4 DEF LinkInv, ServedOnce
  <2>6. \A k \in Keys : \A i \in 1 .. taken[k] : peer[k] # None => asked[peer[k]][i] # nextId + 1
    BY <2>3, <2>4
  <2>7. ServedOnce'
    BY <1>3, <1>6, <2>3, <2>5, <2>6 DEF LinkInv, ServedOnce, Done
  <2> QED BY <1>2, <1>5, <2>2, <2>7 DEF LinkInv
<1>8. CASE /\ mail' = mail \/ mail' = Append(mail, 0)
           /\ nextId' = nextId /\ reqId' = reqId
           /\ \A r \in Requests : phase'[r] \in {"unused", "refused"} =>
                                    phase[r] \in {"unused", "refused"}
  <2>1. IdsAreOwn'
    BY <1>4, <1>8, StopKeepsIds DEF LinkInv
  <2>2. ServedOnce'
    BY <1>3, <1>6, <1>8 DEF LinkInv, ServedOnce, Done
  <2> QED BY <1>2, <1>5, <2>1, <2>2 DEF LinkInv
<1> QED BY <1>7, <1>8, AloneEffect

\* The kernel of the server takes a dial it has not seen before.
LEMMA HandshakeStep ==
  ASSUME OfClient!CInv, OfServer!AInv, LinkInv, NEW c \in Connects, Handshake(c)
  PROVE  LinkInv'
<1>1. /\ c \notin reached /\ reached' = reached \cup {c} /\ backlog' = Append(backlog, c)
      /\ UNCHANGED <<clientVars, serverVars, link, peer, asked, heard, serves>>
  BY DEF Handshake
<1>2. Running' /\ Carried' /\ Linked' /\ IdsAreOwn' /\ ServedOnce'
  BY <1>1 DEF LinkInv, Running, Carried, Linked, IdsAreOwn, ServedOnce, Done, serverVars,
              clientVars
<1>3. backlog \in Seq(Connects) /\ Len(backlog) \in Nat /\ DOMAIN backlog = 1 .. Len(backlog)
  BY LenProperties DEF LinkInv, Peering
<1>4. /\ backlog' \in Seq(Connects) /\ DOMAIN backlog' = 1 .. Len(backlog) + 1
      /\ \A i \in 1 .. Len(backlog) : backlog'[i] = backlog[i]
      /\ backlog'[Len(backlog) + 1] = c
  BY <1>1, <1>3, AppendProperties
<1>5. \A i \in DOMAIN backlog' :
        \/ i \in DOMAIN backlog /\ backlog'[i] = backlog[i]
        \/ i = Len(backlog) + 1 /\ backlog'[i] = c
  BY <1>3, <1>4
<1>6. /\ \A i \in DOMAIN backlog : backlog[i] \in reached /\ backlog[i] # c
      /\ \A k \in Keys : peer[k] # None =>
           peer[k] \in reached /\ peer[k] # c /\ \A i \in DOMAIN backlog : backlog[i] # peer[k]
  BY <1>1 DEF LinkInv, Peering
<1>7. \A i, j \in DOMAIN backlog' : backlog'[i] = backlog'[j] => i = j
  BY <1>5, <1>6 DEF LinkInv, Peering
<1>8. /\ \A i \in DOMAIN backlog' : backlog'[i] \in reached'
      /\ \A k \in Keys : peer[k] # None =>
           peer[k] \in reached' /\ \A i \in DOMAIN backlog' : backlog'[i] # peer[k]
  BY <1>1, <1>5, <1>6
<1>9. Peering'
  BY <1>1, <1>4, <1>7, <1>8 DEF LinkInv, Peering, serverVars
<1> QED BY <1>2, <1>9 DEF LinkInv

\* The connect() learns what became of its dial.
LEMMA DialCompletesStep ==
  ASSUME OfClient!CInv, OfServer!AInv, LinkInv, NEW c \in Connects, DialCompletes(c)
  PROVE  LinkInv'
<1> USE DEF Client!managerVars, Client!linkVars, Client!requestVars
<1>1. /\ dial[c] = "pending" /\ \E v \in {"ok", "error"} : dial' = [dial EXCEPT ![c] = v]
      /\ UNCHANGED <<open, mail, inFlight, nextId, phase, reqId, pending, serverVars, netVars,
                     serves>>
  BY DEF DialCompletes, Client!DialCompletes
<1>2. \A d \in Connects : dial[d] = "connected" => dial'[d] = "connected"
  BY <1>1, ClientFacts
<1>3. /\ UNCHANGED <<peer, reached, backlog, status, sent, loop, stopped, asked, taken, got, wire>>
      /\ UNCHANGED <<serves, mail, nextId, phase, reqId, pending>>
  BY <1>1 DEF serverVars, netVars
<1>4. Running' /\ Peering' /\ Carried' /\ IdsAreOwn' /\ ServedOnce'
  BY <1>3 DEF LinkInv, Running, Peering, Carried, IdsAreOwn, ServedOnce, Done
<1>5. UNCHANGED <<asked, heard, link>>
  BY <1>1 DEF netVars
<1>6. Linked'
  BY <1>1, <1>2, <1>5 DEF LinkInv, Linked
<1> QED BY <1>4, <1>6 DEF LinkInv

\* A new connection starts with nothing written, so nothing of an older one is in flight.
LEMMA ConnectedStep ==
  ASSUME OfClient!CInv, OfServer!AInv, LinkInv, NEW c \in Connects, Connected(c)
  PROVE  LinkInv'
<1>1. /\ dial[c] = "ok" /\ dial' = [dial EXCEPT ![c] = "connected"]
      /\ open' = TRUE /\ mail' = <<>> /\ inFlight' = <<>> /\ link' = c /\ heard' = 0
      /\ UNCHANGED <<nextId, phase, reqId, pending, serverVars, reached, backlog, peer, asked,
                     serves>>
  BY DEF Connected, Client!ResumeConnected, Client!StartConnection, Client!requestVars
<1>2. Running' /\ Peering' /\ Carried' /\ ServedOnce'
  BY <1>1 DEF LinkInv, Running, Peering, Carried, ServedOnce, Done, serverVars
<1>3. DOMAIN mail' = {}
  BY <1>1
<1>4. IdsAreOwn'
  BY <1>1, <1>3 DEF LinkInv, IdsAreOwn
<1>5. asked[c] = <<>> /\ dial'[c] = "connected"
      /\ \A d \in Connects : dial[d] = "connected" => dial'[d] = "connected"
  BY <1>1, ClientFacts DEF LinkInv, Linked
<1>6. Len(asked'[link']) = heard' + Len(inFlight') /\ Len(inFlight') = 0
  BY <1>1, <1>5
<1>7. \A i \in 1 .. Len(inFlight') : inFlight'[i] = asked'[link'][heard' + i]
  BY <1>6
<1>8. /\ \A d \in Connects : asked'[d] # <<>> => dial'[d] = "connected"
      /\ asked' \in [Connects -> Seq(Nat)] /\ heard' \in Nat /\ link' \in Connects \cup {None}
      /\ dial'[link'] = "connected" /\ link' # None
  BY <1>1, <1>5, SameAssumptions DEF LinkInv, Linked
<1>9. Linked'
  BY <1>6, <1>7, <1>8 DEF Linked
<1> QED BY <1>2, <1>4, <1>9 DEF LinkInv

\* The strand of the connection takes the first posted call.
LEMMA FirstOfMail ==
  ASSUME OfClient!CInv, mail # <<>>
  PROVE  /\ Head(mail) \in Nat /\ Head(mail) = mail[1] /\ 1 \in DOMAIN mail
         /\ \A i \in DOMAIN Tail(mail) :
              i \in Nat /\ i + 1 \in DOMAIN mail /\ Tail(mail)[i] = mail[i + 1] /\ i + 1 # 1
<1>1. mail \in Seq(Nat) /\ DOMAIN mail = 1 .. Len(mail)
  BY ClientFacts
<1>2. /\ Head(mail) \in Nat /\ Head(mail) = mail[1] /\ 1 \in 1 .. Len(mail)
      /\ Tail(mail) \in Seq(Nat)
      /\ \A i \in 1 .. Len(Tail(mail)) : i + 1 \in 1 .. Len(mail) /\ Tail(mail)[i] = mail[i + 1]
  BY <1>1, OfServer!TakeFirst
<1>3. DOMAIN Tail(mail) = 1 .. Len(Tail(mail)) /\ Len(Tail(mail)) \in Nat
  BY <1>2, LenProperties
<1>4. \A i \in 1 .. Len(Tail(mail)) : i \in Nat /\ i + 1 # 1
  BY <1>3
<1> QED BY <1>1, <1>2, <1>3, <1>4

\* What it does not write is forgotten.
LEMMA TailKeepsIds ==
  ASSUME OfClient!CInv, IdsAreOwn, mail # <<>>, mail' = Tail(mail),
         UNCHANGED <<nextId, reqId, phase, asked>>
  PROVE  IdsAreOwn'
<1> DEFINE rest == Tail(mail)
<1>1. \A i \in DOMAIN rest : i \in Nat /\ i + 1 \in DOMAIN mail /\ rest[i] = mail[i + 1]
  BY FirstOfMail
<1>2. mail' = rest
  OBVIOUS
<1>3. \A i, j \in Nat : i + 1 = j + 1 => i = j
  OBVIOUS
<1> HIDE DEF rest
<1>4. /\ \A i \in DOMAIN rest : rest[i] <= nextId
      /\ \A i, j \in DOMAIN rest : rest[i] # 0 /\ rest[i] = rest[j] => i = j
      /\ \A c \in Connects : \A i \in DOMAIN asked[c] : \A j \in DOMAIN rest : rest[j] # asked[c][i]
  BY <1>1, <1>3 DEF IdsAreOwn
<1> QED BY <1>2, <1>4 DEF IdsAreOwn

\* Writing more does not change what was served.
LEMMA AskedMore ==
  ASSUME ServedOnce, UNCHANGED <<serves, taken, peer, got, status, wire, reqId, pending>>,
         \A k \in Keys : \A i \in 1 .. taken[k] :
           peer[k] # None => asked'[peer[k]][i] = asked[peer[k]][i]
  PROVE  ServedOnce'
<1>1. \A k \in Keys : \A i \in 1 .. taken[k] : Done(k, i)' = Done(k, i)
  BY DEF Done
<1>2. \A r \in Requests : serves'[r] = 1 =>
        \E k \in Keys : \E i \in 1 .. taken'[k] :
          peer'[k] # None /\ (got'[k] => i # taken'[k]) /\ asked'[peer'[k]][i] = reqId'[r]
  BY DEF ServedOnce
<1>3. \A k \in Keys : \A i \in 1 .. taken'[k] : peer'[k] # None /\ Done(k, i)' =>
        \A r \in Requests : reqId'[r] = asked'[peer'[k]][i] => serves'[r] = 1
  BY <1>1 DEF ServedOnce
<1> QED BY <1>2, <1>3 DEF ServedOnce

\* A request that is written is under way behind those that were written before.
LEMMA WriteStep ==
  ASSUME OfClient!CInv, OfServer!AInv, LinkInv, ConnectionJob, open, Head(mail) # 0
  PROVE  LinkInv'
<1>1. /\ mail # <<>> /\ mail' = Tail(mail) /\ inFlight' = Append(inFlight, Head(mail))
      /\ asked' = [asked EXCEPT ![link] = Append(@, Head(mail))]
      /\ UNCHANGED <<open, dial, nextId, phase, reqId, pending, reached, backlog, link, peer,
                     heard, serves>>
      /\ UNCHANGED serverVars
  BY DEF ConnectionJob, Client!ConnectionJob, Client!dialVars, Client!requestVars
<1>2. UNCHANGED <<loop, stopped, status, sent, taken, got, wire>>
  BY <1>1 DEF serverVars
<1> DEFINE id == Head(mail)
           old == asked[link]
           new == Append(old, id)
<1>3. /\ link \in Connects /\ link # None /\ old \in Seq(Nat) /\ id \in Nat
      /\ inFlight \in Seq(Nat) /\ dial[link] = "connected"
      /\ DOMAIN asked = Connects
  BY FirstOfMail, <1>1, ClientFacts DEF LinkInv, Linked
<1>4. /\ asked'[link] = new /\ \A c \in Connects \ {link} : asked'[c] = asked[c]
      /\ asked' \in [Connects -> Seq(Nat)]
  <2>1. new \in Seq(Nat)
    BY <1>3, AppendProperties
  <2> QED BY <1>1, <1>3, <2>1 DEF LinkInv, Linked
<1>5. /\ Len(old) \in Nat /\ DOMAIN old = 1 .. Len(old) /\ DOMAIN new = 1 .. Len(old) + 1
      /\ Len(new) = Len(old) + 1
      /\ \A i \in 1 .. Len(old) : new[i] = old[i]
      /\ new[Len(old) + 1] = id /\ new # <<>>
  BY <1>3, AppendProperties, LenProperties
<1>6. /\ Len(inFlight) \in Nat /\ Len(inFlight') = Len(inFlight) + 1
      /\ \A i \in 1 .. Len(inFlight) : inFlight'[i] = inFlight[i]
      /\ inFlight'[Len(inFlight) + 1] = id
  BY <1>1, <1>3, AppendProperties, LenProperties
<1>7. /\ Len(old) = heard + Len(inFlight) /\ heard \in Nat
      /\ \A i \in 1 .. Len(inFlight) : inFlight[i] = old[heard + i]
  BY DEF LinkInv, Linked
<1> HIDE DEF id, old, new
<1>8. /\ Len(new) = heard + Len(inFlight')
      /\ \A i \in 1 .. Len(inFlight') : inFlight'[i] = new[heard + i]
  <2>1. \A h, m \in Nat : \A i \in 1 .. m + 1 :
          \/ i \in 1 .. m /\ h + i \in 1 .. h + m
          \/ i = m + 1 /\ h + i = (h + m) + 1
    OBVIOUS
  <2>2. \A h, m \in Nat : (h + m) + 1 = h + (m + 1)
    OBVIOUS
  <2>3. Len(new) = heard + Len(inFlight')
    BY <1>5, <1>6, <1>7, <2>2
  <2>4. ASSUME NEW i \in 1 .. Len(inFlight') PROVE inFlight'[i] = new[heard + i]
    <3>1. \/ i \in 1 .. Len(inFlight) /\ heard + i \in 1 .. Len(old)
          \/ i = Len(inFlight) + 1 /\ heard + i = Len(old) + 1
      BY <1>6, <1>7, <2>1
    <3> QED BY <1>5, <1>6, <1>7, <3>1
  <2> QED BY <2>3, <2>4
<1>9. Linked'
  BY <1>1, <1>3, <1>4, <1>5, <1>8 DEF LinkInv, Linked
<1>10. Running' /\ Peering'
  BY <1>1, <1>2 DEF LinkInv, Running, Peering
<1>11. Carried'
  <2> SUFFICES ASSUME NEW k \in Keys, peer[k] # None PROVE Len(sent[k]) <= Len(asked'[peer[k]])
    BY <1>1, <1>2 DEF Carried
  <2>1. Len(sent[k]) <= Len(asked[peer[k]]) /\ peer[k] \in Connects /\ Len(sent[k]) \in Nat
    BY ServerFacts DEF LinkInv, Carried, Peering
  <2>2. CASE peer[k] = link
    <3>1. Len(sent[k]) <= Len(old)
      BY <2>1, <2>2 DEF old
    <3> QED BY <1>4, <1>5, <2>1, <2>2, <3>1
  <2>3. CASE peer[k] # link
    BY <1>4, <2>1, <2>3
  <2> QED BY <2>2, <2>3
<1>12. IdsAreOwn'
  <2>1. /\ id \in 1 .. nextId /\ 1 \in DOMAIN mail /\ mail[1] = id
        /\ \A i \in DOMAIN mail' :
             i \in Nat /\ i + 1 \in DOMAIN mail /\ mail'[i] = mail[i + 1] /\ i + 1 # 1
    BY <1>1, FirstOfMail, ClientFacts DEF id, LinkInv, IdsAreOwn
  <2>2. \A i, j \in Nat : i + 1 = j + 1 => i = j
    OBVIOUS
  <2>3. /\ \A i \in DOMAIN mail' : mail'[i] <= nextId /\ mail'[i] # id
        /\ \A i, j \in DOMAIN mail' : mail'[i] # 0 /\ mail'[i] = mail'[j] => i = j
    BY <2>1, <2>2 DEF LinkInv, IdsAreOwn
  <2>4. \A c \in Connects : \A i \in DOMAIN asked'[c] :
          \/ i \in DOMAIN asked[c] /\ asked'[c][i] = asked[c][i]
          \/ c = link /\ i = Len(old) + 1 /\ asked'[c][i] = id
    BY <1>4, <1>5 DEF old
  <2>5. \A c \in Connects : \A i \in DOMAIN asked[c] :
          /\ asked[c][i] \in 1 .. nextId /\ asked[c][i] # id
          /\ \A j \in DOMAIN mail' : mail'[j] # asked[c][i]
    BY <2>1 DEF LinkInv, IdsAreOwn
  <2>6. \A c \in Connects : \A i \in DOMAIN asked'[c] :
          /\ asked'[c][i] \in 1 .. nextId
          /\ \A j \in DOMAIN mail' : mail'[j] # asked'[c][i]
    BY <2>1, <2>3, <2>4, <2>5
  <2>7. \A c, d \in Connects : \A i \in DOMAIN asked'[c] : \A j \in DOMAIN asked'[d] :
          asked'[c][i] = asked'[d][j] => c = d /\ i = j
    <3>1. \A c, d \in Connects : \A i \in DOMAIN asked[c] : \A j \in DOMAIN asked[d] :
            asked[c][i] = asked[d][j] => c = d /\ i = j
      BY DEF LinkInv, IdsAreOwn
    <3> QED BY <2>4, <2>5, <3>1
  <2> QED BY <1>1, <2>3, <2>6, <2>7 DEF LinkInv, IdsAreOwn
<1>13. ServedOnce'
  <2>1. ASSUME NEW k \in Keys, NEW i \in 1 .. taken[k], peer[k] # None
        PROVE  asked'[peer[k]][i] = asked[peer[k]][i]
    <3>1. peer[k] \in Connects /\ i \in DOMAIN asked[peer[k]]
      BY <2>1, TakenWasAsked
    <3>2. CASE peer[k] = link
      <4>1. i \in 1 .. Len(old)
        BY <1>5, <3>1, <3>2 DEF old
      <4> QED BY <1>4, <1>5, <3>2, <4>1 DEF old
    <3>3. CASE peer[k] # link
      BY <1>4, <3>1, <3>3
    <3> QED BY <3>2, <3>3
  <2> QED BY <1>1, <1>2, <2>1, AskedMore DEF LinkInv
<1> QED BY <1>9, <1>10, <1>11, <1>12, <1>13 DEF LinkInv

\* A call that the connection executes: a request is written, a stop closes it.
LEMMA ConnectionJobStep ==
  ASSUME OfClient!CInv, OfServer!AInv, LinkInv, ConnectionJob
  PROVE  LinkInv'
<1>1. CASE open /\ Head(mail) # 0
  BY <1>1, WriteStep
<1>2. CASE ~(open /\ Head(mail) # 0)
  <2>1. /\ mail # <<>> /\ mail' = Tail(mail)
        /\ open' => open /\ inFlight' = inFlight
        /\ UNCHANGED <<asked, dial, nextId, phase, reqId, pending, reached, backlog, link, peer,
                       heard, serves>>
        /\ UNCHANGED serverVars
    BY <1>2 DEF ConnectionJob, Client!ConnectionJob, Client!dialVars, Client!requestVars
  <2>2. UNCHANGED <<loop, stopped, status, sent, taken, got, wire>>
    BY <2>1 DEF serverVars
  <2>3. Running' /\ Peering' /\ Carried' /\ ServedOnce'
    BY <2>1, <2>2 DEF LinkInv, Running, Peering, Carried, ServedOnce, Done
  <2>4. IdsAreOwn'
    BY <2>1, TailKeepsIds DEF LinkInv
  <2>5. Linked'
    BY <2>1 DEF LinkInv, Linked
  <2> QED BY <2>3, <2>4, <2>5 DEF LinkInv
<1> QED BY <1>1, <1>2

\* The connection breaks under the client.
LEMMA ClientEndBreaksStep ==
  ASSUME OfClient!CInv, OfServer!AInv, LinkInv, ClientEndBreaks
  PROVE  LinkInv'
<1>1. /\ open' = FALSE
      /\ UNCHANGED <<mail, asked, dial, nextId, phase, reqId, pending, reached, backlog, link,
                     peer, heard, serves>>
      /\ UNCHANGED serverVars
  BY DEF ClientEndBreaks, Client!ConnectionBreaks, OtherEndGone, Client!dialVars,
         Client!requestVars
<1>2. UNCHANGED <<loop, stopped, status, sent, taken, got, wire>>
  BY <1>1 DEF serverVars
<1>3. Running' /\ Peering' /\ Carried' /\ ServedOnce' /\ IdsAreOwn'
  BY <1>1, <1>2 DEF LinkInv, Running, Peering, Carried, ServedOnce, Done, IdsAreOwn
<1>4. Linked'
  BY <1>1 DEF LinkInv, Linked
<1> QED BY <1>3, <1>4 DEF LinkInv

-------------------------------------------------------------------------------
(* The response that is read is the one to the oldest open request.        *)

\* What is on the wire beyond the responses the client has read.
LEMMA NextResponse ==
  ASSUME OfClient!CInv, OfServer!AInv, LinkInv, NEW k \in Keys,
         peer[k] = link, open, heard < Len(wire[k])
  PROVE  /\ inFlight # <<>> /\ wire[k][heard + 1].id = heard + 1
         /\ heard + 1 \in DOMAIN asked[link] /\ asked[link][heard + 1] = Head(inFlight)
         /\ heard + 1 \in 1 .. taken[k] /\ Done(k, heard + 1)
<1>1. /\ heard \in Nat /\ link \in Connects /\ link # None /\ asked[link] \in Seq(Nat)
      /\ Len(asked[link]) = heard + Len(inFlight)
      /\ \A i \in 1 .. Len(inFlight) : inFlight[i] = asked[link][heard + i]
      /\ Len(sent[k]) <= Len(asked[link])
  BY DEF LinkInv, Linked, Carried
<1>2. /\ Len(wire[k]) \in Nat /\ Len(sent[k]) \in Nat /\ taken[k] \in Nat
      /\ taken[k] <= Len(sent[k]) /\ Len(wire[k]) <= taken[k]
      /\ \A i \in 1 .. Len(wire[k]) : wire[k][i].id = i
      /\ status[k] = "open" /\ got[k] => Len(wire[k]) + 1 <= taken[k]
  BY ServerFacts DEF LinkInv
<1>3. inFlight \in Seq(Nat) /\ Len(inFlight) \in Nat
  BY ClientFacts
<1>4. Len(asked[link]) \in Nat /\ DOMAIN asked[link] = 1 .. Len(asked[link])
  BY <1>1, LenProperties
<1>5. heard + 1 \in 1 .. Len(wire[k])
  <2>1. \A h, w \in Nat : h < w => h + 1 \in 1 .. w
    OBVIOUS
  <2> QED BY <1>1, <1>2, <2>1
<1>6. /\ heard + 1 \in 1 .. taken[k] /\ heard + 1 \in 1 .. Len(asked[link])
      /\ 1 \in 1 .. Len(inFlight)
      /\ (Len(wire[k]) + 1 <= taken[k] => heard + 1 # taken[k])
  <2>1. \A w, t \in Nat : \A i \in 1 .. w : w <= t => i \in 1 .. t
    OBVIOUS
  <2>2. heard + 1 \in 1 .. taken[k]
    BY <1>2, <1>5, <2>1
  <2>3. heard + 1 \in 1 .. Len(sent[k])
    BY <1>2, <2>1, <2>2
  <2>4. heard + 1 \in 1 .. Len(asked[link])
    BY <1>1, <1>2, <1>4, <2>1, <2>3
  <2>5. \A h, m, a \in Nat : a = h + m /\ h + 1 \in 1 .. a => 1 \in 1 .. m
    OBVIOUS
  <2>6. \A w, t \in Nat : \A i \in 1 .. w : w + 1 <= t => i # t
    OBVIOUS
  <2> QED BY <1>1, <1>2, <1>3, <1>4, <1>5, <2>2, <2>4, <2>5, <2>6
<1>7. inFlight # <<>> /\ Head(inFlight) = inFlight[1]
  BY <1>3, <1>6, EmptySeq, HeadTailProperties
<1>8. Done(k, heard + 1)
  BY <1>2, <1>5, <1>6 DEF Done
<1>9. wire[k][heard + 1].id = heard + 1 /\ asked[link][heard + 1] = inFlight[1]
  BY <1>1, <1>2, <1>5, <1>6
<1> QED BY <1>4, <1>6, <1>7, <1>8, <1>9

\* Its request was served, so it may be Completed.
LEMMA ReceiveStep ==
  ASSUME OfClient!CInv, OfServer!AInv, LinkInv, Receive
  PROVE  LinkInv'
<1>1. PICK k \in Keys : peer[k] = link /\ heard < Len(wire[k])
  BY DEF Receive
<1>2. /\ open /\ inFlight # <<>> /\ inFlight' = Tail(inFlight) /\ heard' = heard + 1
      /\ UNCHANGED <<open, mail, dial, nextId, phase, reqId, link, asked, reached, backlog, peer,
                     serves>>
      /\ UNCHANGED serverVars
  BY DEF Receive, Client!Receive, Client!dialVars
<1>3. UNCHANGED <<loop, stopped, status, sent, taken, got, wire>>
  BY <1>2 DEF serverVars
<1>4. Running' /\ Peering' /\ Carried' /\ IdsAreOwn'
  BY <1>2, <1>3 DEF LinkInv, Running, Peering, Carried, IdsAreOwn
<1>5. /\ heard + 1 \in 1 .. taken[k] /\ Done(k, heard + 1)
      /\ asked[link][heard + 1] = Head(inFlight)
  BY <1>1, <1>2, NextResponse
<1>6. link # None /\ link \in Connects /\ heard \in Nat
  BY <1>2 DEF LinkInv, Linked
<1>7. \A r \in Requests : pending'[r] = "Completed" => serves[r] = 1
  <2> SUFFICES ASSUME NEW r \in Requests, pending'[r] = "Completed" PROVE serves[r] = 1
    OBVIOUS
  <2>1. pending[r] = "Completed" \/ reqId[r] = Head(inFlight)
    BY ClientFacts DEF Receive, Client!Receive, Client!Matches
  <2>2. reqId[r] = Head(inFlight) => serves[r] = 1
    BY <1>1, <1>5, <1>6 DEF LinkInv, ServedOnce
  <2> QED BY <2>1, <2>2 DEF LinkInv, ServedOnce
<1>8. ServedOnce'
  BY <1>2, <1>3, <1>7 DEF LinkInv, ServedOnce, Done
<1>9. Linked'
  <2> DEFINE rest == Tail(inFlight)
  <2>1. /\ inFlight \in Seq(Nat) /\ Len(inFlight) \in Nat
        /\ Len(rest) = Len(inFlight) - 1 /\ rest \in Seq(Nat)
        /\ \A i \in 1 .. Len(rest) : i + 1 \in 1 .. Len(inFlight) /\ rest[i] = inFlight[i + 1]
    BY <1>2, ClientFacts, OfServer!TakeFirst
  <2>2. /\ Len(asked[link]) = heard + Len(inFlight)
        /\ \A i \in 1 .. Len(inFlight) : inFlight[i] = asked[link][heard + i]
    BY <1>2 DEF LinkInv, Linked
  <2>3. Len(rest) \in Nat
    BY <2>1, LenProperties
  <2> HIDE DEF rest
  <2>4. \A h, a, m, n \in Nat : a = h + m /\ n = m - 1 => a = (h + 1) + n
    OBVIOUS
  <2>5. Len(asked[link]) = (heard + 1) + Len(rest)
    <3>1. Len(asked[link]) \in Nat
      BY <1>6, <2>1, <2>2
    <3> QED BY <1>6, <2>1, <2>2, <2>3, <2>4, <3>1
  <2>6. \A h \in Nat : \A i \in Nat : h + (i + 1) = (h + 1) + i
    OBVIOUS
  <2>7. \A i \in 1 .. Len(rest) : rest[i] = asked[link][(heard + 1) + i]
    BY <1>6, <2>1, <2>2, <2>3, <2>6
  <2>8. inFlight' = rest
    BY <1>2 DEF rest
  <2>9. /\ asked' = asked /\ link' = link /\ heard' = heard + 1 /\ dial' = dial
        /\ heard + 1 \in Nat
    BY <1>2, <1>6
  <2>10. /\ Len(asked'[link']) = heard' + Len(inFlight')
         /\ \A i \in 1 .. Len(inFlight') : inFlight'[i] = asked'[link'][heard' + i]
    BY <2>5, <2>7, <2>8, <2>9
  <2> QED BY <1>6, <2>9, <2>10 DEF LinkInv, Linked
<1> QED BY <1>4, <1>8, <1>9 DEF LinkInv

-------------------------------------------------------------------------------
(* Steps of the server.                                                    *)

\* The client sees a step of the server only when it reads.
LEMMA ServerSide ==
  ASSUME LinkInv, UNCHANGED <<clientVars, asked, heard, link>>
  PROVE  Linked' /\ IdsAreOwn'
BY DEF LinkInv, Linked, IdsAreOwn, clientVars

\* A connection that opens or closes keeps its peer.
LEMMA PeeringStays ==
  ASSUME Peering, UNCHANGED <<peer, reached, backlog>>,
         \A k \in Keys : (status'[k] = "none" <=> status[k] = "none")
                         /\ (peer[k] = None => sent'[k] = sent[k])
  PROVE  Peering'
BY DEF Peering

\* A request that was handled stays handled, and none becomes so.
LEMMA ServedStays ==
  ASSUME ServedOnce, UNCHANGED <<serves, peer, asked, reqId, pending>>,
         \A k \in Keys : \A i \in 1 .. taken'[k] : Done(k, i)' => i \in 1 .. taken[k] /\ Done(k, i),
         \A k \in Keys : \A i \in 1 .. taken[k] :
           (got[k] => i # taken[k]) => i \in 1 .. taken'[k] /\ (got'[k] => i # taken'[k])
  PROVE  ServedOnce'
<1>1. \A r \in Requests : serves'[r] = 1 =>
        \E k \in Keys : \E i \in 1 .. taken'[k] :
          peer'[k] # None /\ (got'[k] => i # taken'[k]) /\ asked'[peer'[k]][i] = reqId'[r]
  <2> SUFFICES ASSUME NEW r \in Requests, serves[r] = 1
      PROVE  \E k \in Keys : \E i \in 1 .. taken'[k] :
               peer[k] # None /\ (got'[k] => i # taken'[k]) /\ asked[peer[k]][i] = reqId[r]
    OBVIOUS
  <2>1. PICK k \in Keys, i \in Int : /\ i \in 1 .. taken[k] /\ peer[k] # None
                                     /\ (got[k] => i # taken[k]) /\ asked[peer[k]][i] = reqId[r]
    BY DEF ServedOnce
  <2>2. i \in 1 .. taken'[k] /\ (got'[k] => i # taken'[k])
    BY <2>1
  <2> QED BY <2>1, <2>2
<1>2. \A k \in Keys : \A i \in 1 .. taken'[k] : peer'[k] # None /\ Done(k, i)' =>
        \A r \in Requests : reqId'[r] = asked'[peer'[k]][i] => serves'[r] = 1
  BY DEF ServedOnce
<1> QED BY <1>1, <1>2 DEF ServedOnce

\* What a connection has handled when it closes is at least what it has answered.
LEMMA CloseKeepsDone ==
  ASSUME OfServer!AInv, LinkInv, NEW k \in Keys, status[k] = "open",
         status' = [status EXCEPT ![k] = "closed"], UNCHANGED <<taken, got, wire>>
  PROVE  \A l \in Keys : \A i \in 1 .. taken'[l] : Done(l, i)' => Done(l, i)
<1> SUFFICES ASSUME NEW l \in Keys, NEW i \in 1 .. taken[l], Done(l, i)' PROVE Done(l, i)
  OBVIOUS
<1>1. /\ Len(wire[k]) \in Nat /\ taken[k] \in Nat /\ (got[k] => Len(wire[k]) + 1 <= taken[k])
      /\ DOMAIN status = Keys
  BY ServerFacts DEF LinkInv
<1>2. CASE l = k
  <2>1. status'[k] = "closed"
    BY <1>1
  <2>2. i <= Len(wire[k])
    BY <1>2, <2>1 DEF Done
  <2>3. got[k] => i # taken[k]
    BY <1>1, <2>2
  <2> QED BY <1>2, <2>3 DEF Done
<1>3. CASE l # k
  BY <1>1, <1>3 DEF Done
<1> QED BY <1>2, <1>3

\* The strand of a connection runs a posted call.
LEMMA RunJobStep ==
  ASSUME OfServer!AInv, LinkInv, NEW k \in Keys, Server!RunJob(k),
         UNCHANGED <<clientVars, netVars, serves>>
  PROVE  LinkInv'
<1> DEFINE job == Head(posted[k])
<1>1. /\ UNCHANGED <<loop, stopped, taken, got, sent>>
      /\ \/ job.op = "start" /\ status[k] = "created"
              /\ status' = [status EXCEPT ![k] = "open"] /\ wire' = wire
         \/ status[k] = "open" /\ status' = status
              /\ wire' = [wire EXCEPT ![k] = Append(@, job.response)]
         \/ status[k] = "open" /\ status' = [status EXCEPT ![k] = "closed"] /\ wire' = wire
         \/ UNCHANGED <<status, wire>>
  BY DEF Server!RunJob, Server!acceptVars, Server!Close
<1> HIDE DEF job
<1>2. UNCHANGED <<peer, reached, backlog, asked, heard, link, serves, reqId, pending>>
  BY DEF netVars, clientVars
<1>3. DOMAIN status = Keys /\ DOMAIN wire = Keys /\ \A l \in Keys : taken[l] \in Nat
      /\ (status[k] = "created" => taken[k] = 0)
  BY ServerFacts DEF LinkInv
<1>4. \A l \in Keys : status'[l] = "none" <=> status[l] = "none"
  BY <1>1, <1>3
<1>5. \A l \in Keys : \A i \in 1 .. taken[l] : Done(l, i)' => Done(l, i)
  <2>1. CASE status[k] = "created" /\ status' = [status EXCEPT ![k] = "open"] /\ wire' = wire
    <3> SUFFICES ASSUME NEW l \in Keys, NEW i \in 1 .. taken[l], Done(l, i)' PROVE Done(l, i)
      OBVIOUS
    <3>1. l # k
      BY <1>3, <2>1
    <3> QED BY <1>1, <1>3, <2>1, <3>1 DEF Done
  <2>2. CASE status[k] = "open" /\ status' = status
             /\ wire' = [wire EXCEPT ![k] = Append(@, job.response)]
    BY <1>1, <1>3, <2>2 DEF Done
  <2>3. CASE status[k] = "open" /\ status' = [status EXCEPT ![k] = "closed"] /\ wire' = wire
    BY <1>1, <2>3, CloseKeepsDone
  <2>4. CASE UNCHANGED <<status, wire>>
    BY <1>1, <2>4 DEF Done
  <2> QED BY <1>1, <2>1, <2>2, <2>3, <2>4
<1>6. ServedOnce'
  BY <1>1, <1>2, <1>5, ServedStays DEF LinkInv
<1>7. Peering'
  BY <1>1, <1>2, <1>4, PeeringStays DEF LinkInv
<1>8. Running' /\ Carried'
  BY <1>1, <1>2 DEF LinkInv, Running, Carried
<1> QED BY <1>2, <1>6, <1>7, <1>8, ServerSide DEF LinkInv

\* A read completes, or it is dropped because the connection closed meanwhile.
LEMMA ReadStep ==
  ASSUME OfServer!AInv, LinkInv, NEW k \in Keys, Server!ReadCompletes(k) \/ Server!ReadDropped(k),
         UNCHANGED <<clientVars, netVars, serves>>
  PROVE  LinkInv'
<1>1. UNCHANGED <<loop, stopped, sent, status, wire>>
  BY DEF Server!ReadCompletes, Server!ReadDropped, Server!acceptVars
<1>2. UNCHANGED <<peer, reached, backlog, asked, heard, link, serves, reqId, pending>>
  BY DEF netVars, clientVars
<1>3. /\ \A l \in Keys : taken[l] \in Nat
      /\ taken \in [Keys -> Nat] /\ got \in [Keys -> BOOLEAN]
  BY ServerFacts DEF LinkInv
<1>4. Running' /\ Carried' /\ Peering'
  BY <1>1, <1>2 DEF LinkInv, Running, Carried, Peering
<1>5. ServedOnce'
  <2>1. CASE Server!ReadCompletes(k)
    <3>1. /\ status[k] = "open" /\ ~got[k] /\ got'[k] /\ taken'[k] = taken[k] + 1
          /\ \A l \in Keys \ {k} : got'[l] = got[l] /\ taken'[l] = taken[l]
      BY <1>3, <2>1 DEF Server!ReadCompletes
    <3>2. \A l \in Keys : \A i \in 1 .. taken'[l] : Done(l, i)' => i \in 1 .. taken[l] /\ Done(l, i)
      <4> SUFFICES ASSUME NEW l \in Keys, NEW i \in 1 .. taken'[l], Done(l, i)'
          PROVE  i \in 1 .. taken[l] /\ Done(l, i)
        OBVIOUS
      <4>1. CASE l = k
        <5>1. i # taken[k] + 1
          BY <1>1, <3>1, <4>1 DEF Done
        <5>2. i \in 1 .. taken[k]
          BY <1>3, <3>1, <4>1, <5>1
        <5> QED BY <3>1, <4>1, <5>2 DEF Done
      <4>2. CASE l # k
        BY <1>1, <3>1, <4>2 DEF Done
      <4> QED BY <4>1, <4>2
    <3>3. \A l \in Keys : \A i \in 1 .. taken[l] :
            (got[l] => i # taken[l]) => i \in 1 .. taken'[l] /\ (got'[l] => i # taken'[l])
      <4> SUFFICES ASSUME NEW l \in Keys, NEW i \in 1 .. taken[l], got[l] => i # taken[l]
          PROVE  i \in 1 .. taken'[l] /\ (got'[l] => i # taken'[l])
        OBVIOUS
      <4>1. CASE l = k
        BY <1>3, <3>1, <4>1
      <4>2. CASE l # k
        BY <3>1, <4>2
      <4> QED BY <4>1, <4>2
    <3> QED BY <1>2, <3>2, <3>3, ServedStays DEF LinkInv
  <2>2. CASE Server!ReadDropped(k)
    <3>1. /\ status[k] = "closed" /\ taken' = taken /\ ~got'[k]
          /\ \A l \in Keys \ {k} : got'[l] = got[l]
      BY <1>3, <2>2 DEF Server!ReadDropped
    <3>2. \A l \in Keys : \A i \in 1 .. taken[l] : Done(l, i)' => Done(l, i)
      BY <1>1, <3>1 DEF Done
    <3> QED BY <1>2, <3>1, <3>2, ServedStays DEF LinkInv
  <2> QED BY <2>1, <2>2
<1> QED BY <1>2, <1>4, <1>5, ServerSide DEF LinkInv

LEMMA ServerAloneStep ==
  ASSUME OfServer!AInv, LinkInv, ServerAlone
  PROVE  LinkInv'
BY RunJobStep, ReadStep DEF ServerAlone

\* A connection closes under the server.
LEMMA ServerEndBreaksStep ==
  ASSUME OfServer!AInv, LinkInv, NEW k \in Keys, ServerEndBreaks(k)
  PROVE  LinkInv'
<1>1. /\ status[k] = "open" /\ status' = [status EXCEPT ![k] = "closed"]
      /\ UNCHANGED <<loop, stopped, sent, taken, got, wire>>
      /\ UNCHANGED <<reached, backlog, link, peer, asked, heard, serves>>
      /\ UNCHANGED clientVars
  BY DEF ServerEndBreaks, OtherEndGone, Server!Break, Server!Close, Server!acceptVars
<1>2. UNCHANGED <<reqId, pending>>
  BY <1>1 DEF clientVars
<1>3. \A l \in Keys : status'[l] = "none" <=> status[l] = "none"
  BY <1>1, ServerFacts DEF LinkInv
<1>4. \A l \in Keys : \A i \in 1 .. taken'[l] : Done(l, i)' => i \in 1 .. taken[l] /\ Done(l, i)
  BY <1>1, CloseKeepsDone
<1>5. ServedOnce'
  BY <1>1, <1>2, <1>4, ServedStays DEF LinkInv
<1>6. Peering'
  BY <1>1, <1>3, PeeringStays DEF LinkInv
<1>7. Running' /\ Carried'
  BY <1>1 DEF LinkInv, Running, Carried
<1> QED BY <1>1, <1>5, <1>6, <1>7, ServerSide DEF LinkInv

\* The next request reaches the server.
LEMMA ArriveStep ==
  ASSUME OfServer!AInv, LinkInv, NEW k \in Keys, Arrive(k)
  PROVE  LinkInv'
<1>1. PICK kind \in Kinds : Server!ClientSends(k, kind)
  BY DEF Arrive
<1>2. /\ peer[k] # None /\ Len(sent[k]) < Len(asked[peer[k]])
      /\ sent' = [sent EXCEPT ![k] = Append(@, kind)]
      /\ UNCHANGED <<loop, stopped, status, taken, got, wire>>
      /\ UNCHANGED <<clientVars, serves>>
      /\ UNCHANGED <<peer, reached, backlog, asked, heard, link>>
  BY <1>1 DEF Arrive, Server!ClientSends, Server!acceptVars, Server!connVars, netVars
<1>3. UNCHANGED <<reqId, pending>>
  BY <1>2 DEF clientVars
<1>4. sent[k] \in Seq(Kinds) /\ Len(sent[k]) \in Nat /\ DOMAIN sent = Keys
  BY ServerFacts DEF LinkInv
<1>5. Len(sent'[k]) = Len(sent[k]) + 1 /\ \A l \in Keys \ {k} : sent'[l] = sent[l]
  <2>1. Len(Append(sent[k], kind)) = Len(sent[k]) + 1
    BY <1>4, AppendProperties
  <2> QED BY <1>2, <1>4, <2>1
<1>6. Carried'
  <2>1. Len(asked[peer[k]]) \in Nat
    <3>1. asked[peer[k]] \in Seq(Nat)
      BY <1>2 DEF LinkInv, Peering, Linked
    <3> QED BY <3>1, LenProperties
  <2>2. Len(sent'[k]) <= Len(asked[peer[k]])
    BY <1>2, <1>4, <1>5, <2>1
  <2> QED BY <1>2, <1>5, <2>2 DEF LinkInv, Carried
<1>7. Peering'
  BY <1>2, <1>5, PeeringStays DEF LinkInv
<1>8. ServedOnce'
  BY <1>2, <1>3, ServedStays DEF LinkInv, Done
<1> QED BY <1>2, <1>6, <1>7, <1>8, ServerSide DEF LinkInv, Running

\* The accept loop gives the next dial a connection that nobody had.
LEMMA AcceptStep ==
  ASSUME OfServer!AInv, LinkInv, Accept
  PROVE  LinkInv'
<1> DEFINE k == lastId'
           c == Head(backlog)
<1>1. /\ backlog # <<>> /\ backlog' = Tail(backlog) /\ Server!Accept
      /\ peer' = [peer EXCEPT ![k] = c]
      /\ UNCHANGED <<clientVars, reached, link, asked, heard, serves>>
  BY DEF Accept
<1>2. /\ OfServer!SInv /\ ~OfServer!IdsExhausted /\ k = OfServer!NextId
      /\ status' = [status EXCEPT ![k] = "created"]
      /\ UNCHANGED <<loop, stopped, taken, got, wire, sent>>
  BY <1>1 DEF Server!Accept, OfServer!AInv, OfServer!IdsExhausted, OfServer!NextId,
              Server!IdsExhausted, Server!NextId
<1>3. k = lastId + 1 /\ k \in Keys /\ status[k] = "none"
  <2>1. lastId \in Keys /\ {l \in Keys : status[l] # "none"} = 1 .. lastId
    BY ServerFacts DEF LinkInv
  <2>2. k = lastId + 1 /\ k \in Keys
    BY <1>2, <2>1, SameAssumptions, OfServer!NextIdCounts
  <2>3. lastId \in Nat
    BY <2>1, SameAssumptions
  <2>4. k \notin 1 .. lastId
    BY <2>2, <2>3
  <2> QED BY <2>1, <2>2, <2>4
<1> HIDE DEF k, c
<1>4. /\ peer[k] = None /\ sent[k] = <<>> /\ taken[k] = 0
      /\ peer \in [Keys -> Connects \cup {None}] /\ reached \subseteq Connects
      /\ DOMAIN status = Keys /\ \A l \in Keys : taken[l] \in Nat
  BY <1>3, ServerFacts DEF LinkInv, Peering
<1>5. /\ c \in Connects /\ c = backlog[1] /\ 1 \in DOMAIN backlog /\ Tail(backlog) \in Seq(Connects)
      /\ \A i \in DOMAIN Tail(backlog) :
           i \in Nat /\ i + 1 # 1 /\ i + 1 \in DOMAIN backlog /\ Tail(backlog)[i] = backlog[i + 1]
  <2>1. backlog \in Seq(Connects) /\ DOMAIN backlog = 1 .. Len(backlog)
    BY LenProperties DEF LinkInv, Peering
  <2>2. /\ c \in Connects /\ c = backlog[1] /\ 1 \in 1 .. Len(backlog)
        /\ Tail(backlog) \in Seq(Connects)
        /\ \A i \in 1 .. Len(Tail(backlog)) :
             i + 1 \in 1 .. Len(backlog) /\ Tail(backlog)[i] = backlog[i + 1]
    BY <1>1, <2>1, OfServer!TakeFirst DEF c
  <2>3. DOMAIN Tail(backlog) = 1 .. Len(Tail(backlog)) /\ Len(Tail(backlog)) \in Nat
    BY <2>2, LenProperties
  <2>4. \A i \in 1 .. Len(Tail(backlog)) : i \in Nat /\ i + 1 # 1
    BY <2>3
  <2> QED BY <2>1, <2>2, <2>3, <2>4
<1>6. c # None /\ c \in reached /\ \A l \in Keys : peer[l] # c
  BY <1>5, SameAssumptions DEF LinkInv, Peering
<1>7. /\ peer' \in [Keys -> Connects \cup {None}] /\ peer'[k] = c
      /\ \A l \in Keys \ {k} : peer'[l] = peer[l] /\ status'[l] = status[l]
      /\ status'[k] = "created"
  BY <1>1, <1>2, <1>3, <1>4, <1>5
<1>8. Peering'
  <2>1. \A l \in Keys :
          (peer'[l] = None <=> status'[l] = "none") /\ (peer'[l] = None => sent'[l] = <<>>)
    BY <1>2, <1>6, <1>7 DEF LinkInv, Peering
  <2>2. \A l, m \in Keys : peer'[l] # None /\ peer'[l] = peer'[m] => l = m
    BY <1>6, <1>7 DEF LinkInv, Peering
  <2>3. \A i, j \in Nat : i + 1 = j + 1 => i = j
    OBVIOUS
  <2>4. \A i, j \in DOMAIN backlog : backlog[i] = backlog[j] => i = j
    BY DEF LinkInv, Peering
  <2>5. \A i, j \in DOMAIN backlog' : backlog'[i] = backlog'[j] => i = j
    BY <1>1, <1>5, <2>3, <2>4
  <2>6. \A i \in DOMAIN backlog' : backlog'[i] \in reached /\ backlog'[i] # c
    BY <1>1, <1>5, <2>4 DEF LinkInv, Peering
  <2>7. \A l \in Keys : peer'[l] # None =>
          peer'[l] \in reached /\ \A i \in DOMAIN backlog' : backlog'[i] # peer'[l]
    <3> SUFFICES ASSUME NEW l \in Keys, peer'[l] # None
        PROVE  peer'[l] \in reached /\ \A i \in DOMAIN backlog' : backlog'[i] # peer'[l]
      OBVIOUS
    <3>1. CASE l = k
      BY <1>6, <1>7, <2>6, <3>1
    <3>2. CASE l # k
      BY <1>1, <1>5, <1>7, <3>2 DEF LinkInv, Peering
    <3> QED BY <3>1, <3>2
  <2> QED BY <1>1, <1>4, <1>5, <1>7, <2>1, <2>2, <2>5, <2>6, <2>7 DEF Peering
<1>9. Carried'
  <2>1. Len(sent[k]) = 0 /\ asked[c] \in Seq(Nat)
    BY <1>4, <1>5 DEF LinkInv, Linked
  <2>2. Len(asked[c]) \in Nat
    BY <2>1, LenProperties
  <2> QED BY <1>1, <1>2, <1>7, <2>1, <2>2 DEF LinkInv, Carried
<1>10. ServedOnce'
  <2>1. \A l \in Keys : \A i \in 1 .. taken[l] :
          l # k /\ peer'[l] = peer[l] /\ status'[l] = status[l]
    BY <1>4, <1>7
  <2>2. /\ taken' = taken /\ got' = got /\ wire' = wire /\ asked' = asked /\ serves' = serves
        /\ reqId' = reqId /\ pending' = pending
    BY <1>1, <1>2 DEF clientVars
  <2>3. \A l \in Keys : \A i \in 1 .. taken[l] : Done(l, i)' => Done(l, i)
    BY <2>1, <2>2 DEF Done
  <2>4. \A r \in Requests : serves'[r] = 1 =>
          \E l \in Keys : \E i \in 1 .. taken'[l] :
            peer'[l] # None /\ (got'[l] => i # taken'[l]) /\ asked'[peer'[l]][i] = reqId'[r]
    BY <2>1, <2>2 DEF LinkInv, ServedOnce
  <2>5. \A l \in Keys : \A i \in 1 .. taken'[l] : peer'[l] # None /\ Done(l, i)' =>
          \A r \in Requests : reqId'[r] = asked'[peer'[l]][i] => serves'[r] = 1
    BY <2>1, <2>2, <2>3 DEF LinkInv, ServedOnce
  <2> QED BY <2>2, <2>4, <2>5 DEF LinkInv, ServedOnce
<1> QED BY <1>1, <1>2, <1>8, <1>9, <1>10, ServerSide DEF LinkInv, Running

-------------------------------------------------------------------------------
(* The server handles the request it has read.                             *)

\* It was not handled before, on this connection or on another, so it is not answered.
LEMMA HandledFirst ==
  ASSUME OfClient!CInv, OfServer!AInv, LinkInv, NEW k \in Keys, Handle(k)
  PROVE  /\ status[k] = "open" /\ got[k] /\ peer[k] # None /\ peer[k] \in Connects
         /\ taken[k] \in 1 .. taken[k]
         /\ \A r, q \in Requests : reqId[r] = asked[peer[k]][taken[k]]
                                   /\ reqId[q] = asked[peer[k]][taken[k]] => r = q
         /\ \A r \in Requests : reqId[r] = asked[peer[k]][taken[k]] =>
              serves[r] = 0 /\ phase[r] \notin {"unused", "refused", "answered"}
<1>1. status[k] = "open" /\ got[k]
  BY DEF Handle, Server!Handle, Server!MayHandle
<1>2. peer[k] # None /\ peer[k] \in Connects
  BY <1>1 DEF LinkInv, Peering
<1>3. taken[k] \in 1 .. taken[k]
  <2>1. taken[k] \in Nat /\ Len(wire[k]) \in Nat /\ Len(wire[k]) + 1 <= taken[k]
    BY <1>1, ServerFacts DEF LinkInv
  <2> QED BY <2>1
<1> DEFINE id == asked[peer[k]][taken[k]]
<1>4. taken[k] \in DOMAIN asked[peer[k]] /\ id \in 1 .. nextId /\ nextId \in Nat
  BY <1>2, <1>3, TakenWasAsked, ClientFacts
<1>5. id # 0
  BY <1>4
<1>6. \A r, q \in Requests : reqId[r] = id /\ reqId[q] = id => r = q
  BY <1>5 DEF LinkInv, IdsAreOwn
<1>7. ASSUME NEW r \in Requests, reqId[r] = id
      PROVE  serves[r] = 0 /\ phase[r] \notin {"unused", "refused", "answered"}
  <2>1. serves[r] # 1
    <3> SUFFICES ASSUME serves[r] = 1 PROVE FALSE
      OBVIOUS
    <3>1. PICK l \in Keys, i \in Int : /\ i \in 1 .. taken[l] /\ peer[l] # None
                                       /\ (got[l] => i # taken[l]) /\ asked[peer[l]][i] = id
      BY <1>7 DEF LinkInv, ServedOnce
    <3>2. peer[l] \in Connects /\ i \in DOMAIN asked[peer[l]]
      BY <3>1, TakenWasAsked
    <3>3. peer[l] = peer[k] /\ i = taken[k]
      BY <1>2, <1>4, <3>1, <3>2 DEF LinkInv, IdsAreOwn
    <3>4. l = k
      BY <1>2, <3>3 DEF LinkInv, Peering
    <3> QED BY <1>1, <3>1, <3>3, <3>4
  <2>2. serves[r] = 0
    BY <2>1 DEF LinkInv, ServedOnce
  <2>3. phase[r] \notin {"unused", "refused"}
    BY <1>5, <1>7 DEF LinkInv, IdsAreOwn
  <2>4. phase[r] # "answered"
    BY <2>1, ClientFacts DEF LinkInv, ServedOnce
  <2> QED BY <2>2, <2>3, <2>4
<1> QED BY <1>1, <1>2, <1>3, <1>6, <1>7

LEMMA HandleStep ==
  ASSUME OfClient!CInv, OfServer!AInv, LinkInv, NEW k \in Keys, Handle(k)
  PROVE  LinkInv'
<1> DEFINE id == asked[peer[k]][taken[k]]
<1>1. /\ serves' = [r \in Requests |-> IF reqId[r] = id THEN serves[r] + 1 ELSE serves[r]]
      /\ UNCHANGED <<clientVars, netVars>>
  BY DEF Handle
<1>2. /\ UNCHANGED <<loop, stopped, status, taken, wire, sent>>
      /\ got' = [got EXCEPT ![k] = FALSE]
  BY DEF Handle, Server!Handle, Server!acceptVars
<1>3. UNCHANGED <<peer, reached, backlog, asked, heard, link, reqId, pending>>
  BY <1>1 DEF netVars, clientVars
<1>4. /\ status[k] = "open" /\ got[k] /\ peer[k] # None /\ taken[k] \in 1 .. taken[k]
      /\ \A r \in Requests : reqId[r] = id => serves[r] = 0
  BY HandledFirst
<1>5. got \in [Keys -> BOOLEAN] /\ \A l \in Keys : taken[l] \in Nat
  BY ServerFacts DEF LinkInv
<1>6. got'[k] = FALSE /\ \A l \in Keys \ {k} : got'[l] = got[l]
  BY <1>2, <1>5
<1> HIDE DEF id
<1>7. /\ serves' \in [Requests -> {0, 1}]
      /\ \A r \in Requests : serves'[r] = 1 <=> serves[r] = 1 \/ reqId[r] = id
  <2>1. \A r \in Requests :
          serves[r] \in {0, 1} /\ serves'[r] = IF reqId[r] = id THEN serves[r] + 1 ELSE serves[r]
    BY <1>1 DEF LinkInv, ServedOnce
  <2>2. \A r \in Requests :
          serves'[r] \in {0, 1} /\ (serves'[r] = 1 <=> serves[r] = 1 \/ reqId[r] = id)
    BY <1>4, <2>1
  <2> QED BY <1>1, <2>2
<1>8. \A r \in Requests : serves'[r] = 1 =>
        \E l \in Keys : \E i \in 1 .. taken[l] :
          peer[l] # None /\ (got'[l] => i # taken[l]) /\ asked[peer[l]][i] = reqId[r]
  <2> SUFFICES ASSUME NEW r \in Requests, serves'[r] = 1
      PROVE  \E l \in Keys : \E i \in 1 .. taken[l] :
               peer[l] # None /\ (got'[l] => i # taken[l]) /\ asked[peer[l]][i] = reqId[r]
    OBVIOUS
  <2>1. CASE reqId[r] = id
    BY <1>4, <1>6, <2>1 DEF id
  <2>2. CASE reqId[r] # id
    <3>1. PICK l \in Keys, i \in Int : /\ i \in 1 .. taken[l] /\ peer[l] # None
                                       /\ (got[l] => i # taken[l])
                                       /\ asked[peer[l]][i] = reqId[r]
      BY <1>7, <2>2 DEF LinkInv, ServedOnce
    <3>2. got'[l] => got[l]
      BY <1>6
    <3> QED BY <3>1, <3>2
  <2> QED BY <2>1, <2>2
<1>9. \A l \in Keys : \A i \in 1 .. taken[l] : peer[l] # None /\ Done(l, i)' =>
        \A r \in Requests : reqId[r] = asked[peer[l]][i] => serves'[r] = 1
  <2> SUFFICES ASSUME NEW l \in Keys, NEW i \in 1 .. taken[l], peer[l] # None, Done(l, i)',
                      NEW r \in Requests, reqId[r] = asked[peer[l]][i]
      PROVE  serves'[r] = 1
    OBVIOUS
  <2>1. CASE l = k /\ i = taken[k]
    BY <1>7, <2>1 DEF id
  <2>2. CASE ~(l = k /\ i = taken[k])
    <3>1. Done(l, i)
      BY <1>2, <1>6, <2>2 DEF Done
    <3> QED BY <1>7, <3>1 DEF LinkInv, ServedOnce
  <2> QED BY <2>1, <2>2
<1>10. \A r \in Requests : pending'[r] = "Completed" => serves'[r] = 1
  BY <1>3, <1>7 DEF LinkInv, ServedOnce
<1>11. ServedOnce'
  BY <1>2, <1>3, <1>7, <1>8, <1>9, <1>10 DEF ServedOnce
<1>12. Running' /\ Peering' /\ Carried'
  BY <1>2, <1>3 DEF LinkInv, Running, Peering, Carried
<1> QED BY <1>1, <1>3, <1>11, <1>12, ServerSide DEF LinkInv

-------------------------------------------------------------------------------

LEMMA LinkInitEstablishes == Init => LinkInv
<1> SUFFICES ASSUME Init PROVE LinkInv
  OBVIOUS
<1>1. /\ Client!Init /\ Server!Init
      /\ reached = {} /\ backlog = <<>> /\ link = None /\ peer = [k \in Keys |-> None]
      /\ asked = [c \in Connects |-> <<>>] /\ heard = 0 /\ serves = [r \in Requests |-> 0]
  BY DEF Init
<1>2. /\ open = FALSE /\ mail = <<>> /\ nextId = 0 /\ phase = [r \in Requests |-> "unused"]
      /\ reqId = [r \in Requests |-> 0] /\ pending = [r \in Requests |-> "none"]
  BY <1>1 DEF Client!Init
<1>3. /\ loop = "running" /\ stopped = FALSE /\ status = [k \in Keys |-> "none"]
      /\ sent = [k \in Keys |-> <<>>] /\ taken = [k \in Keys |-> 0]
      /\ got = [k \in Keys |-> FALSE]
  BY <1>1 DEF Server!Init
<1>4. DOMAIN backlog = {} /\ DOMAIN mail = {} /\ backlog \in Seq(Connects)
      /\ \A c \in Connects : DOMAIN asked[c] = {} /\ asked[c] = <<>>
  BY <1>1, <1>2
<1>5. Running
  BY <1>3 DEF Running
<1>6. Peering
  BY <1>1, <1>3, <1>4 DEF Peering
<1>7. Linked
  BY <1>1, <1>2 DEF Linked
<1>8. Carried
  BY <1>1 DEF Carried
<1>9. IdsAreOwn
  BY <1>2, <1>4 DEF IdsAreOwn
<1>10. ServedOnce
  BY <1>1, <1>2 DEF ServedOnce
<1> QED BY <1>5, <1>6, <1>7, <1>8, <1>9, <1>10 DEF LinkInv

LEMMA LinkStepKeeps == OfServer!AInv /\ OfClient!CInv /\ LinkInv /\ [Next]_vars => LinkInv'
<1> SUFFICES ASSUME OfServer!AInv, OfClient!CInv, LinkInv, [Next]_vars PROVE LinkInv'
  OBVIOUS
<1>1. CASE UNCHANGED vars
  BY <1>1 DEF vars, clientVars, serverVars, netVars, LinkInv, Running, Peering, Linked, Carried,
              IdsAreOwn, ServedOnce, Done
<1>2. CASE ClientAlone
  BY <1>2, AloneStep
<1>3. ASSUME NEW c \in Connects, Handshake(c) \/ DialCompletes(c) \/ Connected(c) PROVE LinkInv'
  BY <1>3, HandshakeStep, DialCompletesStep, ConnectedStep
<1>4. CASE ConnectionJob
  BY <1>4, ConnectionJobStep
<1>5. CASE Receive
  BY <1>5, ReceiveStep
<1>6. CASE ServerAlone
  BY <1>6, ServerAloneStep
<1>7. CASE Accept
  BY <1>7, AcceptStep
<1>8. ASSUME NEW k \in Keys, Arrive(k) \/ Handle(k) \/ ServerEndBreaks(k) PROVE LinkInv'
  BY <1>8, ArriveStep, HandleStep, ServerEndBreaksStep
<1>9. CASE ClientEndBreaks
  BY <1>9, ClientEndBreaksStep
<1> QED BY <1>1, <1>2, <1>3, <1>4, <1>5, <1>6, <1>7, <1>8, <1>9 DEF Next

\* The two ends of every connection agree, as far as both have got.
THEOREM LinkInvariance == Spec => []LinkInv
BY BothInvariants, LinkInitEstablishes, LinkStepKeeps, PTL DEF Spec

\* The client is never given the response to another request than the oldest it has open:
\* what ClientNetwork leaves to the server is what Server does, whatever was lost with
\* earlier connections (ServerConnectionManager.cpp:41-49, ClientRequestManager.cpp:192-214).
THEOREM ResponsesMatch == Spec => []NextResponseMatches
<1>1. OfServer!AInv /\ OfClient!CInv /\ LinkInv => NextResponseMatches
  BY NextResponse DEF NextResponseMatches
<1> QED BY <1>1, BothInvariants, LinkInvariance, PTL

-------------------------------------------------------------------------------
(* What client and server promise together.                                *)

Known == [r \in Requests |-> Result(r)]

\* A step that changes no request's phase changes nobody's knowledge of it.
LEMMA PhaseStays ==
  ASSUME UNCHANGED <<phase, serves>>
  PROVE  UNCHANGED Service!vars
BY DEF Result, Service!vars

\* One request changes its phase.
LEMMA PhaseOfOne ==
  ASSUME OfClient!CInv, NEW r \in Requests, NEW p, phase' = [phase EXCEPT ![r] = p],
         UNCHANGED serves, NEW from, NEW to, Result(r) = from, Result(r)' = to
  PROVE  Service!Becomes(r, from, to)
<1>1. \A q \in Requests \ {r} : Result(q)' = Result(q)
  BY ClientFacts DEF Result
<1>2. Known' = [Known EXCEPT ![r] = to] /\ Known[r] = from
  BY <1>1 DEF Known
<1> QED BY <1>2 DEF Service!Becomes, Known

\* What the client does alone with a request is a send, a refusal, an answer or a loss.
LEMMA AloneServes ==
  ASSUME OfClient!CInv, LinkInv, ClientAlone
  PROVE  [Service!Next]_(Service!vars)
<1> USE DEF Client!dialVars, Client!managerVars, Client!linkVars, Client!requestVars
<1>1. serves' = serves
  BY DEF ClientAlone
<1>2. ASSUME NEW r \in Requests, Client!SendRequest(r) PROVE Service!Next
  <2>1. phase[r] = "unused" /\ phase' = [phase EXCEPT ![r] = "waiting"] /\ phase'[r] = "waiting"
    BY <1>2, ClientFacts DEF Client!SendRequest
  <2>2. Result(r) = "unused" /\ Result(r)' = "open"
    BY <2>1 DEF Result
  <2>3. Service!Send(r)
    BY <1>1, <2>1, <2>2, PhaseOfOne DEF Service!Send
  <2> QED BY <2>3 DEF Service!Next
<1>3. ASSUME NEW r \in Requests, Client!SendRefused(r) PROVE Service!Next
  <2>1. phase[r] = "unused" /\ phase' = [phase EXCEPT ![r] = "refused"] /\ phase'[r] = "refused"
    BY <1>3, ClientFacts DEF Client!SendRefused
  <2>2. Result(r) = "unused" /\ Result(r)' = "refused"
    BY <2>1 DEF Result
  <2>3. Service!Refuse(r)
    BY <1>1, <2>1, <2>2, PhaseOfOne DEF Service!Refuse
  <2> QED BY <2>3 DEF Service!Next
<1>4. ASSUME NEW r \in Requests, Client!RequestResumes(r) PROVE Service!Next
  <2>1. /\ phase[r] = "waiting" /\ phase' = [phase EXCEPT ![r] = Client!Outcome(r)]
        /\ phase'[r] = Client!Outcome(r)
    BY <1>4, ClientFacts DEF Client!RequestResumes
  <2>2. Result(r) = "open"
    BY <2>1 DEF Result
  <2>3. CASE Client!Outcome(r) = "answered"
    <3>1. Result(r)' = "answered"
      BY <2>1, <2>3 DEF Result
    <3>2. pending[r] = "Completed"
      BY <2>3 DEF Client!Outcome
    <3>3. serves[r] = 1
      BY <3>2 DEF LinkInv, ServedOnce
    <3>4. Service!Answer(r)
      BY <1>1, <2>1, <2>2, <3>1, <3>3, PhaseOfOne DEF Service!Answer
    <3> QED BY <3>4 DEF Service!Next
  <2>4. CASE Client!Outcome(r) # "answered"
    <3>1. Client!Outcome(r) \in {"timedOut", "failed", "cancelled"}
      BY <2>4 DEF Client!Outcome
    <3>2. Result(r)' = "lost"
      BY <2>1, <3>1 DEF Result
    <3>3. Service!Lose(r)
      BY <1>1, <2>1, <2>2, <3>2, PhaseOfOne DEF Service!Lose
    <3> QED BY <3>3 DEF Service!Next
  <2> QED BY <2>3, <2>4
<1>5. \/ \E r \in Requests :
           Client!SendRequest(r) \/ Client!SendRefused(r) \/ Client!RequestResumes(r)
      \/ phase' = phase
  <2>1. ASSUME NEW c \in Connects,
               \/ Client!Connect(c) \/ Client!DialTimesOut(c)
               \/ Client!ResumeCancelled(c) \/ Client!ResumeFailed(c)
        PROVE  phase' = phase
    BY <2>1 DEF Client!Connect, Client!DialTimesOut, Client!ResumeCancelled,
                Client!ResumeFailed
  <2>2. ASSUME NEW d \in Disconnects, Client!Disconnect(d) \/ Client!DisconnectResumes(d)
        PROVE  phase' = phase
    BY <2>2 DEF Client!Disconnect, Client!DisconnectResumes
  <2>3. Client!ConnectionClosed => phase' = phase
    BY DEF Client!ConnectionClosed, Client!closedFrame
  <2>4. \A r \in Requests : Client!RequestStep(r) => Client!RequestResumes(r) \/ phase' = phase
    BY DEF Client!RequestStep, Client!TimerExpires
  <2> QED BY <2>1, <2>2, <2>3, <2>4, Zenon DEF ClientAlone
<1> QED BY <1>1, <1>2, <1>3, <1>4, <1>5, PhaseStays

\* Handling a request serves the one it came from, if somebody still knows of it.
LEMMA HandleServes ==
  ASSUME OfClient!CInv, OfServer!AInv, LinkInv, NEW k \in Keys, Handle(k)
  PROVE  [Service!Next]_(Service!vars)
<1> DEFINE id == asked[peer[k]][taken[k]]
<1>1. /\ serves' = [r \in Requests |-> IF reqId[r] = id THEN serves[r] + 1 ELSE serves[r]]
      /\ phase' = phase
  BY DEF Handle, clientVars
<1>2. Known' = Known
  BY <1>1 DEF Known, Result
<1>3. serves \in [Requests -> {0, 1}]
  BY DEF LinkInv, ServedOnce
<1>4. /\ \A r, q \in Requests : reqId[r] = id /\ reqId[q] = id => r = q
      /\ \A r \in Requests : reqId[r] = id =>
           serves[r] = 0 /\ phase[r] \notin {"unused", "refused", "answered"}
  BY HandledFirst
<1> HIDE DEF id
<1>5. CASE \A r \in Requests : reqId[r] # id
  <2>1. serves' = serves
    BY <1>1, <1>3, <1>5
  <2> QED BY <1>1, <2>1, PhaseStays
<1>6. ASSUME NEW r \in Requests, reqId[r] = id PROVE Service!Next
  <2>1. serves[r] = 0 /\ \A q \in Requests \ {r} : reqId[q] # id
    BY <1>4, <1>6
  <2>2. serves' = [serves EXCEPT ![r] = 1]
    <3>1. \A q \in Requests : (IF reqId[q] = id THEN serves[q] + 1 ELSE serves[q])
                                = IF q = r THEN 1 ELSE serves[q]
      BY <1>6, <2>1
    <3>2. serves' = [q \in Requests |-> IF q = r THEN 1 ELSE serves[q]]
      BY <1>1, <3>1
    <3> QED BY <1>3, <3>2
  <2>3. Result(r) \in {"open", "lost"}
    <3>1. phase[r] \notin {"unused", "refused", "answered"}
      BY <1>4, <1>6
    <3> QED BY <3>1 DEF Result
  <2>4. Service!Serve(r)
    BY <1>2, <2>1, <2>2, <2>3 DEF Service!Serve, Known
  <2> QED BY <2>4 DEF Service!Next
<1> QED BY <1>5, <1>6

LEMMA ServiceStep ==
  OfServer!AInv /\ OfClient!CInv /\ LinkInv /\ [Next]_vars => [Service!Next]_(Service!vars)
<1> SUFFICES ASSUME OfServer!AInv, OfClient!CInv, LinkInv, [Next]_vars
             PROVE  [Service!Next]_(Service!vars)
  OBVIOUS
<1>1. CASE ClientAlone
  BY <1>1, AloneServes
<1>2. ASSUME NEW k \in Keys, Handle(k) PROVE [Service!Next]_(Service!vars)
  BY <1>2, HandleServes
<1>3. CASE UNCHANGED vars \/ ServerAlone \/ Accept
  BY <1>3, PhaseStays DEF vars, clientVars, ServerAlone, Accept
<1>4. CASE ConnectionJob \/ Receive \/ ClientEndBreaks
  <2>1. phase' = phase /\ serves' = serves
    BY <1>4 DEF ConnectionJob, Client!ConnectionJob, Receive, Client!Receive, ClientEndBreaks,
                Client!ConnectionBreaks, OtherEndGone, Client!requestVars
  <2> QED BY <2>1, PhaseStays
<1>5. ASSUME NEW c \in Connects, Handshake(c) \/ DialCompletes(c) \/ Connected(c)
      PROVE  [Service!Next]_(Service!vars)
  <2>1. phase' = phase /\ serves' = serves
    BY <1>5 DEF Handshake, DialCompletes, Client!DialCompletes, Connected,
                Client!ResumeConnected, clientVars, Client!requestVars
  <2> QED BY <2>1, PhaseStays
<1>6. ASSUME NEW k \in Keys, Arrive(k) \/ ServerEndBreaks(k)
      PROVE  [Service!Next]_(Service!vars)
  <2>1. phase' = phase /\ serves' = serves
    BY <1>6 DEF Arrive, ServerEndBreaks, OtherEndGone, clientVars
  <2> QED BY <2>1, PhaseStays
<1> QED BY <1>1, <1>2, <1>3, <1>4, <1>5, <1>6 DEF Next

\* A request is served at most once, answered only after that and never served when it was
\* refused, whatever is dialled, closed, timed out and dialled again meanwhile
\* (ClientRequestManager.cpp:97-214, ServerConnectionManager.cpp:41-49).
THEOREM RequestsAreServed == Spec => ServiceSpec
<1>1. Init => Service!Init
  <2> SUFFICES ASSUME Init PROVE Service!Init
    OBVIOUS
  <2>1. phase = [r \in Requests |-> "unused"] /\ serves = [r \in Requests |-> 0]
    BY DEF Init, Client!Init
  <2>2. \A r \in Requests : Result(r) = "unused"
    BY <2>1 DEF Result
  <2> QED BY <2>1, <2>2 DEF Service!Init
<1> QED BY <1>1, ServiceStep, BothInvariants, LinkInvariance, PTL
        DEF Spec, ServiceSpec, Service!Spec
===============================================================================
