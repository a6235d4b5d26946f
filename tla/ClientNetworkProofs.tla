-------------------------- MODULE ClientNetworkProofs --------------------------
(***************************************************************************)
(* Safety of ClientNetwork for any number of calls and any limit of the    *)
(* table.  The invariant has two halves: the managers with the connection  *)
(* below (ManagerInv) and the requests (RequestInv).  A step of one half   *)
(* disturbs the other only where a connection starts or ends.              *)
(***************************************************************************)
EXTENDS ClientNetwork, FiniteSetTheorems, SequenceTheorems, TLAPS

ManagerTypeOK ==
  /\ state \in {"Disconnected", "Connecting", "Connected", "Disconnecting"}
  /\ socket \in Connects \cup {None}
  /\ dial \in [Connects -> InFlightDial \cup {"unused", "connected", "failed", "rejected"}]
  /\ waiter \in [Disconnects -> {"unused", "waiting", "woken", "done"}]
  /\ opened \in Nat /\ connection \in {0, opened}
  /\ onClosed \in BOOLEAN /\ open \in BOOLEAN
  /\ mail \in Seq(Nat) /\ inFlight \in Seq(Nat) /\ notices \in Nat

RequestTypeOK ==
  /\ nextId \in Nat
  /\ phase \in [Requests -> {"unused", "waiting", "refused", "timedOut", "failed",
                             "answered"}]
  /\ reqId \in [Requests -> Nat] /\ sentOn \in [Requests -> Nat]
  /\ timer \in [Requests -> {"idle", "armed", "expired", "cancelled"}]
  /\ pending \in [Requests -> {"none", "Waiting", "Completed", "Failed"}]
  /\ answer \in [Requests -> Nat \X Nat]

\* Without m_connection there is nothing below: no open socket, no notice to come.
NothingBelow == connection = 0 => ~open /\ notices = 0

ManagerInv == ManagerTypeOK /\ StateIsTruthful /\ NoLostWakeUp /\ NothingBelow

TableLimit == IsFiniteSet(Table) /\ Cardinality(Table) <= MaxPending

\* A request is entered with its timer armed, the timer is cancelled together with a
\* change of the request's state only, and Completed is set with the answer to it.
TimerFollows ==
  \A r \in Requests :
    /\ phase[r] = "waiting" => pending[r] # "none" /\ timer[r] # "idle"
    /\ timer[r] = "cancelled" => pending[r] \in {"Completed", "Failed"}
    /\ phase[r] = "answered" => pending[r] = "Completed"
    /\ pending[r] = "Completed" => answer[r] = <<reqId[r], sentOn[r]>>
    /\ phase[r] = "unused" => pending[r] = "none"

RequestInv == RequestTypeOK /\ TableLimit /\ WaitingOnLiveConnection /\ TimerFollows

CInv == ManagerInv /\ RequestInv

-------------------------------------------------------------------------------

\* CInv contains the properties of the runs.
LEMMA Consequences == CInv => TypeOK /\ OwnAnswer
BY DEF CInv, ManagerInv, RequestInv, ManagerTypeOK, RequestTypeOK, TableLimit, TypeOK,
       TimerFollows, OwnAnswer

\* Nothing is connected, nobody waits (ConnectionManager.cpp:9-24).
LEMMA ClientInitEstablishes == Init => CInv
<1> SUFFICES ASSUME Init PROVE CInv
  OBVIOUS
<1>1. ManagerTypeOK /\ RequestTypeOK
  <2>1. mail \in Seq(Nat) /\ inFlight \in Seq(Nat)
    BY DEF Init
  <2>2. ManagerTypeOK
    BY <2>1 DEF Init, ManagerTypeOK
  <2>3. RequestTypeOK
    BY DEF Init, RequestTypeOK
  <2> QED BY <2>2, <2>3
<1>2. TableLimit
  <2>1. Table = {}
    BY DEF Init, Table
  <2> QED BY <2>1, FS_EmptySet, PendingAssumption DEF TableLimit
<1>3. StateIsTruthful
  BY NoneAssumption DEF Init, StateIsTruthful, InFlightDial
<1> QED BY <1>1, <1>2, <1>3
        DEF Init, CInv, ManagerInv, RequestInv, NoLostWakeUp, NothingBelow, Table,
            WaitingOnLiveConnection, TimerFollows

\* What is not touched stays true.
LEMMA RequestsStay ==
  ASSUME RequestInv, UNCHANGED requestVars,
         connection' = connection \/ connection = 0
  PROVE  RequestInv'
<1> USE DEF requestVars
<1>1. Table' = Table
  BY DEF Table
<1>2. WaitingOnLiveConnection'
  BY <1>1 DEF RequestInv, WaitingOnLiveConnection
<1> QED BY <1>1, <1>2 DEF RequestInv, RequestTypeOK, TableLimit, TimerFollows

LEMMA ManagersStay ==
  ASSUME ManagerInv, UNCHANGED <<state, dialVars, waiter, managerVars, open, notices>>,
         mail' \in Seq(Nat), inFlight' \in Seq(Nat)
  PROVE  ManagerInv'
BY DEF dialVars, managerVars, ManagerInv, ManagerTypeOK, StateIsTruthful, NoLostWakeUp,
       NothingBelow

\* Leaving Disconnecting wakes every waiter (ConnectionManager.cpp:164-172).
LEMMA SetStateEffect ==
  ASSUME ManagerTypeOK, NoLostWakeUp,
         NEW s \in {"Disconnected", "Connecting", "Connected"}, SetState(s),
         state = "Disconnecting" => s = "Disconnected"
  PROVE  /\ state' = s /\ waiter' \in [Disconnects -> {"unused", "waiting", "woken", "done"}]
         /\ NoLostWakeUp'
BY DEF SetState, ManagerTypeOK, NoLostWakeUp

-------------------------------------------------------------------------------
(* Dialling.                                                               *)

\* connect() takes the socket if it may (ConnectionManager.cpp:32-62).
LEMMA ConnectStep ==
  ASSUME CInv, NEW c \in Connects, Connect(c)
  PROVE  CInv'
<1> USE DEF managerVars, linkVars, InFlightDial
<1>1. RequestInv'
  BY RequestsStay DEF CInv, Connect
<1>2. CASE MayConnect
  <2>1. /\ state = "Disconnected" /\ SetState("Connecting") /\ socket' = c
        /\ dial' = [dial EXCEPT ![c] = "pending"]
    BY <1>2 DEF Connect, MayConnect
  <2>2. state' = "Connecting" /\ NoLostWakeUp' /\ UNCHANGED waiter
    BY <2>1, SetStateEffect DEF CInv, ManagerInv, SetState
  <2>3. socket = None /\ \A b \in Connects : dial[b] \notin InFlightDial
    BY <2>1, NoneAssumption DEF CInv, ManagerInv, StateIsTruthful
  <2>4. ManagerTypeOK'
    BY <2>1, <2>2 DEF CInv, ManagerInv, ManagerTypeOK, Connect
  <2>5. \A b \in Connects : dial'[b] \in InFlightDial <=> socket' = b
    BY <2>1, <2>3 DEF CInv, ManagerInv, ManagerTypeOK
  <2>6. StateIsTruthful' /\ NothingBelow'
    BY <2>1, <2>2, <2>5, NoneAssumption
       DEF CInv, ManagerInv, StateIsTruthful, NothingBelow, Connect
  <2> QED BY <1>1, <2>2, <2>4, <2>6 DEF CInv, ManagerInv
<1>3. CASE ~MayConnect
  <2>1. /\ dial' = [dial EXCEPT ![c] = "rejected"] /\ dial[c] = "unused"
        /\ UNCHANGED <<state, waiter, socket>>
    BY <1>3 DEF Connect
  <2>2. ManagerTypeOK'
    BY <2>1 DEF CInv, ManagerInv, ManagerTypeOK, Connect
  <2>3. \A b \in Connects : dial'[b] \in InFlightDial <=> socket' = b
    BY <2>1 DEF CInv, ManagerInv, ManagerTypeOK, StateIsTruthful
  <2> QED BY <1>1, <2>1, <2>2, <2>3
          DEF CInv, ManagerInv, StateIsTruthful, NoLostWakeUp, NothingBelow, Connect
<1> QED BY <1>2, <1>3

\* The operation of a dial gets its result, or its socket is closed; it stays in flight.
LEMMA DialStays ==
  ASSUME CInv,
         dial' \in [Connects -> InFlightDial \cup {"unused", "connected", "failed", "rejected"}],
         \A c \in Connects : dial'[c] \in InFlightDial <=> dial[c] \in InFlightDial,
         UNCHANGED <<state, socket, waiter, managerVars, linkVars, requestVars>>
  PROVE  CInv'
<1> USE DEF managerVars, linkVars
<1>1. RequestInv'
  BY RequestsStay DEF CInv
<1>2. ManagerTypeOK' /\ StateIsTruthful'
  BY DEF CInv, ManagerInv, ManagerTypeOK, StateIsTruthful
<1> QED BY <1>1, <1>2 DEF CInv, ManagerInv, NoLostWakeUp, NothingBelow

\* The dial ends without a connection; who waits in disconnect() is woken
\* (ConnectionManager.cpp:46-62).
LEMMA DialEnds ==
  ASSUME CInv, NEW c \in Connects, ResumeCancelled(c) \/ ResumeFailed(c)
  PROVE  CInv'
<1> USE DEF managerVars, linkVars, InFlightDial
<1>1. /\ DialResumed(c) /\ socket' = None /\ SetState("Disconnected")
      /\ dial' = [dial EXCEPT ![c] = "failed"]
      /\ UNCHANGED <<managerVars, linkVars, requestVars>>
  BY DEF ResumeCancelled, ResumeFailed
<1>2. RequestInv'
  BY <1>1, RequestsStay DEF CInv
<1>3. socket = c /\ state \in {"Connecting", "Disconnecting"} /\ connection = 0
  BY <1>1, NoneAssumption DEF DialResumed, CInv, ManagerInv, ManagerTypeOK, StateIsTruthful
<1>4. /\ state' = "Disconnected" /\ NoLostWakeUp'
      /\ waiter' \in [Disconnects -> {"unused", "waiting", "woken", "done"}]
  BY <1>1, SetStateEffect DEF CInv, ManagerInv
<1>5. ManagerTypeOK'
  BY <1>1, <1>4 DEF CInv, ManagerInv, ManagerTypeOK
<1>6. \A b \in Connects : dial'[b] \in InFlightDial <=> socket' = b
  BY <1>1, <1>3, NoneAssumption DEF CInv, ManagerInv, ManagerTypeOK, StateIsTruthful
<1>7. StateIsTruthful' /\ NothingBelow'
  BY <1>1, <1>3, <1>4, <1>6 DEF CInv, ManagerInv, StateIsTruthful, NothingBelow
<1> QED BY <1>2, <1>4, <1>5, <1>7 DEF CInv, ManagerInv

\* The dial becomes a connection; there was none before, so no request waits
\* (ConnectionManager.cpp:63-97, ClientRequestManager.cpp:29-59).
LEMMA DialConnects ==
  ASSUME CInv, NEW c \in Connects, ResumeConnected(c)
  PROVE  CInv'
<1> USE DEF managerVars, linkVars, InFlightDial
<1>1. /\ dial[c] = "ok" /\ state # "Disconnecting" /\ connection = 0 /\ socket' = None
      /\ opened' = opened + 1 /\ connection' = opened' /\ onClosed' = TRUE /\ open' = TRUE
      /\ mail' = <<>> /\ inFlight' = <<>> /\ SetState("Connected")
      /\ dial' = [dial EXCEPT ![c] = "connected"]
      /\ UNCHANGED <<notices, requestVars>>
  BY DEF ResumeConnected, StartConnection
<1>2. RequestInv'
  BY <1>1, RequestsStay DEF CInv
<1>3. socket = c /\ state = "Connecting"
  BY <1>1, NoneAssumption DEF CInv, ManagerInv, ManagerTypeOK, StateIsTruthful
<1>4. /\ state' = "Connected" /\ NoLostWakeUp'
      /\ waiter' \in [Disconnects -> {"unused", "waiting", "woken", "done"}]
  BY <1>1, SetStateEffect DEF CInv, ManagerInv
<1>5. ManagerTypeOK'
  BY <1>1, <1>4 DEF CInv, ManagerInv, ManagerTypeOK
<1>6. \A b \in Connects : dial'[b] \in InFlightDial <=> socket' = b
  BY <1>1, <1>3, NoneAssumption DEF CInv, ManagerInv, ManagerTypeOK, StateIsTruthful
<1>7. connection' # 0 /\ notices' = 0
  BY <1>1 DEF CInv, ManagerInv, ManagerTypeOK, NothingBelow
<1>8. StateIsTruthful' /\ NothingBelow'
  BY <1>1, <1>4, <1>6, <1>7 DEF StateIsTruthful, NothingBelow
<1> QED BY <1>2, <1>4, <1>5, <1>8 DEF CInv, ManagerInv

-------------------------------------------------------------------------------
(* Disconnecting.                                                          *)

\* failPendingRequests: no entry of the table waits for an answer any more, and each
\* one whose timer is cancelled has failed (ClientRequestManager.cpp:217-247).
LEMMA FailPendingEffect ==
  ASSUME RequestInv, FailPending, UNCHANGED <<nextId, phase, reqId, sentOn, answer>>
  PROVE  RequestInv'
<1>1. Table' = Table
  BY DEF Table
<1>2. /\ pending' \in [Requests -> {"none", "Waiting", "Completed", "Failed"}]
      /\ timer' \in [Requests -> {"idle", "armed", "expired", "cancelled"}]
      /\ \A r \in Requests :
           IF r \in Table /\ pending[r] = "Waiting"
           THEN pending'[r] = "Failed" /\ timer'[r] = Cancelled(timer[r])
           ELSE pending'[r] = pending[r] /\ timer'[r] = timer[r]
  BY DEF FailPending, RequestInv, RequestTypeOK, Cancelled
<1>3. RequestTypeOK'
  BY <1>2 DEF RequestInv, RequestTypeOK
<1>4. WaitingOnLiveConnection'
  BY <1>1, <1>2 DEF WaitingOnLiveConnection, Table
<1>5. TimerFollows'
  BY <1>2 DEF RequestInv, TimerFollows, Cancelled, Table
<1> QED BY <1>1, <1>3, <1>4, <1>5 DEF RequestInv, TableLimit

\* disconnect() waits exactly when the state is Disconnecting afterwards
\* (ConnectionManager.cpp:99-141).
LEMMA DisconnectStep ==
  ASSUME CInv, NEW d \in Disconnects, Disconnect(d)
  PROVE  CInv'
<1> USE DEF managerVars
<1>1. UNCHANGED <<socket, managerVars, open, inFlight, notices, nextId, phase, reqId, sentOn,
                  answer>>
  BY DEF Disconnect
<1>2. CASE DisconnectIdle(d) \/ DisconnectAgain(d)
  <2>1. /\ UNCHANGED <<state, dial, mail, pending, timer>>
        /\ \E w \in {"waiting", "done"} :
             waiter' = [waiter EXCEPT ![d] = w] /\ (w = "waiting" => state = "Disconnecting")
    BY <1>2 DEF DisconnectIdle, DisconnectAgain
  <2>2. RequestInv'
    BY <1>1, <2>1, RequestsStay DEF CInv, requestVars
  <2>3. ManagerTypeOK' /\ NoLostWakeUp'
    BY <1>1, <2>1 DEF CInv, ManagerInv, ManagerTypeOK, NoLostWakeUp
  <2> QED BY <1>1, <2>1, <2>2, <2>3 DEF CInv, ManagerInv, StateIsTruthful, NothingBelow
<1>3. CASE DisconnectDialling(d)
  <2>1. /\ state = "Connecting" /\ state' = "Disconnecting" /\ CloseConnectingSocket
        /\ waiter' = [waiter EXCEPT ![d] = "waiting"] /\ UNCHANGED <<mail, pending, timer>>
    BY <1>3 DEF DisconnectDialling
  <2>2. RequestInv'
    BY <1>1, <2>1, RequestsStay DEF CInv, requestVars
  <2>3. /\ dial' \in [Connects -> InFlightDial \cup {"unused", "connected", "failed", "rejected"}]
        /\ \A c \in Connects : dial'[c] \in InFlightDial <=> dial[c] \in InFlightDial
    BY <2>1 DEF CloseConnectingSocket, InFlightDial, CInv, ManagerInv, ManagerTypeOK
  <2>4. ManagerTypeOK'
    BY <1>1, <2>1, <2>3 DEF CInv, ManagerInv, ManagerTypeOK
  <2>5. StateIsTruthful'
    BY <1>1, <2>1, <2>3 DEF CInv, ManagerInv, StateIsTruthful
  <2> QED BY <1>1, <2>1, <2>2, <2>4, <2>5
          DEF CInv, ManagerInv, NoLostWakeUp, NothingBelow
<1>4. CASE DisconnectConnected(d)
  <2>1. /\ state = "Connected" /\ state' = "Disconnecting" /\ StopConnection
        /\ waiter' = [waiter EXCEPT ![d] = "waiting"] /\ UNCHANGED dial
    BY <1>4 DEF DisconnectConnected
  <2>2. connection # 0 /\ socket = None
    BY <2>1 DEF CInv, ManagerInv, StateIsTruthful
  <2>3. FailPending /\ mail' = Append(mail, 0)
    BY <2>1, <2>2 DEF StopConnection
  <2>4. RequestInv'
    BY <1>1, <2>3, FailPendingEffect DEF CInv
  <2>5. ManagerTypeOK'
    BY <1>1, <2>1, <2>3 DEF CInv, ManagerInv, ManagerTypeOK
  <2> QED BY <1>1, <2>1, <2>2, <2>4, <2>5
          DEF CInv, ManagerInv, StateIsTruthful, NoLostWakeUp, NothingBelow
<1> QED BY <1>2, <1>3, <1>4 DEF Disconnect

\* A woken coroutine returns (ConnectionManager.cpp:132-141).
LEMMA DisconnectResumesStep ==
  ASSUME CInv, NEW d \in Disconnects, DisconnectResumes(d)
  PROVE  CInv'
<1> USE DEF managerVars, linkVars, dialVars
<1>1. RequestInv'
  BY RequestsStay DEF CInv, DisconnectResumes
<1>2. ManagerTypeOK' /\ NoLostWakeUp'
  BY DEF DisconnectResumes, CInv, ManagerInv, ManagerTypeOK, NoLostWakeUp
<1> QED BY <1>1, <1>2 DEF DisconnectResumes, CInv, ManagerInv, StateIsTruthful, NothingBelow

-------------------------------------------------------------------------------
(* The connection below.                                                   *)

\* A posted call runs; a stop of the open connection closes it and posts the notice
\* (Connection.hpp:175-206, 276-313).
LEMMA ConnectionJobStep ==
  ASSUME CInv, ConnectionJob
  PROVE  CInv'
<1> USE DEF managerVars, dialVars
<1>1. RequestInv'
  BY RequestsStay DEF CInv, ConnectionJob
<1>2. Head(mail) \in Nat /\ Tail(mail) \in Seq(Nat)
  BY HeadTailProperties DEF CInv, ManagerInv, ManagerTypeOK, ConnectionJob
<1>3. inFlight' \in Seq(Nat)
  <2>1. inFlight' \in {inFlight, <<>>, Append(inFlight, Head(mail))}
    BY DEF ConnectionJob
  <2>2. inFlight \in Seq(Nat)
    BY DEF CInv, ManagerInv, ManagerTypeOK
  <2>3. Append(inFlight, Head(mail)) \in Seq(Nat) /\ <<>> \in Seq(Nat)
    BY <1>2, <2>2
  <2> QED BY <2>1, <2>2, <2>3
<1>4. ManagerTypeOK'
  <2>1. notices' \in Nat
    BY DEF CInv, ManagerInv, ManagerTypeOK, ConnectionJob
  <2>3. open' = open \/ open' = FALSE
    BY DEF ConnectionJob
  <2>2. mail' \in Seq(Nat) /\ UNCHANGED <<state, dialVars, waiter, managerVars>>
    BY <1>2 DEF ConnectionJob
  <2> QED BY <1>3, <2>1, <2>2, <2>3 DEF CInv, ManagerInv, ManagerTypeOK
<1>5. StateIsTruthful' /\ NothingBelow'
  BY DEF CInv, ManagerInv, ManagerTypeOK, StateIsTruthful, NothingBelow, ConnectionJob
<1> QED BY <1>1, <1>4, <1>5 DEF CInv, ManagerInv, NoLostWakeUp, ConnectionJob

LEMMA ConnectionBreaksStep ==
  ASSUME CInv, ConnectionBreaks
  PROVE  CInv'
<1> USE DEF managerVars, dialVars
<1>1. RequestInv'
  BY RequestsStay DEF CInv, ConnectionBreaks
<1>2. ManagerTypeOK'
  <2>1. inFlight' \in Seq(Nat)
    <3>1. inFlight' = <<>>
      BY DEF ConnectionBreaks
    <3> QED BY <3>1
  <2>2. notices' \in Nat
    BY DEF CInv, ManagerInv, ManagerTypeOK, ConnectionBreaks
  <2>3. open' = FALSE /\ UNCHANGED <<state, dialVars, waiter, managerVars, mail>>
    BY DEF ConnectionBreaks
  <2> QED BY <2>1, <2>2, <2>3 DEF CInv, ManagerInv, ManagerTypeOK
<1>3. StateIsTruthful' /\ NothingBelow'
  BY DEF CInv, ManagerInv, ManagerTypeOK, StateIsTruthful, NothingBelow, ConnectionBreaks
<1> QED BY <1>1, <1>2, <1>3 DEF CInv, ManagerInv, NoLostWakeUp, ConnectionBreaks

\* receive(): an answer completes the entry with its id, which was sent on this
\* connection, or nothing (ClientRequestManager.cpp:197-214).
LEMMA ReceiveStep ==
  ASSUME CInv, Receive
  PROVE  CInv'
<1> USE DEF managerVars, dialVars
<1> DEFINE id == Head(inFlight)
           Hit == {r \in Requests : Matches(r, id) /\ pending[r] = "Waiting"}
<1>1. /\ inFlight # <<>> /\ inFlight' = Tail(inFlight)
      /\ UNCHANGED <<state, dialVars, waiter, managerVars, open, mail, notices, nextId,
                     phase, reqId, sentOn>>
      /\ \/ UNCHANGED <<pending, timer, answer>>
         \/ \E r \in Hit : /\ pending' = [pending EXCEPT ![r] = "Completed"]
                           /\ answer' = [answer EXCEPT ![r] = <<id, connection>>]
                           /\ timer' = [timer EXCEPT ![r] = Cancelled(@)]
  BY DEF Receive
<1>2. id \in Nat /\ inFlight' \in Seq(Nat)
  BY <1>1, HeadTailProperties DEF CInv, ManagerInv, ManagerTypeOK
<1>3. ManagerInv'
  BY <1>1, <1>2, ManagersStay DEF CInv, ManagerInv, ManagerTypeOK
<1>4. CASE UNCHANGED <<pending, timer, answer>>
  BY <1>1, <1>3, <1>4, RequestsStay DEF CInv, requestVars
<1>5. ASSUME NEW r \in Hit,
             pending' = [pending EXCEPT ![r] = "Completed"],
             answer' = [answer EXCEPT ![r] = <<id, connection>>],
             timer' = [timer EXCEPT ![r] = Cancelled(@)]
      PROVE  CInv'
  <2>1. r \in Requests /\ r \in Table /\ reqId[r] = id /\ pending[r] = "Waiting"
    BY DEF Matches
  <2> HIDE DEF Hit, id
  <2>2. sentOn[r] = connection
    BY <2>1 DEF CInv, RequestInv, WaitingOnLiveConnection
  <2>3. Table' = Table
    BY <1>1 DEF Table
  <2>4. connection \in Nat /\ Cancelled(timer[r]) \in {"idle", "expired", "cancelled"}
    BY <2>1 DEF CInv, ManagerInv, ManagerTypeOK, RequestInv, RequestTypeOK, Cancelled
  <2>5. RequestTypeOK'
    BY <1>1, <1>2, <1>5, <2>1, <2>4 DEF CInv, RequestInv, RequestTypeOK
  <2>6. WaitingOnLiveConnection'
    BY <1>1, <1>5, <2>3 DEF CInv, RequestInv, RequestTypeOK, WaitingOnLiveConnection, Table
  <2>7. TimerFollows'
    <3>1. ASSUME NEW q \in Requests, q # r
          PROVE  pending'[q] = pending[q] /\ answer'[q] = answer[q] /\ timer'[q] = timer[q]
      BY <1>5, <3>1 DEF CInv, RequestInv, RequestTypeOK
    <3>2. /\ pending'[r] = "Completed" /\ answer'[r] = <<reqId[r], sentOn[r]>>
          /\ timer'[r] = Cancelled(timer[r])
      BY <1>5, <2>1, <2>2 DEF CInv, RequestInv, RequestTypeOK
    <3>3. phase[r] = "waiting" /\ (timer[r] # "idle" => Cancelled(timer[r]) # "idle")
      BY <2>1 DEF Table, Cancelled
    <3> QED BY <1>1, <3>1, <3>2, <3>3 DEF CInv, RequestInv, TimerFollows
  <2> QED BY <1>3, <2>3, <2>5, <2>6, <2>7 DEF CInv, RequestInv, TableLimit
<1> QED BY <1>1, <1>4, <1>5

\* The notice of the close: m_connection is reset, all pending requests fail and the
\* state becomes Disconnected (ClientRequestManager.cpp:217-247, ConnectionManager.cpp:143-156).
LEMMA ConnectionClosedStep ==
  ASSUME CInv, ConnectionClosed
  PROVE  CInv'
<1> USE DEF dialVars
<1>1. /\ notices > 0 /\ notices' = notices - 1 /\ connection' = 0 /\ FailPending
      /\ ManagerClosed /\ onClosed' = FALSE
      /\ UNCHANGED <<dialVars, opened, open, mail, inFlight, nextId, phase, reqId, sentOn,
                     answer>>
  BY DEF ConnectionClosed, closedFrame
<1>2. RequestInv'
  BY <1>1, FailPendingEffect DEF CInv
<1>3. /\ connection # 0 /\ onClosed /\ ~open /\ notices = 1 /\ socket = None
      /\ state \in {"Connected", "Disconnecting"}
  BY <1>1 DEF CInv, ManagerInv, ManagerTypeOK, StateIsTruthful, NothingBelow
<1>4. /\ state' = "Disconnected" /\ NoLostWakeUp'
      /\ waiter' \in [Disconnects -> {"unused", "waiting", "woken", "done"}]
  <2>1. SetState("Disconnected")
    BY <1>1, <1>3 DEF ManagerClosed
  <2> QED BY <2>1, SetStateEffect DEF CInv, ManagerInv
<1>5. notices' = 0
  BY <1>1, <1>3
<1>6. ManagerTypeOK'
  <2>1. connection' = 0 /\ onClosed' = FALSE /\ notices' = 0
    BY <1>1, <1>5
  <2>2. /\ state' \in {"Disconnected", "Connecting", "Connected", "Disconnecting"}
        /\ UNCHANGED <<socket, dial, opened, open, mail, inFlight>>
    BY <1>1, <1>4
  <2> QED BY <1>4, <2>1, <2>2 DEF CInv, ManagerInv, ManagerTypeOK
<1>7. StateIsTruthful' /\ NothingBelow'
  BY <1>1, <1>3, <1>4, <1>5 DEF CInv, ManagerInv, StateIsTruthful, NothingBelow
<1> QED BY <1>2, <1>4, <1>6, <1>7 DEF CInv, ManagerInv

-------------------------------------------------------------------------------
(* Requests.                                                               *)

\* sendRequest() enters a request of the connection that is alive now, if the table has
\* room (ClientRequestManager.cpp:134-158).
LEMMA SendRequestStep ==
  ASSUME CInv, NEW r \in Requests, SendRequest(r)
  PROVE  CInv'
<1> USE DEF managerVars, dialVars
<1>1. /\ phase[r] = "unused" /\ connection # 0 /\ ~TableFull /\ nextId' = nextId + 1
      /\ phase' = [phase EXCEPT ![r] = "waiting"]
      /\ reqId' = [reqId EXCEPT ![r] = nextId']
      /\ sentOn' = [sentOn EXCEPT ![r] = connection]
      /\ timer' = [timer EXCEPT ![r] = "armed"]
      /\ pending' = [pending EXCEPT ![r] = "Waiting"]
      /\ mail' = Append(mail, nextId')
      /\ UNCHANGED <<state, dialVars, waiter, managerVars, open, inFlight, notices, answer>>
  BY DEF SendRequest
<1>2. nextId' \in Nat /\ connection \in Nat
  BY <1>1 DEF CInv, ManagerInv, ManagerTypeOK, RequestInv, RequestTypeOK
<1>3. mail' \in Seq(Nat) /\ inFlight' \in Seq(Nat)
  <2>1. mail \in Seq(Nat) /\ inFlight \in Seq(Nat)
    BY DEF CInv, ManagerInv, ManagerTypeOK
  <2> QED BY <1>1, <1>2, <2>1, AppendProperties
<1>4. ManagerInv'
  BY <1>1, <1>3, ManagersStay DEF CInv
<1>5. RequestTypeOK'
  BY <1>1, <1>2 DEF CInv, RequestInv, RequestTypeOK
<1>6. Table' = Table \cup {r}
  BY <1>1 DEF Table, CInv, RequestInv, RequestTypeOK
<1>7. TableLimit'
  <2>1. IsFiniteSet(Table) /\ Cardinality(Table) \in Nat /\ ~(Cardinality(Table) >= MaxPending)
    BY <1>1, FS_CardinalityType DEF CInv, RequestInv, TableLimit, TableFull
  <2>2. r \notin Table
    BY <1>1 DEF Table
  <2>3. /\ IsFiniteSet(Table \cup {r})
        /\ Cardinality(Table \cup {r}) = Cardinality(Table) + 1
    BY <2>1, <2>2, FS_AddElement
  <2> HIDE DEF Table
  <2> QED BY <1>6, <2>1, <2>3, PendingAssumption DEF TableLimit
<1>8. ASSUME NEW q \in Requests, q # r
      PROVE  /\ phase'[q] = phase[q] /\ reqId'[q] = reqId[q] /\ sentOn'[q] = sentOn[q]
             /\ timer'[q] = timer[q] /\ pending'[q] = pending[q] /\ answer'[q] = answer[q]
  BY <1>1, <1>8 DEF CInv, RequestInv, RequestTypeOK
<1>9. /\ phase'[r] = "waiting" /\ sentOn'[r] = connection /\ timer'[r] = "armed"
      /\ pending'[r] = "Waiting"
  BY <1>1 DEF CInv, RequestInv, RequestTypeOK
<1>10. WaitingOnLiveConnection'
  BY <1>1, <1>6, <1>8, <1>9 DEF CInv, RequestInv, WaitingOnLiveConnection, Table
<1>11. TimerFollows'
  BY <1>8, <1>9 DEF CInv, RequestInv, TimerFollows
<1> QED BY <1>4, <1>5, <1>7, <1>10, <1>11 DEF CInv, RequestInv

\* sendRequest() without a connection or room returns nullopt and leaves no trace
\* (ClientRequestManager.cpp:136-144).
LEMMA SendRefusedStep ==
  ASSUME CInv, NEW r \in Requests, SendRefused(r)
  PROVE  CInv'
<1> USE DEF managerVars, dialVars, linkVars
<1>1. /\ phase[r] = "unused" /\ phase' = [phase EXCEPT ![r] = "refused"]
      /\ UNCHANGED <<state, dialVars, waiter, managerVars, linkVars, nextId, reqId, sentOn,
                     timer, pending, answer>>
  BY DEF SendRefused
<1>2. ManagerInv'
  <2>1. mail' \in Seq(Nat) /\ inFlight' \in Seq(Nat)
    BY <1>1 DEF CInv, ManagerInv, ManagerTypeOK
  <2> QED BY <1>1, <2>1, ManagersStay DEF CInv
<1>3. RequestTypeOK'
  BY <1>1 DEF CInv, RequestInv, RequestTypeOK
<1>4. Table' = Table
  BY <1>1 DEF Table, CInv, RequestInv, RequestTypeOK
<1>5. WaitingOnLiveConnection'
  BY <1>1, <1>4 DEF CInv, RequestInv, WaitingOnLiveConnection
<1>6. TimerFollows'
  BY <1>1 DEF CInv, RequestInv, RequestTypeOK, TimerFollows
<1> QED BY <1>2, <1>3, <1>4, <1>5, <1>6 DEF CInv, RequestInv, TableLimit

\* The handler of the timer is queued; the entry stays until it runs
\* (ClientRequestManager.cpp:158-163).
LEMMA TimerExpiresStep ==
  ASSUME CInv, NEW r \in Requests, TimerExpires(r)
  PROVE  CInv'
<1> USE DEF managerVars, dialVars, linkVars
<1>1. /\ timer[r] = "armed" /\ timer' = [timer EXCEPT ![r] = "expired"]
      /\ UNCHANGED <<state, dialVars, waiter, managerVars, linkVars, nextId, phase, reqId,
                     sentOn, pending, answer>>
  BY DEF TimerExpires
<1>2. ManagerInv'
  <2>1. mail' \in Seq(Nat) /\ inFlight' \in Seq(Nat)
    BY <1>1 DEF CInv, ManagerInv, ManagerTypeOK
  <2> QED BY <1>1, <2>1, ManagersStay DEF CInv
<1>3. RequestTypeOK' /\ TimerFollows'
  BY <1>1 DEF CInv, RequestInv, RequestTypeOK, TimerFollows
<1>4. Table' = Table
  BY <1>1 DEF Table
<1> QED BY <1>1, <1>2, <1>3, <1>4
        DEF CInv, RequestInv, TableLimit, WaitingOnLiveConnection

\* The coroutine takes its entry out of the table and returns what became of it; the
\* branch without an answer, a failure or a timeout is not reached
\* (ClientRequestManager.cpp:160-189).
LEMMA RequestResumesStep ==
  ASSUME CInv, NEW r \in Requests, RequestResumes(r)
  PROVE  CInv'
<1> USE DEF managerVars, dialVars, linkVars
<1>1. /\ phase[r] = "waiting" /\ timer[r] \in {"expired", "cancelled"}
      /\ phase' = [phase EXCEPT ![r] = Outcome(r)]
      /\ UNCHANGED <<state, dialVars, waiter, managerVars, linkVars, nextId, reqId, sentOn,
                     timer, pending, answer>>
  BY DEF RequestResumes
<1>2. ManagerInv'
  <2>1. mail' \in Seq(Nat) /\ inFlight' \in Seq(Nat)
    BY <1>1 DEF CInv, ManagerInv, ManagerTypeOK
  <2> QED BY <1>1, <2>1, ManagersStay DEF CInv
<1>3. /\ Outcome(r) \in {"timedOut", "failed", "answered"}
      /\ Outcome(r) = "answered" => pending[r] = "Completed"
  <2>1. timer[r] = "cancelled" => pending[r] \in {"Completed", "Failed"}
    BY DEF CInv, RequestInv, TimerFollows
  <2> QED BY <1>1, <2>1 DEF Outcome
<1>4. RequestTypeOK'
  BY <1>1, <1>3 DEF CInv, RequestInv, RequestTypeOK
<1>5. Table' = Table \ {r}
  BY <1>1, <1>3 DEF Table, CInv, RequestInv, RequestTypeOK
<1>6. TableLimit'
  <2>1. IsFiniteSet(Table) /\ Cardinality(Table) \in Nat /\ Cardinality(Table) <= MaxPending
    BY FS_CardinalityType DEF CInv, RequestInv, TableLimit
  <2>2. IsFiniteSet(Table \ {r}) /\ Cardinality(Table \ {r}) <= Cardinality(Table)
    BY <2>1, FS_Subset
  <2>3. Cardinality(Table \ {r}) \in Nat
    BY <2>2, FS_CardinalityType
  <2> HIDE DEF Table
  <2> QED BY <1>5, <2>1, <2>2, <2>3, PendingAssumption DEF TableLimit
<1>7. WaitingOnLiveConnection'
  BY <1>1, <1>5 DEF CInv, RequestInv, WaitingOnLiveConnection
<1>8. TimerFollows'
  BY <1>1, <1>3 DEF CInv, RequestInv, RequestTypeOK, TimerFollows
<1> QED BY <1>2, <1>4, <1>6, <1>7, <1>8 DEF CInv, RequestInv

-------------------------------------------------------------------------------

LEMMA ClientStepKeeps == CInv /\ [Next]_vars => CInv'
<1> SUFFICES ASSUME CInv, [Next]_vars PROVE CInv'
  OBVIOUS
<1>1. ASSUME NEW c \in Connects, Connect(c) PROVE CInv'
  BY <1>1, ConnectStep
<1>2. ASSUME NEW c \in Connects, DialCompletes(c) \/ DialTimesOut(c) PROVE CInv'
  <2>1. PICK result \in {"ok", "error", "aborted"} : dial' = [dial EXCEPT ![c] = result]
    BY <1>2 DEF DialCompletes, DialTimesOut
  <2>2. /\ dial[c] = "pending"
        /\ UNCHANGED <<state, socket, waiter, managerVars, linkVars, requestVars>>
    BY <1>2 DEF DialCompletes, DialTimesOut
  <2>3. /\ dial' \in [Connects -> InFlightDial \cup {"unused", "connected", "failed", "rejected"}]
        /\ \A b \in Connects : dial'[b] \in InFlightDial <=> dial[b] \in InFlightDial
    BY <2>1, <2>2 DEF CInv, ManagerInv, ManagerTypeOK, InFlightDial
  <2> QED BY <2>2, <2>3, DialStays
<1>3. ASSUME NEW c \in Connects, ResumeCancelled(c) \/ ResumeFailed(c) PROVE CInv'
  BY <1>3, DialEnds
<1>4. ASSUME NEW c \in Connects, ResumeConnected(c) PROVE CInv'
  BY <1>4, DialConnects
<1>5. ASSUME NEW d \in Disconnects, Disconnect(d) \/ DisconnectResumes(d) PROVE CInv'
  BY <1>5, DisconnectStep, DisconnectResumesStep
<1>6. ASSUME NEW r \in Requests, SendRequest(r) \/ SendRefused(r) \/ RequestStep(r)
      PROVE  CInv'
  BY <1>6, SendRequestStep, SendRefusedStep, TimerExpiresStep, RequestResumesStep
     DEF RequestStep
<1>7. CASE ConnectionJob \/ ConnectionBreaks \/ Receive \/ ConnectionClosed
  BY <1>7, ConnectionJobStep, ConnectionBreaksStep, ReceiveStep, ConnectionClosedStep
<1>8. CASE UNCHANGED vars
  <2>1. RequestInv'
    BY <1>8, RequestsStay DEF CInv, vars, managerVars
  <2>2. ManagerInv'
    <3>1. mail' \in Seq(Nat) /\ inFlight' \in Seq(Nat)
      BY <1>8 DEF vars, linkVars, CInv, ManagerInv, ManagerTypeOK
    <3> QED BY <1>8, <3>1, ManagersStay DEF CInv, vars, linkVars
  <2> QED BY <2>1, <2>2 DEF CInv
<1> QED BY <1>1, <1>2, <1>3, <1>4, <1>5, <1>6, <1>7, <1>8 DEF Next, DialStep

\* The inductive invariant of the client's network layer.
THEOREM ClientInvariance == Spec => []CInv
BY ClientInitEstablishes, ClientStepKeeps, PTL DEF Spec

\* The variables keep their types, the table of pending requests its limit, and no
\* sendRequest() ends in the branch "cancelled without response"
\* (ClientRequestManager.cpp:141-144, 184-187).
THEOREM ClientTypes == Spec => []TypeOK
BY ClientInvariance, Consequences, PTL

\* For any number of overlapping connect(), disconnect() and breaks, the public state
\* tells the truth about the dial and the connection behind it, so start() never finds a
\* connection still set (ConnectionManager.cpp:38-41, ClientRequestManager.cpp:35-38).
THEOREM TruthfulState == Spec => []StateIsTruthful
<1>1. CInv => StateIsTruthful
  BY DEF CInv, ManagerInv
<1> QED BY <1>1, ClientInvariance, PTL

\* Any number of disconnect() calls: whoever waits, waits for a change of the state that
\* is still to come (ConnectionManager.cpp:99-141, 164-172).
THEOREM NoWakeUpIsLost == Spec => []NoLostWakeUp
<1>1. CInv => NoLostWakeUp
  BY DEF CInv, ManagerInv
<1> QED BY <1>1, ClientInvariance, PTL

\* Any number of requests over any number of connections: one that still waits for an
\* answer was sent on the connection that is alive now
\* (ClientRequestManager.cpp:81-90, 217-247).
THEOREM NoOrphanRequest == Spec => []WaitingOnLiveConnection
<1>1. CInv => WaitingOnLiveConnection
  BY DEF CInv, RequestInv
<1> QED BY <1>1, ClientInvariance, PTL

\* A caller gets the answer to its own request or none, whatever timed out, reconnected
\* or was answered in between (ClientRequestManager.cpp:197-214).
THEOREM AnswersAreOwn == Spec => []OwnAnswer
BY ClientInvariance, Consequences, PTL

\* Under CInv every assignment of m_state is an edge of the machine
\* (ConnectionManager.cpp:54-62, 85).
LEMMA StepIsLegal ==
  ASSUME CInv, [Next]_vars
  PROVE  [(<<state, state'>> \in LegalEdges)]_state
<1> SUFFICES ASSUME Next, state' # state PROVE <<state, state'>> \in LegalEdges
  BY DEF vars
<1>1. ASSUME NEW c \in Connects, Connect(c) PROVE <<state, state'>> \in LegalEdges
  BY <1>1 DEF Connect, MayConnect, SetState, LegalEdges
<1>2. ASSUME NEW c \in Connects, DialStep(c) PROVE <<state, state'>> \in LegalEdges
  <2>1. /\ dial[c] \in {"ok", "error", "aborted"}
        /\ state' \in {"Connected", "Disconnected"}
        /\ state' = "Connected" => state # "Disconnecting"
    BY <1>2 DEF DialStep, DialTimesOut, ResumeCancelled, ResumeFailed, ResumeConnected,
                DialResumed, InFlightDial, SetState
  <2>2. state \in {"Connecting", "Disconnecting"}
    BY <2>1, NoneAssumption
       DEF CInv, ManagerInv, ManagerTypeOK, StateIsTruthful, InFlightDial
  <2> QED BY <2>1, <2>2 DEF LegalEdges
<1>3. ASSUME NEW d \in Disconnects, Disconnect(d) PROVE <<state, state'>> \in LegalEdges
  BY <1>3 DEF Disconnect, DisconnectIdle, DisconnectAgain, DisconnectDialling,
              DisconnectConnected, LegalEdges
<1>4. CASE ConnectionClosed
  BY <1>4 DEF ConnectionClosed, ManagerClosed, SetState, LegalEdges
<1>5. ASSUME NEW c \in Connects, DialCompletes(c) PROVE FALSE
  BY <1>5 DEF DialCompletes
<1>6. ASSUME NEW d \in Disconnects, DisconnectResumes(d) PROVE FALSE
  BY <1>6 DEF DisconnectResumes
<1>7. ASSUME NEW r \in Requests, SendRequest(r) \/ SendRefused(r) \/ RequestStep(r)
      PROVE  FALSE
  BY <1>7 DEF SendRequest, SendRefused, RequestStep, TimerExpires, RequestResumes
<1>8. ~(ConnectionJob \/ ConnectionBreaks \/ Receive)
  BY DEF ConnectionJob, ConnectionBreaks, Receive
<1> QED BY <1>1, <1>2, <1>3, <1>4, <1>5, <1>6, <1>7, <1>8 DEF Next

\* The public state only ever moves along the edges of the machine: no connect() brings
\* a state back to Connected that a disconnect() has left (ConnectionManager.cpp:54-62, 85).
THEOREM LegalEdgesOnly == Spec => LegalTransitions
BY ClientInvariance, StepIsLegal, PTL DEF Spec, LegalTransitions
===============================================================================
