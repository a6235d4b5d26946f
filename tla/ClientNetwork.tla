---------------------------- MODULE ClientNetwork ----------------------------
(***************************************************************************)
(* The client's network layer: ConnectionManager (dialling, the four-state *)
(* connection machine, disconnect waiters) and ClientRequestManager (the   *)
(* pending-request table with a timer per request), which share a strand.  *)
(*                                                                         *)
(* Each coroutine runs on the strand from one suspension to the next: that *)
(* is one action.  A timer or a socket completes in an action of its own,  *)
(* so its handler may be overtaken by another one.  A definition whose name *)
(* extends the next one's is a faulty variant of it that no action uses.   *)
(* The Connection below is used through what Connection.tla shows of it:   *)
(* posted calls run in order, answers are handled only while it is open,   *)
(* and its close is announced once, by a post to the strand.               *)
(***************************************************************************)
EXTENDS Integers, Sequences, FiniteSets

CONSTANTS
  Connects,     \* calls of connect()
  Disconnects,  \* calls of disconnect(), the destructor's included
  Requests,     \* calls of sendRequest()
  MaxPending,   \* Config::maxPendingRequests
  None          \* no connect() owns m_connectingSocket

\* Config::validate refuses a zero limit (ClientTypes.hpp:29-32).
ASSUME PendingAssumption == MaxPending \in Nat \ {0}

ASSUME NoneAssumption == None \notin Connects

VARIABLES
  state,        \* m_state
  socket,       \* the connect() that owns m_connectingSocket, or None
  dial,         \* each connect(): its pending operation or its outcome
  waiter,       \* each disconnect(): its wait on m_disconnectWaiters
  connection,   \* m_connection: the number of the connection, 0 for null
  onClosed,     \* m_onClosed is set
  opened,       \* how many connections were ever started
  open,         \* the socket of the current connection is open
  mail,         \* calls posted to the connection: request ids, 0 for stop()
  inFlight,     \* ids of requests on their way to the server and back
  notices,      \* posted connectionClosed() lambdas
  nextId,       \* m_nextRequestId
  phase,        \* each sendRequest(): waiting or its outcome
  reqId,        \* the id it was given
  sentOn,       \* the connection it was sent on
  timer,        \* its steady_timer
  pending,      \* its PendingRequest::state
  answer        \* its PendingRequest::response: the id and the connection

dialVars    == <<socket, dial>>
linkVars    == <<open, mail, inFlight, notices>>
managerVars == <<connection, onClosed, opened>>
requestVars == <<nextId, phase, reqId, sentOn, timer, pending, answer>>
vars == <<state, dialVars, waiter, managerVars, linkVars, requestVars>>

InFlightDial == {"pending", "ok", "error", "aborted"}

\* The entries of m_pendingRequests.
Table == {r \in Requests : phase[r] = "waiting"}

Init ==
  /\ state = "Disconnected"
  /\ socket = None
  /\ dial = [c \in Connects |-> "unused"]
  /\ waiter = [d \in Disconnects |-> "unused"]
  /\ connection = 0 /\ onClosed = FALSE /\ opened = 0
  /\ open = FALSE /\ mail = <<>> /\ inFlight = <<>> /\ notices = 0
  /\ nextId = 0
  /\ phase = [r \in Requests |-> "unused"]
  /\ reqId = [r \in Requests |-> 0]
  /\ sentOn = [r \in Requests |-> 0]
  /\ timer = [r \in Requests |-> "idle"]
  /\ pending = [r \in Requests |-> "none"]
  /\ answer = [r \in Requests |-> <<0, 0>>]

-------------------------------------------------------------------------------
(* ConnectionManager.                                                      *)

SetStateNoWakeUp(s) == state' = s /\ UNCHANGED waiter

\* Leaving Disconnecting cancels every wait on m_disconnectWaiters.
SetState(s) ==
  /\ state' = s
  /\ IF state = "Disconnecting" /\ s = "Disconnected"
     THEN waiter' = [d \in Disconnects |->
                       IF waiter[d] = "waiting" THEN "woken" ELSE waiter[d]]
     ELSE UNCHANGED waiter

MayConnect == state = "Disconnected"

Connect(c) ==
  /\ dial[c] = "unused"
  /\ IF MayConnect
     THEN /\ SetState("Connecting")
          /\ socket' = c
          /\ dial' = [dial EXCEPT ![c] = "pending"]
     ELSE /\ dial' = [dial EXCEPT ![c] = "rejected"]
          /\ UNCHANGED <<state, waiter, socket>>
  /\ UNCHANGED <<managerVars, linkVars, requestVars>>

\* async_connect connects or fails.
DialCompletes(c) ==
  /\ dial[c] = "pending"
  /\ \E result \in {"ok", "error"} : dial' = [dial EXCEPT ![c] = result]
  /\ UNCHANGED <<state, socket, waiter, managerVars, linkVars, requestVars>>

\* cancel_after(m_connectTimeout)
DialTimesOut(c) ==
  /\ dial[c] = "pending"
  /\ dial' = [dial EXCEPT ![c] = "aborted"]
  /\ UNCHANGED <<state, socket, waiter, managerVars, linkVars, requestVars>>

\* ClientRequestManager::start.  It throws when m_connection is still set, which
\* StateIsTruthful excludes; what is left in the mailbox of the previous, closed
\* connection has no effect.
StartConnection ==
  /\ opened' = opened + 1
  /\ connection' = opened'
  /\ onClosed' = TRUE
  /\ open' = TRUE
  /\ mail' = <<>> /\ inFlight' = <<>>

DialResumed(c) == dial[c] \in InFlightDial \ {"pending"}

ResumeCancelled(c) ==
  /\ DialResumed(c) /\ state = "Disconnecting"
  /\ socket' = None
  /\ SetState("Disconnected")
  /\ dial' = [dial EXCEPT ![c] = "failed"]
  /\ UNCHANGED <<managerVars, linkVars, requestVars>>

ResumeFailed(c) ==
  /\ DialResumed(c) /\ state # "Disconnecting" /\ dial[c] # "ok"
  /\ socket' = None
  /\ SetState("Disconnected")
  /\ dial' = [dial EXCEPT ![c] = "failed"]
  /\ UNCHANGED <<managerVars, linkVars, requestVars>>

ResumeConnectedUnchecked(c) ==
  /\ dial[c] = "ok" /\ connection = 0
  /\ socket' = None
  /\ StartConnection
  /\ SetState("Connected")
  /\ dial' = [dial EXCEPT ![c] = "connected"]
  /\ UNCHANGED <<notices, requestVars>>

ResumeConnected(c) ==
  /\ dial[c] = "ok" /\ state # "Disconnecting" /\ connection = 0
  /\ socket' = None
  /\ StartConnection
  /\ SetState("Connected")
  /\ dial' = [dial EXCEPT ![c] = "connected"]
  /\ UNCHANGED <<notices, requestVars>>

\* A request's timer whose handler is already queued can no longer be cancelled.
Cancelled(t) == IF t = "armed" THEN "cancelled" ELSE t

FailNone == UNCHANGED <<pending, timer>>

\* failPendingRequests
FailPending ==
  /\ pending' = [r \in Requests |->
                   IF r \in Table /\ pending[r] = "Waiting" THEN "Failed" ELSE pending[r]]
  /\ timer' = [r \in Requests |->
                 IF r \in Table /\ pending[r] = "Waiting" THEN Cancelled(timer[r])
                                                          ELSE timer[r]]

\* ClientRequestManager::stop
StopConnection ==
  IF connection = 0
  THEN UNCHANGED <<mail, pending, timer>>
  ELSE FailPending /\ mail' = Append(mail, 0)

\* closeConnectingSocket: a result that is already queued stays.
CloseConnectingSocket ==
  dial' = [c \in Connects |->
             IF c = socket /\ dial[c] = "pending" THEN "aborted" ELSE dial[c]]

DisconnectIdle(d) ==
  /\ state = "Disconnected"
  /\ waiter' = [waiter EXCEPT ![d] = "done"]
  /\ UNCHANGED <<state, dial, mail, pending, timer>>

DisconnectAgain(d) ==
  /\ state = "Disconnecting"
  /\ waiter' = [waiter EXCEPT ![d] = "waiting"]
  /\ UNCHANGED <<state, dial, mail, pending, timer>>

DisconnectDialling(d) ==
  /\ state = "Connecting"
  /\ state' = "Disconnecting"
  /\ waiter' = [waiter EXCEPT ![d] = "waiting"]
  /\ CloseConnectingSocket
  /\ UNCHANGED <<mail, pending, timer>>

DisconnectConnected(d) ==
  /\ state = "Connected"
  /\ state' = "Disconnecting"
  /\ waiter' = [waiter EXCEPT ![d] = "waiting"]
  /\ StopConnection
  /\ UNCHANGED dial

Disconnect(d) ==
  /\ waiter[d] = "unused"
  /\ \/ DisconnectIdle(d) \/ DisconnectAgain(d)
     \/ DisconnectDialling(d) \/ DisconnectConnected(d)
  /\ UNCHANGED <<socket, managerVars, open, inFlight, notices, nextId, phase, reqId,
                 sentOn, answer>>

DisconnectResumes(d) ==
  /\ waiter[d] = "woken"
  /\ waiter' = [waiter EXCEPT ![d] = "done"]
  /\ UNCHANGED <<state, dialVars, managerVars, linkVars, requestVars>>

-------------------------------------------------------------------------------
(* The Connection and the server behind it.                                *)

\* The strand of the connection runs a posted send() or stop().
ConnectionJob ==
  /\ mail # <<>>
  /\ mail' = Tail(mail)
  /\ IF ~open THEN UNCHANGED <<open, inFlight, notices>>
     ELSE IF Head(mail) = 0
          THEN open' = FALSE /\ notices' = notices + 1 /\ inFlight' = <<>>
          ELSE inFlight' = Append(inFlight, Head(mail)) /\ UNCHANGED <<open, notices>>
  /\ UNCHANGED <<state, dialVars, waiter, managerVars, requestVars>>

\* The peer closes, a read or a write fails, or the queue overflows.
ConnectionBreaks ==
  /\ open
  /\ open' = FALSE /\ notices' = notices + 1 /\ inFlight' = <<>>
  /\ UNCHANGED <<state, dialVars, waiter, managerVars, mail, requestVars>>

MatchesAnyWaiting(r, id) == r \in Table /\ pending[r] = "Waiting"

\* The lookup in m_pendingRequests.
Matches(r, id) == r \in Table /\ reqId[r] = id

\* receive(): the server answers the requests of a connection in order.
Receive ==
  /\ open /\ inFlight # <<>>
  /\ inFlight' = Tail(inFlight)
  /\ LET id == Head(inFlight)
         Hit == {r \in Requests : Matches(r, id) /\ pending[r] = "Waiting"}
     IN  IF Hit = {} THEN UNCHANGED <<pending, timer, answer>>
         ELSE \E r \in Hit :
                /\ pending' = [pending EXCEPT ![r] = "Completed"]
                /\ answer' = [answer EXCEPT ![r] = <<id, connection>>]
                /\ timer' = [timer EXCEPT ![r] = Cancelled(@)]
  /\ UNCHANGED <<state, dialVars, waiter, managerVars, open, mail, notices, nextId, phase,
                 reqId, sentOn>>

\* ConnectionManager::connectionClosed, called by m_onClosed
ManagerClosed ==
  IF onClosed /\ state \in {"Connected", "Disconnecting"}
  THEN SetState("Disconnected")
  ELSE UNCHANGED <<state, waiter>>

closedFrame == <<dialVars, opened, open, mail, inFlight, nextId, phase, reqId, sentOn,
                 answer>>

ConnectionClosedForgetsPending ==
  /\ notices > 0
  /\ notices' = notices - 1
  /\ connection' = 0
  /\ FailNone
  /\ ManagerClosed
  /\ onClosed' = FALSE
  /\ UNCHANGED closedFrame

ConnectionClosedKeepsPointer ==
  /\ notices > 0
  /\ notices' = notices - 1
  /\ FailPending
  /\ ManagerClosed
  /\ onClosed' = FALSE
  /\ UNCHANGED <<connection, closedFrame>>

\* ClientRequestManager::connectionClosed
ConnectionClosed ==
  /\ notices > 0
  /\ notices' = notices - 1
  /\ connection' = 0
  /\ FailPending
  /\ ManagerClosed
  /\ onClosed' = FALSE
  /\ UNCHANGED closedFrame

-------------------------------------------------------------------------------
(* sendRequest and the resumption of its timer wait.                       *)

TableFullOffByOne == Cardinality(Table) > MaxPending

TableFull == Cardinality(Table) >= MaxPending

SendRefused(r) ==
  /\ phase[r] = "unused"
  /\ connection = 0 \/ TableFull
  /\ phase' = [phase EXCEPT ![r] = "refused"]
  /\ UNCHANGED <<state, dialVars, waiter, managerVars, linkVars, nextId, reqId, sentOn,
                 timer, pending, answer>>

SendRequest(r) ==
  /\ phase[r] = "unused"
  /\ connection # 0 /\ ~TableFull
  /\ nextId' = nextId + 1
  /\ phase' = [phase EXCEPT ![r] = "waiting"]
  /\ reqId' = [reqId EXCEPT ![r] = nextId']
  /\ sentOn' = [sentOn EXCEPT ![r] = connection]
  /\ timer' = [timer EXCEPT ![r] = "armed"]
  /\ pending' = [pending EXCEPT ![r] = "Waiting"]
  /\ mail' = Append(mail, nextId')
  /\ UNCHANGED <<state, dialVars, waiter, managerVars, open, inFlight, notices, answer>>

\* requestTimeout passes: the wait's handler is queued without an error.
TimerExpires(r) ==
  /\ timer[r] = "armed"
  /\ timer' = [timer EXCEPT ![r] = "expired"]
  /\ UNCHANGED <<state, dialVars, waiter, managerVars, linkVars, nextId, phase, reqId,
                 sentOn, pending, answer>>

Outcome(r) ==
  IF timer[r] = "expired" THEN "timedOut"
  ELSE CASE pending[r] = "Failed"    -> "failed"
         [] pending[r] = "Completed" -> "answered"
         [] OTHER                    -> "cancelled"

RequestResumes(r) ==
  /\ phase[r] = "waiting" /\ timer[r] \in {"expired", "cancelled"}
  /\ phase' = [phase EXCEPT ![r] = Outcome(r)]
  /\ UNCHANGED <<state, dialVars, waiter, managerVars, linkVars, nextId, reqId, sentOn,
                 timer, pending, answer>>

-------------------------------------------------------------------------------

DialStep(c) ==
  DialTimesOut(c) \/ ResumeCancelled(c) \/ ResumeFailed(c) \/ ResumeConnected(c)

RequestStep(r) == TimerExpires(r) \/ RequestResumes(r)

Next ==
  \/ \E c \in Connects : Connect(c) \/ DialCompletes(c) \/ DialStep(c)
  \/ \E d \in Disconnects : Disconnect(d) \/ DisconnectResumes(d)
  \/ \E r \in Requests : SendRequest(r) \/ SendRefused(r) \/ RequestStep(r)
  \/ ConnectionJob \/ ConnectionBreaks \/ Receive \/ ConnectionClosed

Spec == Init /\ [][Next]_vars

\* The worker thread runs every ready handler and the timers expire; the server
\* need not answer and the connection need not break.
Fairness ==
  /\ \A c \in Connects : WF_vars(DialStep(c))
  /\ \A d \in Disconnects : WF_vars(DisconnectResumes(d))
  /\ \A r \in Requests : WF_vars(RequestStep(r))
  /\ WF_vars(ConnectionJob)
  /\ WF_vars(ConnectionClosed)

FairSpec == Spec /\ Fairness

-------------------------------------------------------------------------------
(* Properties.                                                             *)

\* The types of the variables and the limit of the table, whose entries stay until
\* their coroutine resumes (ClientRequestManager.cpp:141-144).  No request ends
\* "cancelled": the branch "cancelled without response" (ClientRequestManager.cpp:184-187)
\* is dead, as a timer is only cancelled together with a change of the request's state.
TypeOK ==
  /\ Cardinality(Table) <= MaxPending
  /\ state \in {"Disconnected", "Connecting", "Connected", "Disconnecting"}
  /\ socket \in Connects \cup {None}
  /\ dial \in [Connects -> InFlightDial \cup {"unused", "connected", "failed", "rejected"}]
  /\ waiter \in [Disconnects -> {"unused", "waiting", "woken", "done"}]
  /\ opened \in Nat /\ connection \in {0, opened}
  /\ onClosed \in BOOLEAN /\ open \in BOOLEAN
  /\ mail \in Seq(Nat) /\ inFlight \in Seq(Nat) /\ notices \in Nat /\ nextId \in Nat
  /\ phase \in [Requests -> {"unused", "waiting", "refused", "timedOut", "failed",
                             "answered"}]
  /\ reqId \in [Requests -> Nat] /\ sentOn \in [Requests -> Nat]
  /\ timer \in [Requests -> {"idle", "armed", "expired", "cancelled"}]
  /\ pending \in [Requests -> {"none", "Waiting", "Completed", "Failed"}]
  /\ answer \in [Requests -> Nat \X Nat]

\* The public state tells the truth about the objects behind it: Disconnected
\* has neither a dialling socket, nor a connection, nor a close notice still to
\* come, so a connect() from there finds m_connection null and never throws
\* "already active" (ConnectionManager.cpp:38-41, ClientRequestManager.cpp:35-38);
\* Connected has a connection, or the notice that it closed.  The connect() in
\* progress is the one that owns m_connectingSocket.
StateIsTruthful ==
  /\ \A c \in Connects : dial[c] \in InFlightDial <=> socket = c
  /\ state = "Disconnected" => connection = 0 /\ socket = None /\ ~open /\ notices = 0
  /\ state = "Connecting" => connection = 0 /\ socket # None /\ ~open /\ notices = 0
  /\ state = "Connected" => connection # 0 /\ socket = None
  /\ state = "Disconnecting" => (connection # 0 <=> socket = None)
  /\ connection # 0 => onClosed /\ (open <=> notices = 0) /\ notices <= 1

\* Whoever waits in disconnect() waits for a transition that is still to come:
\* no wake-up is lost between the state change and the wait
\* (ConnectionManager.cpp:99-141, 164-172).
NoLostWakeUp == (\E d \in Disconnects : waiter[d] = "waiting") => state = "Disconnecting"

\* A request that still waits for an answer was sent on the connection that is
\* alive now; a closed one leaves no request behind
\* (ClientRequestManager.cpp:81-90, 217-247).
WaitingOnLiveConnection ==
  \A r \in Table : pending[r] = "Waiting" => connection # 0 /\ sentOn[r] = connection

\* A caller only ever gets the answer to its own request, over the connection
\* the request was sent on, whatever timed out or reconnected in between
\* (ClientRequestManager.cpp:197-214).
OwnAnswer ==
  \A r \in Requests : phase[r] = "answered" => answer[r] = <<reqId[r], sentOn[r]>>

LegalEdges ==
  {<<"Disconnected", "Connecting">>, <<"Connecting", "Connected">>,
   <<"Connecting", "Disconnected">>, <<"Connecting", "Disconnecting">>,
   <<"Connected", "Disconnecting">>, <<"Connected", "Disconnected">>,
   <<"Disconnecting", "Disconnected">>}

\* The public state only moves along the edges of the machine; in particular a
\* disconnect() is never overtaken by the connect() it cancels
\* (ConnectionManager.cpp:54-62, 85).
LegalTransitions == [][ (<<state, state'>> \in LegalEdges) ]_state

\* Every connect(), disconnect() and sendRequest() returns, whether the server
\* answers, the connection breaks or nothing at all happens; the destructor of
\* NetworkComponent blocks on a disconnect() (ConnectionManager.cpp:46-62, 99-141,
\* ClientRequestManager.cpp:151-189, NetworkComponent.cpp:42-60).
CallsReturn ==
  /\ \A c \in Connects : dial[c] = "pending" ~> dial[c] \in {"connected", "failed"}
  /\ \A d \in Disconnects : waiter[d] = "waiting" ~> waiter[d] = "done"
  /\ \A r \in Requests : phase[r] = "waiting" ~> phase[r] # "waiting"
===============================================================================
