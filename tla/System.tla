-------------------------------- MODULE System --------------------------------
(***************************************************************************)
(* One client and the server: ClientNetwork and Server with the TCP        *)
(* connections between them.  Each of the two leaves the other end open    *)
(* (when a dial succeeds, which answers arrive, when the peer closes); here *)
(* these steps are taken together.                                         *)
(*                                                                         *)
(* A connection is known by the connect() that dialled it.  Requests and   *)
(* responses travel in order and may be lost when an end closes; either    *)
(* end may also break by itself.  The server is not stopped here and has   *)
(* ids enough for the dials: what a stop or their end does is Server's.    *)
(***************************************************************************)
EXTENDS Integers, Sequences, FiniteSets

CONSTANTS
  Connects, Disconnects, Requests, MaxPending, None,                   \* ClientNetwork
  Keys, MaxPlayerId, Deltas, IntMax, IdSpace, MaxRequests, Kinds,      \* Server
  MaxBreaks     \* bound: connections that break although both ends are open

ASSUME BreakAssumption == MaxBreaks \in Nat

ASSUME IdsSuffice == Cardinality(Connects) < IdSpace /\ Cardinality(Connects) < MaxPlayerId

VARIABLES
  \* ClientNetwork
  state, socket, dial, waiter, connection, onClosed, opened, open, mail, inFlight, notices,
  nextId, phase, reqId, sentOn, timer, pending, answer,
  \* Server
  players, position, nextPlayer, binding, loop, stopped, lastId, registered, status,
  posted, sent, taken, got, wire,
  \* the network
  reached,      \* dials whose TCP handshake is complete
  backlog,      \* those of them the server has not accepted, in order
  link,         \* the dial of the client's current or last connection
  peer,         \* the dial each connection of the server was accepted from
  asked,        \* request ids the client wrote to each connection
  heard,        \* responses the client read from its current connection
  breaks,       \* breaks of a connection whose other end was open
  serves        \* history: how often each request was handled

Client == INSTANCE ClientNetwork

Server == INSTANCE Server

\* What the two modules assume of their constants.
ASSUME ClientAssumption == Client!PendingAssumption /\ Client!NoneAssumption

ASSUME ServerAssumption ==
  /\ Server!PlayerIdAssumption /\ Server!CoordinateAssumption
  /\ Server!IdAssumption /\ Server!KindAssumption

clientVars ==
  <<state, socket, dial, waiter, connection, onClosed, opened, open, mail, inFlight,
    notices, nextId, phase, reqId, sentOn, timer, pending, answer>>
serverVars ==
  <<players, position, nextPlayer, binding, loop, stopped, lastId, registered, status,
    posted, sent, taken, got, wire>>
netVars == <<reached, backlog, link, peer, asked, heard, breaks>>
vars == <<clientVars, serverVars, netVars, serves>>

Init ==
  /\ Client!Init /\ Server!Init
  /\ reached = {} /\ backlog = <<>>
  /\ link = None
  /\ peer = [k \in Keys |-> None]
  /\ asked = [c \in Connects |-> <<>>]
  /\ heard = 0 /\ breaks = 0
  /\ serves = [r \in Requests |-> 0]

-------------------------------------------------------------------------------
(* The two ends of a connection.                                           *)

ClientEndOpen(c) ==
  dial[c] \in {"pending", "ok"} \/ (dial[c] = "connected" /\ link = c /\ open)

\* The kernel holds the server's end until the connection is accepted.
ServerEndOpen(c) ==
  \/ \E i \in DOMAIN backlog : backlog[i] = c
  \/ \E k \in Keys : peer[k] = c /\ status[k] \in {"created", "open"}

-------------------------------------------------------------------------------
(* Steps of the client.                                                    *)

ClientAlone ==
  /\ \/ \E c \in Connects :
          \/ Client!Connect(c) \/ Client!DialTimesOut(c)
          \/ Client!ResumeCancelled(c) \/ Client!ResumeFailed(c)
     \/ \E d \in Disconnects : Client!Disconnect(d) \/ Client!DisconnectResumes(d)
     \/ \E r \in Requests :
          Client!SendRequest(r) \/ Client!SendRefused(r) \/ Client!RequestStep(r)
     \/ Client!ConnectionClosed
  /\ UNCHANGED <<serverVars, netVars, serves>>

\* The kernels complete the handshake before the server accepts.
Handshake(c) ==
  /\ dial[c] = "pending" /\ c \notin reached
  /\ reached' = reached \cup {c}
  /\ backlog' = Append(backlog, c)
  /\ UNCHANGED <<clientVars, serverVars, link, peer, asked, heard, breaks, serves>>

DialCompletes(c) ==
  /\ Client!DialCompletes(c)
  /\ dial'[c] = "ok" => c \in reached
  /\ UNCHANGED <<serverVars, netVars, serves>>

Connected(c) ==
  /\ Client!ResumeConnected(c)
  /\ link' = c /\ heard' = 0
  /\ UNCHANGED <<serverVars, reached, backlog, peer, asked, breaks, serves>>

\* A message that the connection writes is on its way to the server.
ConnectionJob ==
  /\ Client!ConnectionJob
  /\ asked' = IF open /\ Head(mail) # 0
              THEN [asked EXCEPT ![link] = Append(@, Head(mail))] ELSE asked
  /\ UNCHANGED <<serverVars, reached, backlog, link, peer, heard, breaks, serves>>

\* The client reads the next response.
Receive ==
  /\ \E k \in Keys : peer[k] = link /\ heard < Len(wire[k])
  /\ Client!Receive
  /\ heard' = heard + 1
  /\ UNCHANGED <<serverVars, reached, backlog, link, peer, asked, breaks, serves>>

-------------------------------------------------------------------------------
(* Steps of the server.                                                    *)

ServerAlone ==
  /\ \E k \in Keys : Server!RunJob(k) \/ Server!ReadCompletes(k) \/ Server!ReadDropped(k)
  /\ UNCHANGED <<clientVars, netVars, serves>>

\* The accept loop takes the next connection.
Accept ==
  /\ backlog # <<>>
  /\ backlog' = Tail(backlog)
  /\ Server!Accept
  /\ peer' = [peer EXCEPT ![lastId'] = Head(backlog)]
  /\ UNCHANGED <<clientVars, reached, link, asked, heard, breaks, serves>>

\* The next request of the client arrives.
Arrive(k) ==
  /\ peer[k] # None /\ Len(sent[k]) < Len(asked[peer[k]])
  /\ \E kind \in Kinds : Server!ClientSends(k, kind)
  /\ UNCHANGED <<clientVars, netVars, serves>>

Handle(k) ==
  /\ Server!Handle(k)
  /\ LET id == asked[peer[k]][taken[k]] IN
       serves' = [r \in Requests |-> IF reqId[r] = id THEN serves[r] + 1 ELSE serves[r]]
  /\ UNCHANGED <<clientVars, netVars>>

-------------------------------------------------------------------------------
(* An end notices that the other one has gone, or breaks by itself.        *)

OtherEndGone(gone) ==
  /\ gone \/ breaks < MaxBreaks
  /\ breaks' = IF gone THEN breaks ELSE breaks + 1
  /\ UNCHANGED <<reached, backlog, link, peer, asked, heard, serves>>

ServerEndBreaks(k) ==
  /\ Server!Break(k)
  /\ OtherEndGone(~ClientEndOpen(peer[k]))
  /\ UNCHANGED clientVars

ClientEndBreaks ==
  /\ Client!ConnectionBreaks
  /\ OtherEndGone(~ServerEndOpen(link))
  /\ UNCHANGED serverVars

-------------------------------------------------------------------------------

Next ==
  \/ ClientAlone
  \/ \E c \in Connects : Handshake(c) \/ DialCompletes(c) \/ Connected(c)
  \/ ConnectionJob \/ Receive
  \/ ServerAlone \/ Accept
  \/ \E k \in Keys : Arrive(k) \/ Handle(k) \/ ServerEndBreaks(k)
  \/ ClientEndBreaks

Spec == Init /\ [][Next]_vars

-------------------------------------------------------------------------------
(* Properties.                                                             *)

\* What ClientNetwork assumes of the server holds of Server: the next response on the
\* client's connection answers its oldest open request, whatever was lost with earlier
\* connections (ServerConnectionManager.cpp:41-49, ClientRequestManager.cpp:192-214).
NextResponseMatches ==
  \A k \in Keys :
    peer[k] = link /\ open /\ heard < Len(wire[k]) =>
      LET id == wire[k][heard + 1].id IN
        /\ inFlight # <<>>
        /\ id \in DOMAIN asked[link] /\ asked[link][id] = Head(inFlight)

\* What the caller of a request knows of it.
Result(r) ==
  CASE phase[r] = "unused"   -> "unused"
    [] phase[r] = "waiting"  -> "open"
    [] phase[r] = "refused"  -> "refused"
    [] phase[r] = "answered" -> "answered"
    [] OTHER                 -> "lost"

Service == INSTANCE RequestService WITH
             result <- [r \in Requests |-> Result(r)],
             served <- serves

\* Client and server together serve a request at most once, answer it only after
\* that and never serve one that was refused, whatever is dialled, closed, timed out
\* and dialled again meanwhile (RequestService).
ServiceSpec == Service!Spec
===============================================================================
