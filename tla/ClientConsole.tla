----------------------------- MODULE ClientConsole -----------------------------
(***************************************************************************)
(* The client's screen and the two threads behind it: the UI thread, which *)
(* runs Application's frames (events, results, update) and at last destroys *)
(* the application, and the worker of NetworkComponent, which runs the     *)
(* calls spawned on its io_context.  They share an atomic state, which the *)
(* UI polls, and the queue of results.                                     *)
(*                                                                         *)
(* The worker's side is ClientNetwork seen from outside.  A definition     *)
(* whose name extends the next one's is a faulty variant of it that no     *)
(* action uses.                                                            *)
(***************************************************************************)
EXTENDS Integers, Sequences

CONSTANTS
  MaxConnects,  \* bound: clicks on the Connect button
  MaxRequests   \* bound: clicks on the ping and snapshot buttons

ASSUME ClickAssumption == MaxConnects \in Nat /\ MaxRequests \in Nat

NetStates == {"Disconnected", "Connecting", "Connected", "Disconnecting"}

\* What a completion handler reports: a failed connect(), or the answer or the
\* error of a sendRequest().
Reports == {"connect", "request"}

VARIABLES
  net,          \* ConnectionManager::m_state
  dialling,     \* the connect() in progress has not returned
  waiting,      \* sendRequest() calls that wait for an answer
  jobs,         \* coroutines spawned on m_io and not yet run
  ended,        \* calls that returned and whose completion handler has not run
  results,      \* m_results
  phase,        \* what the UI thread does
  drained,      \* results of this frame that are not handled yet
  shown,        \* m_shownState, and the status the panel shows
  canConnect,   \* the Connect button is enabled
  canDisconnect,\* the Disconnect button is enabled
  canAsk,       \* the ping and snapshot buttons are enabled
  clicks,       \* clicks on Connect
  asked,        \* clicks on the ping and snapshot buttons
  logged,       \* request results written to the event log
  missed        \* history: the last connection came and went between two looks
                \* of the UI at the state

workerVars == <<net, dialling, waiting>>
panelVars  == <<shown, canConnect, canDisconnect, canAsk>>
userVars   == <<clicks, asked>>
vars == <<workerVars, jobs, ended, results, phase, drained, panelVars, userVars, logged,
          missed>>

Init ==
  /\ net = "Disconnected" /\ dialling = FALSE /\ waiting = 0
  /\ jobs = <<>> /\ ended = [r \in Reports |-> 0] /\ results = <<>>
  /\ phase = "events" /\ drained = <<>>
  /\ shown = "Disconnected"
  /\ canConnect = TRUE /\ canDisconnect = FALSE /\ canAsk = FALSE
  /\ clicks = 0 /\ asked = 0 /\ logged = 0 /\ missed = FALSE

-------------------------------------------------------------------------------
(* The UI thread.                                                          *)

\* ConnectionPanel::showState
ShowState ==
  /\ shown' = net
  /\ canConnect' = (net = "Disconnected")
  /\ canDisconnect' = (net \in {"Connecting", "Connected"})
  /\ canAsk' = (net = "Connected")
  /\ missed' = FALSE

Spawn(job) ==
  /\ phase = "events"
  /\ jobs' = Append(jobs, job)
  /\ UNCHANGED <<workerVars, ended, results, drained, shown, logged, missed>>

ClickConnect ==
  /\ canConnect /\ clicks < MaxConnects
  /\ canConnect' = FALSE
  /\ clicks' = clicks + 1
  /\ Spawn("connect")
  /\ UNCHANGED <<phase, canDisconnect, canAsk, asked>>

ClickDisconnect ==
  /\ canDisconnect
  /\ canDisconnect' = FALSE
  /\ Spawn("disconnect")
  /\ UNCHANGED <<phase, canConnect, canAsk, userVars>>

\* The ping or the snapshot button.
ClickRequest ==
  /\ canAsk /\ asked < MaxRequests
  /\ asked' = asked + 1
  /\ Spawn("request")
  /\ UNCHANGED <<phase, canConnect, canDisconnect, canAsk, clicks>>

\* drainResults
DrainResults ==
  /\ phase = "events"
  /\ phase' = "results"
  /\ drained' = results /\ results' = <<>>
  /\ UNCHANGED <<workerVars, jobs, ended, panelVars, userVars, logged, missed>>

HandleErrorOnlyLogs ==
  /\ drained # <<>> /\ Head(drained) = "connect"
  /\ drained' = Tail(drained)
  /\ UNCHANGED <<workerVars, jobs, ended, results, phase, panelVars, userVars, logged, missed>>

\* A Connect error: the panel shows whatever the state is by now.
HandleError ==
  /\ drained # <<>> /\ Head(drained) = "connect"
  /\ drained' = Tail(drained)
  /\ ShowState
  /\ UNCHANGED <<workerVars, jobs, ended, results, phase, userVars, logged>>

HandleAnswer ==
  /\ drained # <<>> /\ Head(drained) = "request"
  /\ drained' = Tail(drained)
  /\ logged' = logged + 1
  /\ UNCHANGED <<workerVars, jobs, ended, results, phase, panelVars, userVars, missed>>

UpdateForgetsShown ==
  /\ phase = "results" /\ drained = <<>>
  /\ phase' = "events"
  /\ IF net = shown THEN UNCHANGED <<canConnect, canDisconnect, canAsk, missed>>
     ELSE /\ canConnect' = (net = "Disconnected")
          /\ canDisconnect' = (net \in {"Connecting", "Connected"})
          /\ canAsk' = (net = "Connected")
          /\ missed' = FALSE
  /\ UNCHANGED <<workerVars, jobs, ended, results, drained, shown, userVars, logged>>

Update ==
  /\ phase = "results" /\ drained = <<>>
  /\ phase' = "events"
  /\ IF net = shown THEN UNCHANGED <<panelVars, missed>> ELSE ShowState
  /\ UNCHANGED <<workerVars, jobs, ended, results, drained, userVars, logged>>

quitFrame == <<workerVars, ended, results, drained, panelVars, userVars, logged, missed>>

QuitWithoutDisconnect ==
  /\ phase = "events"
  /\ phase' = "joining"
  /\ UNCHANGED <<jobs, quitFrame>>

\* The window closes, run() returns and ~NetworkComponent spawns a disconnect().
Quit ==
  /\ Spawn("disconnect")
  /\ phase' = "disconnecting"
  /\ UNCHANGED <<canConnect, canDisconnect, canAsk, userVars>>

\* shutdown.get() returns, as this disconnect() does, and m_work is reset.
ShutdownReturns ==
  /\ phase = "disconnecting" /\ jobs = <<>> /\ net = "Disconnected"
  /\ phase' = "joining"
  /\ UNCHANGED <<jobs, quitFrame>>

\* m_worker.join(): run() returns once no coroutine is left on m_io.
WorkerJoins ==
  /\ phase = "joining" /\ jobs = <<>> /\ net = "Disconnected"
  /\ waiting = 0 /\ ended = [r \in Reports |-> 0]
  /\ phase' = "ended"
  /\ UNCHANGED <<jobs, quitFrame>>

-------------------------------------------------------------------------------
(* The worker thread.                                                      *)

uiFrame == <<phase, drained, panelVars, userVars, logged>>

TakeJob(job) ==
  /\ jobs # <<>> /\ Head(jobs) = job
  /\ jobs' = Tail(jobs)

Ends(report) == ended' = [ended EXCEPT ![report] = @ + 1]

RunConnect ==
  /\ TakeJob("connect")
  /\ IF net = "Disconnected"
     THEN net' = "Connecting" /\ dialling' = TRUE /\ UNCHANGED ended
     ELSE Ends("connect") /\ UNCHANGED <<net, dialling>>
  /\ UNCHANGED <<waiting, results, uiFrame, missed>>

RunDisconnect ==
  /\ TakeJob("disconnect")
  /\ net' = IF net \in {"Connecting", "Connected"} THEN "Disconnecting" ELSE net
  /\ UNCHANGED <<dialling, waiting, ended, results, uiFrame, missed>>

\* m_connection is set from the success of a dial to the close notice.
HasConnection == net \in {"Connected", "Disconnecting"} /\ ~dialling

RunRequestSilently ==
  /\ TakeJob("request")
  /\ waiting' = IF HasConnection THEN waiting + 1 ELSE waiting
  /\ UNCHANGED <<net, dialling, ended, results, uiFrame, missed>>

RunRequest ==
  /\ TakeJob("request")
  /\ IF HasConnection THEN waiting' = waiting + 1 /\ UNCHANGED ended
                      ELSE Ends("request") /\ UNCHANGED waiting
  /\ UNCHANGED <<net, dialling, results, uiFrame, missed>>

\* The answer, the timeout or the close of the connection.
RequestEnds ==
  /\ waiting > 0
  /\ waiting' = waiting - 1
  /\ Ends("request")
  /\ UNCHANGED <<net, dialling, jobs, results, uiFrame, missed>>

DialSucceeds ==
  /\ net = "Connecting"
  /\ net' = "Connected" /\ dialling' = FALSE
  /\ UNCHANGED <<waiting, ended, jobs, results, uiFrame, missed>>

\* The dial fails, times out or was cancelled by disconnect().
DialFails ==
  /\ dialling
  /\ net' = "Disconnected" /\ dialling' = FALSE
  /\ Ends("connect")
  /\ UNCHANGED <<waiting, jobs, results, uiFrame, missed>>

\* connectionClosed: the server went away or disconnect() closed the connection.
ConnectionEnds ==
  /\ HasConnection
  /\ net' = "Disconnected"
  /\ missed' = (shown = "Disconnected")
  /\ UNCHANGED <<dialling, waiting, ended, jobs, results, uiFrame>>

\* The completion handler of a call runs after the state has changed.
Publish(report) ==
  /\ ended[report] > 0
  /\ ended' = [ended EXCEPT ![report] = @ - 1]
  /\ results' = Append(results, report)
  /\ UNCHANGED <<workerVars, jobs, uiFrame, missed>>

-------------------------------------------------------------------------------

Frame == DrainResults \/ HandleError \/ HandleAnswer \/ Update

Destructor == ShutdownReturns \/ WorkerJoins

Work == RunConnect \/ RunDisconnect \/ RunRequest \/ \E r \in Reports : Publish(r)

Next ==
  \/ ClickConnect \/ ClickDisconnect \/ ClickRequest \/ Quit
  \/ Frame \/ Destructor
  \/ Work \/ RequestEnds \/ DialSucceeds \/ DialFails \/ ConnectionEnds

Spec == Init /\ [][Next]_vars

\* Frames follow each other, the worker runs what is spawned on it, a dial and a
\* request end by their timeouts and a disconnect() closes the connection
\* (ClientNetwork).  The user need not click and a connection need not end by itself.
Fairness ==
  /\ WF_vars(Frame)
  /\ WF_vars(Destructor)
  /\ WF_vars(Work)
  /\ WF_vars(RequestEnds)
  /\ WF_vars(DialSucceeds \/ DialFails)
  /\ WF_vars(net = "Disconnecting" /\ ConnectionEnds)

FairSpec == Spec /\ Fairness

-------------------------------------------------------------------------------
(* Properties.                                                             *)

InUse == phase \in {"events", "results"}

\* The user is eventually told the state the connection has settled in, however
\* many changes went by between two frames (ClientConsoleState.cpp:94-113).
ShownSettles ==
  \A s \in NetStates : <>[](net = s /\ InUse) => <>[](shown = s)

\* Once nothing moves any more the user can act on what he has: connect when
\* disconnected, disconnect and send requests when connected.  The one exception is
\* `missed`, a connection that was made and lost between two looks of the UI: the
\* state it polls is the one it already shows, nothing was an error, and the Connect
\* button it disabled at the click stays so (ClientConsoleState.cpp:96-100, 143-148).
ControlsComeBack ==
  /\ <>[](net = "Disconnected" /\ jobs = <<>> /\ InUse) => <>[](canConnect \/ missed)
  /\ <>[](net = "Connected" /\ jobs = <<>> /\ InUse) => <>[](canDisconnect /\ canAsk)

\* Every ping or snapshot the user asks for is reported in the log, once, whether it
\* is answered, refused or lost with its connection, while the window is open
\* (NetworkComponent.cpp:93-127, 134-148, ClientConsoleState.cpp:123-150).
RequestsAreReported ==
  /\ [](logged <= asked)
  /\ \A n \in 1 .. MaxRequests : asked >= n ~> logged >= n \/ ~InUse

\* The application ends whenever the user closes it, also while it dials, with a
\* connection that would stay for ever and with requests under way: nothing keeps the
\* destructor's disconnect() or the worker (NetworkComponent.cpp:42-60).
QuitReturns == ~InUse ~> phase = "ended"
===============================================================================
