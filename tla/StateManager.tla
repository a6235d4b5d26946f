----------------------------- MODULE StateManager -----------------------------
(***************************************************************************)
(* The client's stack of application states (screens).  A call of the      *)
(* manager runs a handler of some of the states, one after the other.      *)
(* Changes are requested at any time, by these handlers too, and applied   *)
(* together at the end of update(); the first one that cannot be applied   *)
(* throws out of it.                                                       *)
(*                                                                         *)
(* A definition whose name extends the next one's is a faulty variant of   *)
(* it that no action uses.                                                 *)
(***************************************************************************)
EXTENDS Integers, FiniteSets, FiniteSetsExt, SequencesExt

CONSTANTS
  States,       \* application states; each is a unique_ptr and is used once
  Initial,      \* the one the constructor mounts
  UpdatesBelow, \* states that let results and updates through to the one below
  DrawsBelow,   \* states that let the one below be drawn
  MaxPops       \* bound: calls of requestPop()

ASSUME InitialAssumption == Initial \in States

ASSUME BelowAssumption == UpdatesBelow \subseteq States /\ DrawsBelow \subseteq States

ASSUME PopAssumption == MaxPops \in Nat

VARIABLES
  stack,        \* m_states, bottom first
  changes,      \* m_pendingChanges
  mounted,      \* states whose root widget is in the GUI
  enabled,      \* states whose root widget is enabled, as a new widget is
  unused,       \* states that were never given to the manager
  pops,         \* calls of requestPop()
  call,         \* the call in progress: "none", "event", "result", "update", "render"
  index,        \* the position of its loop in m_states
  running,      \* the state whose handler it has called
  refused       \* the last update() with changes to apply threw "Cannot pop the last
                \* application state"

callVars == <<call, index, running>>
vars == <<stack, changes, mounted, enabled, unused, pops, callVars, refused>>

Elements(s) == {s[i] : i \in DOMAIN s}

TopOf(s) == s[Len(s)]

Init ==
  /\ stack = <<Initial>>
  /\ changes = <<>>
  /\ mounted = {Initial}
  /\ enabled = States
  /\ unused = States \ {Initial}
  /\ pops = 0 /\ refused = FALSE
  /\ call = "none" /\ index = 1 /\ running = Initial

-------------------------------------------------------------------------------
(* The requests, made by a state's handlers or by the application.         *)

Request(change) ==
  /\ changes' = Append(changes, change)
  /\ UNCHANGED <<stack, mounted, enabled, callVars, refused>>

RequestPush(s) ==
  /\ s \in unused
  /\ Request([kind |-> "Push", state |-> s])
  /\ unused' = unused \ {s} /\ UNCHANGED pops

RequestResetTo(s) ==
  /\ s \in unused
  /\ Request([kind |-> "ResetTo", state |-> s])
  /\ unused' = unused \ {s} /\ UNCHANGED pops

RequestPopAtOnce ==
  /\ pops < MaxPops /\ Len(stack) > 1
  /\ stack' = Front(stack)
  /\ mounted' = mounted \ {TopOf(stack)}
  /\ pops' = pops + 1
  /\ UNCHANGED <<changes, enabled, unused, callVars, refused>>

RequestPop ==
  /\ pops < MaxPops
  /\ Request([kind |-> "Pop", state |-> Initial])
  /\ pops' = pops + 1 /\ UNCHANGED unused

-------------------------------------------------------------------------------
(* The calls of a frame.                                                   *)

\* firstUpdatedState, firstRenderedState: down from the top while states let through.
FirstReached(below) == Max({1} \cup {i \in DOMAIN stack : stack[i] \notin below})

Call(name, first) ==
  /\ call = "none"
  /\ call' = name
  /\ index' = first
  /\ running' = stack[first]
  /\ UNCHANGED <<stack, changes, mounted, enabled, unused, pops, refused>>

HandleEvent == Call("event", Len(stack))

HandleNetworkResult == Call("result", FirstReached(UpdatesBelow))

Update == Call("update", FirstReached(UpdatesBelow))

Render == Call("render", FirstReached(DrawsBelow))

\* The loop goes on to the next state.
HandlerReturns ==
  /\ call # "none" /\ index < Len(stack)
  /\ index' = index + 1
  /\ running' = stack[index']
  /\ UNCHANGED <<stack, changes, mounted, enabled, unused, pops, call, refused>>

\* The loop is over; update() returns here when there is nothing to apply.
CallReturns ==
  /\ call # "none" /\ index >= Len(stack)
  /\ call = "update" => changes = <<>>
  /\ call' = "none"
  /\ UNCHANGED <<stack, changes, mounted, enabled, unused, pops, index, running, refused>>

-------------------------------------------------------------------------------
(* applyPendingChanges: one change, then all of them.  `left` is what stays *)
(* in m_pendingChanges after the throw; the refused pop itself is gone.    *)

ApplyResetLeavingMounted(m, change) ==
  [m EXCEPT !.stack = <<change.state>>, !.mounted = @ \cup {change.state}]

ApplyReset(m, change) ==
  [m EXCEPT !.stack = <<change.state>>,
            !.mounted = (@ \cup {change.state}) \ Elements(m.stack)]

ApplyPush(m, change) ==
  [m EXCEPT !.stack = Append(@, change.state), !.mounted = @ \cup {change.state}]

ApplyPop(m) ==
  [m EXCEPT !.stack = Front(@), !.mounted = @ \ {TopOf(m.stack)}]

Apply(m, change) ==
  IF m.refused THEN [m EXCEPT !.left = Append(@, change)]
  ELSE CASE change.kind = "Push"    -> ApplyPush(m, change)
         [] change.kind = "ResetTo" -> ApplyReset(m, change)
         [] change.kind = "Pop"     ->
              IF Len(m.stack) = 1 THEN [m EXCEPT !.refused = TRUE] ELSE ApplyPop(m)

\* The stack, the GUI and the rest after each of the changes, from m before the first.
Applied(m, cs) ==
  LET after[n \in 0 .. Len(cs)] == IF n = 0 THEN m ELSE Apply(after[n - 1], cs[n])
  IN  after

ApplyAll ==
  Applied([stack |-> stack, mounted |-> mounted, left |-> <<>>, refused |-> FALSE],
          changes)[Len(changes)]

\* refreshInteractivity
Refresh(s) ==
  {x \in States : IF x \in Elements(s) THEN x = TopOf(s) ELSE x \in enabled}

ApplyDropsRest ==
  LET result == ApplyAll IN
    /\ call = "update" /\ index >= Len(stack) /\ changes # <<>>
    /\ stack' = result.stack
    /\ mounted' = result.mounted
    /\ changes' = <<>>
    /\ refused' = result.refused
    /\ enabled' = IF result.refused THEN enabled ELSE Refresh(result.stack)
    /\ call' = "none"
    /\ UNCHANGED <<unused, pops, index, running>>

\* The end of update().  The throw of a refused pop skips refreshInteractivity.
ApplyPendingChanges ==
  LET result == ApplyAll IN
    /\ call = "update" /\ index >= Len(stack) /\ changes # <<>>
    /\ stack' = result.stack
    /\ mounted' = result.mounted
    /\ changes' = result.left
    /\ refused' = result.refused
    /\ enabled' = IF result.refused THEN enabled ELSE Refresh(result.stack)
    /\ call' = "none"
    /\ UNCHANGED <<unused, pops, index, running>>

Next ==
  \/ \E s \in States : RequestPush(s) \/ RequestResetTo(s)
  \/ RequestPop
  \/ HandleEvent \/ HandleNetworkResult \/ Update \/ Render
  \/ HandlerReturns \/ CallReturns \/ ApplyPendingChanges

Spec == Init /\ [][Next]_vars

-------------------------------------------------------------------------------
(* Properties.                                                             *)

Changes == [kind : {"Push", "ResetTo", "Pop"}, state : States]

\* The types of the variables; the stack is never empty (StateManager.cpp:103-106).
TypeOK ==
  /\ stack \in Seq(States) /\ stack # <<>>
  /\ changes \in Seq(Changes)
  /\ mounted \subseteq States /\ enabled \subseteq States /\ unused \subseteq States
  /\ pops \in Nat /\ refused \in BOOLEAN
  /\ call \in {"none", "event", "result", "update", "render"}
  /\ index \in Nat /\ running \in States

\* The GUI shows the root widgets of the stacked states and of no other one, also
\* after an update() that stopped half-way; unless one did, input reaches the
\* widgets of the topmost state and of no state it covers
\* (StateManager.cpp:84-115, 138-144).
ScreenIsStack ==
  /\ mounted = Elements(stack)
  /\ ~refused => enabled \cap Elements(stack) = {TopOf(stack)}

\* A state is never destroyed while one of its handlers runs, whatever this and
\* other handlers request; and an event reaches the topmost state only, a result,
\* an update or a draw those that every state above lets it through to
\* (StateManager.cpp:46-75, 118-136).
HandlerOwnerLives ==
  call # "none" =>
    /\ index \in DOMAIN stack /\ running = stack[index]
    /\ \A i \in index + 1 .. Len(stack) :
         stack[i] \in CASE call = "event"  -> {}
                        [] call = "render" -> DrawsBelow
                        [] OTHER           -> UpdatesBelow

\* The state that preserves the stack after a refused pop can still be used: the
\* test "requires and preserves at least one state" expects the root of the last
\* state to be enabled after update() threw.
TopIsInteractive == TopOf(stack) \in enabled

Settle(s, change) ==
  CASE change.kind = "Push"    -> Append(s, change.state)
    [] change.kind = "ResetTo" -> <<change.state>>
    [] OTHER                   -> IF Len(s) = 1 THEN s ELSE Front(s)

\* The stack after each of the changes, a pop of the last state having no effect.
Settled(s, cs) ==
  LET after[n \in 0 .. Len(cs)] == IF n = 0 THEN s ELSE Settle(after[n - 1], cs[n])
  IN  after

\* The stack once every pending change is applied.
Pending == Settled(stack, changes)[Len(changes)]

Requested == INSTANCE StateStack WITH
               screens <- Pending,
               requests <- Cardinality(States \ unused) - 1 + pops

\* No request is lost, repeated or overtaken, however the requests are grouped
\* into updates and wherever one of these throws (StateManager.cpp:84-113).
StateStackSpec == Requested!Spec
===============================================================================
