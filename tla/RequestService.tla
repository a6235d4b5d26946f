---------------------------- MODULE RequestService ----------------------------
(***************************************************************************)
(* What the client and the server together promise to whoever calls        *)
(* sendRequest: a request is served at most once, it is answered only      *)
(* after it was served, and not served at all if it was refused.  A request *)
(* that is lost (timed out, or failed with its connection) may have been   *)
(* served or may still be served later.                                    *)
(***************************************************************************)
EXTENDS Naturals

CONSTANT Requests

VARIABLES
  result,     \* what the caller of each request knows
  served      \* how often the server has served it

vars == <<result, served>>

Init ==
  /\ result = [r \in Requests |-> "unused"]
  /\ served = [r \in Requests |-> 0]

Becomes(r, from, to) ==
  /\ result[r] = from
  /\ result' = [result EXCEPT ![r] = to]
  /\ UNCHANGED served

Send(r) == Becomes(r, "unused", "open")

Refuse(r) == Becomes(r, "unused", "refused")

Serve(r) ==
  /\ result[r] \in {"open", "lost"}
  /\ served[r] = 0
  /\ served' = [served EXCEPT ![r] = 1]
  /\ UNCHANGED result

Answer(r) == served[r] = 1 /\ Becomes(r, "open", "answered")

Lose(r) == Becomes(r, "open", "lost")

Next ==
  \E r \in Requests : Send(r) \/ Refuse(r) \/ Serve(r) \/ Answer(r) \/ Lose(r)

Spec == Init /\ [][Next]_vars
===============================================================================
