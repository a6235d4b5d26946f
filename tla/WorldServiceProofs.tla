-------------------------- MODULE WorldServiceProofs --------------------------
(***************************************************************************)
(* Proofs about WorldService for any number of connections and players.    *)
(* WorldTypeOK and PlayersAreBound need each other: a player can only be   *)
(* removed without leaving a dangling binding because no other connection  *)
(* is bound to him, and a new one is only bound once because his id is     *)
(* above all those in the world.                                           *)
(***************************************************************************)
EXTENDS WorldService, TLAPS

IInv == WorldTypeOK /\ PlayersAreBound

\* A world without players satisfies the invariant (WorldState.hpp:27-31).
LEMMA WorldInitEstablishes == WorldInit => IInv
BY PlayerIdAssumption, CoordinateAssumption
   DEF WorldInit, IInv, WorldTypeOK, PlayersAreBound, PlayerIds, NoPlayer, Spawn, Coordinates

\* connect() on a new key: the new player's id is above every id in the world.
LEMMA ConnectStep ==
  ASSUME IInv, NEW k \in Keys, ConnectPlayer(k)
  PROVE  IInv'
<1>1. CASE ~Unbound(k)
  BY <1>1 DEF ConnectPlayer, worldVars, IInv, WorldTypeOK, PlayersAreBound
<1>2. CASE Unbound(k)
  <2> DEFINE id == nextPlayer
  <2>1. /\ nextPlayer \in 1 .. MaxPlayerId - 1
        /\ players' = players \cup {id}
        /\ position' = [position EXCEPT ![id] = 0]
        /\ nextPlayer' = nextPlayer + 1
        /\ binding' = [binding EXCEPT ![k] = id]
        /\ binding[k] = 0
    BY <1>2, PlayerIdAssumption
       DEF ConnectPlayer, AddPlayer, NewId, NoIdLeft, Unbound, NoPlayer, Spawn, IInv,
           WorldTypeOK
  <2>2. id \notin players /\ id # 0
    BY <2>1, PlayerIdAssumption DEF IInv, WorldTypeOK
  <2>3. WorldTypeOK'
    <3>1. nextPlayer' \in 1 .. MaxPlayerId /\ players' \subseteq 1 .. nextPlayer' - 1
      BY <2>1, PlayerIdAssumption DEF IInv, WorldTypeOK
    <3>2. position' \in [PlayerIds -> Coordinates]
      <4>1. 0 \in Coordinates
        BY CoordinateAssumption DEF Coordinates
      <4> QED BY <2>1, <4>1 DEF IInv, WorldTypeOK
    <3>3. binding' \in [Keys -> players' \cup {NoPlayer}]
      BY <2>1 DEF IInv, WorldTypeOK
    <3> QED BY <3>1, <3>2, <3>3 DEF WorldTypeOK
  <2>4. binding'[k] = id /\ \A j \in Keys \ {k} : binding'[j] = binding[j]
    BY <2>1 DEF IInv, WorldTypeOK
  <2>5. \A p \in players' : \E j \in Keys : binding'[j] = p
    <3> SUFFICES ASSUME NEW p \in players' PROVE \E j \in Keys : binding'[j] = p
      OBVIOUS
    <3>1. CASE p = id
      BY <3>1, <2>4
    <3>2. CASE p \in players
      <4>1. PICK j \in Keys : binding[j] = p
        BY <3>2 DEF IInv, PlayersAreBound
      <4>2. j # k
        BY <4>1, <3>2, <2>1, PlayerIdAssumption DEF IInv, WorldTypeOK
      <4> QED BY <4>1, <4>2, <2>4
    <3> QED BY <3>1, <3>2, <2>1
  <2>6. ASSUME NEW i \in Keys, NEW j \in Keys, binding'[i] = binding'[j], binding'[i] # 0
        PROVE  i = j
    <3>1. \A l \in Keys : binding[l] # id
      BY <2>2 DEF IInv, WorldTypeOK, NoPlayer
    <3> QED BY <2>4, <2>6, <3>1 DEF IInv, PlayersAreBound, NoPlayer
  <2> QED BY <2>3, <2>5, <2>6 DEF IInv, PlayersAreBound, NoPlayer
<1> QED BY <1>1, <1>2

\* disconnect(): nobody else was bound to the player who leaves.
LEMMA DisconnectStep ==
  ASSUME IInv, NEW k \in Keys, DisconnectPlayer(k)
  PROVE  IInv'
<1>1. CASE Unbound(k)
  BY <1>1 DEF DisconnectPlayer, worldVars, IInv, WorldTypeOK, PlayersAreBound
<1>2. CASE ~Unbound(k)
  <2> DEFINE id == binding[k]
  <2>1. /\ binding[k] # 0
        /\ binding' = [binding EXCEPT ![k] = 0]
        /\ players' = players \ {id}
        /\ UNCHANGED <<position, nextPlayer>>
    BY <1>2 DEF DisconnectPlayer, Unbound, RemovePlayer, NoPlayer
  <2>2. binding'[k] = 0 /\ \A j \in Keys \ {k} : binding'[j] = binding[j]
    BY <2>1 DEF IInv, WorldTypeOK
  <2>3. \A j \in Keys \ {k} : binding[j] # id
    BY <2>1 DEF IInv, PlayersAreBound, NoPlayer
  <2>4. WorldTypeOK'
    <3>1. binding' \in [Keys -> players' \cup {NoPlayer}]
      <4>1. binding' \in [Keys -> players \cup {0}]
        BY <2>1 DEF IInv, WorldTypeOK, NoPlayer
      <4>2. \A j \in Keys : binding'[j] \in players' \cup {0}
        BY <2>1, <2>2, <2>3 DEF IInv, WorldTypeOK, NoPlayer
      <4> QED BY <4>1, <4>2 DEF NoPlayer
    <3> QED BY <2>1, <3>1 DEF IInv, WorldTypeOK
  <2>5. PlayersAreBound'
    BY <2>1, <2>2, <2>3 DEF IInv, PlayersAreBound, NoPlayer
  <2> QED BY <2>4, <2>5 DEF IInv
<1> QED BY <1>1, <1>2

\* A move changes coordinates only, and they keep their width.
LEMMA MoveStep ==
  ASSUME IInv, NEW k \in Keys, NEW delta \in Deltas, ApplyMove(k, delta)
  PROVE  IInv'
<1>1. PICK x \in Moved(position[binding[k]], delta) :
        position' = [position EXCEPT ![binding[k]] = x]
  BY DEF ApplyMove, MovePlayer
<1>2. x \in Coordinates
  BY <1>1 DEF Moved
<1>3. UNCHANGED <<players, nextPlayer, binding>>
  BY DEF ApplyMove, MovePlayer
<1> QED BY <1>1, <1>2, <1>3 DEF IInv, WorldTypeOK, PlayersAreBound

\* IInv is an inductive invariant of the world.
THEOREM WorldInvariance == WorldSpec => []IInv
<1>1. IInv /\ [WorldNext]_worldVars => IInv'
  <2> SUFFICES ASSUME IInv, [WorldNext]_worldVars PROVE IInv'
    OBVIOUS
  <2>1. CASE UNCHANGED worldVars
    BY <2>1 DEF worldVars, IInv, WorldTypeOK, PlayersAreBound
  <2>2. CASE WorldNext
    BY <2>2, ConnectStep, DisconnectStep, MoveStep DEF WorldNext
  <2> QED BY <2>1, <2>2
<1> QED BY <1>1, WorldInitEstablishes, PTL DEF WorldSpec

\* Type correctness of the world, for every number of connections and players.
THEOREM WorldTypeCorrect == WorldSpec => []WorldTypeOK
BY WorldInvariance, PTL DEF IInv

\* The players of the world are those of the bound connections, one each
\* (WorldService.cpp:20-43).
THEOREM BoundPlayers == WorldSpec => []PlayersAreBound
BY WorldInvariance, PTL DEF IInv

\* The step part of IdsAreFresh: only connect() adds a player, with the next id.
LEMMA FreshIdStep ==
  ASSUME IInv, [WorldNext]_worldVars
  PROVE  [\A p \in players' \ players : p >= nextPlayer /\ p < nextPlayer']_worldVars
<1> SUFFICES ASSUME NEW k \in Keys, ConnectPlayer(k) \/ DisconnectPlayer(k)
                                    \/ \E delta \in Deltas : ApplyMove(k, delta)
             PROVE  \A p \in players' \ players : p >= nextPlayer /\ p < nextPlayer'
  BY DEF WorldNext, worldVars
<1>1. CASE ConnectPlayer(k)
  BY <1>1, PlayerIdAssumption
     DEF ConnectPlayer, AddPlayer, NewId, worldVars, IInv, WorldTypeOK
<1>2. CASE DisconnectPlayer(k)
  BY <1>2 DEF DisconnectPlayer, RemovePlayer, worldVars
<1>3. CASE \E delta \in Deltas : ApplyMove(k, delta)
  BY <1>3 DEF ApplyMove, MovePlayer
<1> QED BY <1>1, <1>2, <1>3

\* No player ever gets the id of an earlier one (WorldState.cpp:41-51).
THEOREM FreshIds == WorldSpec => IdsAreFresh
BY WorldInvariance, FreshIdStep, PTL DEF WorldSpec, IdsAreFresh

\* The step part of OthersUndisturbed, with the key the step belongs to: the
\* players of the other keys are still in the world, each at his place.
LEMMA UndisturbedStep ==
  ASSUME IInv, [WorldNext]_worldVars
  PROVE  [\E j \in Keys : \A k \in Keys \ {j} :
             binding[k] # NoPlayer =>
               /\ binding'[k] = binding[k]
               /\ binding[k] \in players'
               /\ position'[binding[k]] = position[binding[k]]]_worldVars
<1> SUFFICES ASSUME NEW j \in Keys,
                    NEW k \in Keys \ {j}, binding[k] # 0,
                    \/ ConnectPlayer(j) \/ DisconnectPlayer(j)
                    \/ \E delta \in Deltas : ApplyMove(j, delta)
             PROVE  /\ binding'[k] = binding[k]
                    /\ binding[k] \in players'
                    /\ position'[binding[k]] = position[binding[k]]
  BY DEF WorldNext, worldVars, NoPlayer
<1>1. /\ binding[k] \in players /\ players \subseteq PlayerIds
      /\ binding[j] = binding[k] => FALSE
  BY PlayerIdAssumption DEF IInv, WorldTypeOK, PlayersAreBound, NoPlayer, PlayerIds
<1>2. CASE ConnectPlayer(j)
  <2>1. CASE ~Unbound(j)
    BY <1>1, <1>2, <2>1 DEF ConnectPlayer, worldVars
  <2>2. CASE Unbound(j)
    <3>1. nextPlayer \notin players
      BY PlayerIdAssumption DEF IInv, WorldTypeOK
    <3>2. /\ players' = players \cup {nextPlayer}
          /\ position' = [position EXCEPT ![nextPlayer] = Spawn]
          /\ binding' = [binding EXCEPT ![j] = nextPlayer]
      BY <1>2, <2>2 DEF ConnectPlayer, AddPlayer, NewId
    <3> QED BY <1>1, <3>1, <3>2 DEF IInv, WorldTypeOK
  <2> QED BY <2>1, <2>2
<1>3. CASE DisconnectPlayer(j)
  BY <1>1, <1>3 DEF DisconnectPlayer, RemovePlayer, worldVars, IInv, WorldTypeOK
<1>4. CASE \E delta \in Deltas : ApplyMove(j, delta)
  BY <1>1, <1>4 DEF ApplyMove, MovePlayer, IInv, WorldTypeOK
<1> QED BY <1>2, <1>3, <1>4

\* Nothing done on one connection moves or removes the player of another one
\* (WorldService.cpp:20-54).
THEOREM OthersStay == WorldSpec => OthersUndisturbed
BY WorldInvariance, UndisturbedStep, PTL DEF WorldSpec, OthersUndisturbed
===============================================================================
