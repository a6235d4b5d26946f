----------------------------- MODULE WorldService -----------------------------
(***************************************************************************)
(* The server's game world: WorldService, PlayerConnectionRegistry and     *)
(* WorldState.  Players have one coordinate here; x and y are treated alike *)
(* by the code.  A definition whose name extends the next one's is a faulty *)
(* variant of it that no action uses.                                      *)
(***************************************************************************)
EXTENDS Integers

CONSTANTS
  Keys,         \* connection keys
  MaxPlayerId,  \* numeric_limits<player_id>::max(): never handed out
  Deltas,       \* coordinates a MoveAction may add
  IntMax        \* numeric_limits<int>::max()

\* The first player gets id 1 and the last id is reserved (WorldState.hpp:31).
ASSUME PlayerIdAssumption == MaxPlayerId \in Nat \ {0}

Coordinates == -IntMax - 1 .. IntMax

ASSUME CoordinateAssumption == IntMax \in Nat /\ Deltas \subseteq Coordinates

NoPlayer == 0

Spawn == 0

PlayerIds == 1 .. MaxPlayerId - 1

VARIABLES
  players,      \* ids in m_players
  position,     \* their coordinates
  nextPlayer,   \* m_nextPlayerId
  binding       \* m_playersByConnection

worldVars == <<players, position, nextPlayer, binding>>

WorldInit ==
  /\ players = {}
  /\ position = [p \in PlayerIds |-> Spawn]
  /\ nextPlayer = 1
  /\ binding = [k \in Keys |-> NoPlayer]

-------------------------------------------------------------------------------
(* WorldState.                                                             *)

NoIdLeftOffByOne == nextPlayer > MaxPlayerId

NoIdLeft == nextPlayer = MaxPlayerId

NewIdReused ==
  IF PlayerIds \ players = {} THEN nextPlayer
  ELSE CHOOSE p \in PlayerIds \ players : \A q \in PlayerIds \ players : p <= q

NewId == nextPlayer

AddPlayerSameId ==
  /\ players' = players \cup {NewId}
  /\ position' = [position EXCEPT ![NewId] = Spawn]
  /\ UNCHANGED nextPlayer

AddPlayer ==
  /\ players' = players \cup {NewId}
  /\ position' = [position EXCEPT ![NewId] = Spawn]
  /\ nextPlayer' = nextPlayer + 1

RemoveNothing(p) == UNCHANGED players

RemovePlayer(p) == players' = players \ {p}

\* Signed overflow is undefined: the coordinate may become anything.
Moved(x, delta) ==
  IF x + delta \in Coordinates THEN {x + delta} ELSE Coordinates

MovePlayer(p, delta) ==
  /\ p \in players
  /\ \E x \in Moved(position[p], delta) : position' = [position EXCEPT ![p] = x]
  /\ UNCHANGED <<players, nextPlayer>>

-------------------------------------------------------------------------------
(* WorldService.                                                           *)

Unbound(k) == binding[k] = NoPlayer

\* addPlayer would throw "Too many players".
ConnectThrows(k) == Unbound(k) /\ NoIdLeft

\* connect() that returns a player.
ConnectPlayer(k) ==
  IF ~Unbound(k) THEN UNCHANGED worldVars
  ELSE /\ ~NoIdLeft
       /\ AddPlayer
       /\ binding' = [binding EXCEPT ![k] = NewId]

DisconnectPlayer(k) ==
  IF Unbound(k) THEN UNCHANGED worldVars
  ELSE /\ binding' = [binding EXCEPT ![k] = NoPlayer]
       /\ RemovePlayer(binding[k])
       /\ UNCHANGED <<position, nextPlayer>>

\* A MoveAction; InteractAction and WaitAction change nothing.
ApplyMove(k, delta) ==
  /\ ~Unbound(k)
  /\ MovePlayer(binding[k], delta)
  /\ UNCHANGED binding

WorldNext ==
  \E k \in Keys :
    \/ ConnectPlayer(k)
    \/ DisconnectPlayer(k)
    \/ \E delta \in Deltas : ApplyMove(k, delta)

WorldSpec == WorldInit /\ [][WorldNext]_worldVars

-------------------------------------------------------------------------------
(* Properties.                                                             *)

\* The types of the variables; ids already handed out are below m_nextPlayerId.
WorldTypeOK ==
  /\ nextPlayer \in 1 .. MaxPlayerId
  /\ players \subseteq 1 .. nextPlayer - 1
  /\ position \in [PlayerIds -> Coordinates]
  /\ binding \in [Keys -> players \cup {NoPlayer}]

\* The world holds exactly the players of the bound connections, and no two
\* connections share one (WorldService.cpp:20-43).
PlayersAreBound ==
  /\ \A p \in players : \E k \in Keys : binding[k] = p
  /\ \A j, k \in Keys : binding[j] = binding[k] /\ binding[j] # NoPlayer => j = k

\* A player id is handed out once: a new player never takes over the id of one
\* that left (WorldState.cpp:41-51), so a late message cannot be taken for his.
IdsAreFresh ==
  [][\A p \in players' \ players : p >= nextPlayer /\ p < nextPlayer']_worldVars

\* Whatever happens on one connection neither moves nor removes the player of
\* another one (WorldService.cpp:20-54).
OthersUndisturbed ==
  [][\E j \in Keys : \A k \in Keys \ {j} :
        binding[k] # NoPlayer =>
          /\ binding'[k] = binding[k]
          /\ binding[k] \in players'
          /\ position'[binding[k]] = position[binding[k]]]_worldVars
===============================================================================
