---------------------------- MODULE MCSnapshot ----------------------------
(* Constant definitions for the model-checking runs of Snapshot.           *)
EXTENDS Snapshot, TLC

Symmetry == Permutations(USERS) \union Permutations(FINGERPRINTS)

\* The room got its second member through accept_room, nobody has consumed a grant
\* and the room is not over; two requests at a time, and one push on each socket.
InSetup ==
  /\ room[ROOM] \notin Terminal /\ invites = {} /\ due[ROOM] # "past"
  /\ consumed[ROOM] = {} /\ challenge[ROOM] = "NONE"
  /\ Cardinality({uk \in USERS \X Kinds : request[uk[1]][uk[2]] # Idle}) <= 2
  /\ \A u \in USERS : Len(pushed[u]) <= 1
=============================================================================
