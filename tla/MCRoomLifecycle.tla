-------------------------- MODULE MCRoomLifecycle --------------------------
(* Constant definitions for the model-checking runs of RoomLifecycle.      *)
EXTENDS RoomLifecycle, TLC

Symmetry == Permutations(USERS) \union Permutations(ROOMS) \union Permutations(GAMES)

\* Leftovers no other room can see: grants of a closed room, and invites of a
\* room that is not waiting.  Runs with several rooms do not explore past states
\* that hold them; the one-room run does.
NoLeftovers ==
  \A r \in ROOMS :
    /\ room[r] \in Terminal \union {"PLAYING"} => issued[r] \union consumed[r] = {}
    /\ r \in invites => room[r] = "WAITING"

\* Two rooms, and a third one for those who continue after a match: nobody plays
\* a second match then.
TwoRivalsOrContinued ==
  (\A r \in ROOMS : room[r] # "NONE") =>
    (\E r \in ROOMS : room[r] = "FINISHED") /\ \A r \in ROOMS : issued[r] = {}
=============================================================================
