----------------------------- MODULE RoomState -----------------------------
(***************************************************************************)
(* The pure transition function of apps/server/src/room_state.rs: which    *)
(* events a room accepts in which state, and where they take it.           *)
(***************************************************************************)

RoomStates == {"WAITING", "READY", "CHALLENGING", "CONNECTING", "PLAYING",
               "FINISHED", "CANCELLED"}

RoomEvents == {"Accept", "Start", "Finish", "Cancel", "Decline"}

\* The states in which transition() does not return InvalidTransition.
AcceptedIn(event) ==
  CASE event = "Accept" -> {"WAITING", "CHALLENGING"}
    [] event = "Start"  -> {"CONNECTING"}
    [] event = "Finish" -> {"PLAYING"}
    [] OTHER            -> {"WAITING", "READY", "CHALLENGING", "CONNECTING", "PLAYING"}

Target(event) ==
  CASE event = "Accept" -> "CONNECTING"
    [] event = "Start"  -> "PLAYING"
    [] event = "Finish" -> "FINISHED"
    [] OTHER            -> "CANCELLED"

\* transition(from, event) = Ok(to)
Transition(from, event, to) ==
  /\ from \in AcceptedIn(event)
  /\ to = Target(event)

Open     == {"WAITING", "CHALLENGING", "CONNECTING", "PLAYING"}
Terminal == {"FINISHED", "CANCELLED"}
=============================================================================
