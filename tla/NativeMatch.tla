---------------------------- MODULE NativeMatch ----------------------------
(***************************************************************************)
(* The native part of a match, on both clients at once and against the     *)
(* server of RoomLifecycle: the launch mutation of usePlayableMatch with   *)
(* the tunnel it may start, the emulator and its supervising thread of     *)
(* process.rs with the exit reports, and leaving or quitting.              *)
(*                                                                         *)
(* The model starts where match setup ends: the room is CONNECTING with    *)
(* both members, and both coordinators are "ready".  A player launches at  *)
(* most once: retrying a failed launch puts the coordinator back to        *)
(* "probing", which only a new probe report leaves, and a client that is   *)
(* quit has forgotten its room.  So the coordinator's phase adds nothing   *)
(* to the step of the launch and is left out.  A page that was loaded just *)
(* now has yet to fetch its room, which it needs for a launch.  A request, *)
(* or its reply, may be lost; a request in flight is the step that waits   *)
(* for it.                                                                 *)
(***************************************************************************)
EXTENDS RoomLifecycle

CONSTANTS
  ROOM, HOST, GUEST, GAME,   \* the match: a room, its members and its game
  TUNNELLED,                 \* snapshot.route is "tcp_tunnel"
  LOSSES                     \* how many requests or replies are lost, at most

PLAYERS == {HOST, GUEST}

ASSUME MatchAssumption ==
  /\ ROOM \in ROOMS /\ PLAYERS \subseteq USERS /\ HOST # GUEST /\ GAME \in GAMES
  /\ TUNNELLED \in BOOLEAN /\ LOSSES \in Nat

\* for attempt in 1..=3.  Mutant: a single report.
Attempts_Once == 1

Attempts == 3

VARIABLES
  step,     \* where the launch mutation is
  proc,     \* the emulator and the thread that supervises it
  tries,    \* exit reports the supervisor has left
  early,    \* the emulator ended before the server had recorded its launch
  call,     \* the exit listener's own finishRoom is under way
  tunnel,   \* a native tunnel task was started and not stopped; it may end by itself
  page,     \* the match page: "open", "left", "dropped" or "quit"
  leaving,  \* the cancelRoom of "Leave match" is under way
  losses

launchVars  == <<step, tunnel>>
processVars == <<proc, tries, early, call>>
pageVars    == <<page, leaving>>
clientVars  == <<launchVars, processVars, pageVars, losses>>
nativeMatchVars == <<vars, clientVars>>

Steps  == {"none", "ticket", "grant", "consume", "spawn", "start", "started", "stop", "undo",
           "done", "failed"}
Processes == {"none", "running", "exited", "reaped", "over", "dead"}

NativeTypeOK ==
  /\ step   \in [PLAYERS -> Steps]
  /\ proc   \in [PLAYERS -> Processes]
  /\ tries  \in [PLAYERS -> 0..3]
  /\ early  \in [PLAYERS -> BOOLEAN]
  /\ call   \in [PLAYERS -> BOOLEAN]
  /\ tunnel \in [PLAYERS -> BOOLEAN]
  /\ page    \in [PLAYERS -> {"open", "left", "dropped", "quit"}]
  /\ leaving \in [PLAYERS -> BOOLEAN]
  /\ losses \in 0..LOSSES

\* The room as AcceptRoom leaves it; any earlier history has the same columns.
MatchInit ==
  /\ room       = [r \in ROOMS |-> IF r = ROOM THEN "CONNECTING" ELSE "NONE"]
  /\ host       = [r \in ROOMS |-> IF r = ROOM THEN HOST ELSE NULL]
  /\ game       = [r \in ROOMS |-> IF r = ROOM THEN GAME ELSE NULL]
  /\ due        = [r \in ROOMS |-> IF r = ROOM THEN "running" ELSE "none"]
  /\ members    = [r \in ROOMS |-> IF r = ROOM THEN PLAYERS ELSE {}]
  /\ attempt    = [r \in ROOMS |-> IF r = ROOM THEN "ACTIVE" ELSE "NONE"]
  /\ challenge  = [r \in ROOMS |-> "NONE"]
  /\ challenged = [r \in ROOMS |-> NULL]
  /\ stale      = [r \in ROOMS |-> FALSE]
  /\ invites    = {}
  /\ issued     = [r \in ROOMS |-> {}]
  /\ consumed   = [r \in ROOMS |-> {}]
  /\ launched   = [r \in ROOMS |-> {}]
  /\ ended      = [r \in ROOMS |-> {}]
  /\ match      = [r \in ROOMS |-> "none"]
  /\ receipts   = [r \in ROOMS |-> {}]

NativeInit ==
  /\ MatchInit
  /\ step   = [u \in PLAYERS |-> "none"]
  /\ proc   = [u \in PLAYERS |-> "none"]
  /\ tries  = [u \in PLAYERS |-> 0]
  /\ early  = [u \in PLAYERS |-> FALSE]
  /\ call   = [u \in PLAYERS |-> FALSE]
  /\ tunnel = [u \in PLAYERS |-> FALSE]
  /\ page   = [u \in PLAYERS |-> "open"]
  /\ leaving = [u \in PLAYERS |-> FALSE]
  /\ losses = 0

-----------------------------------------------------------------------------
(* Helpers *)

Goto(u, s) == step' = [step EXCEPT ![u] = s]

Delivered == UNCHANGED losses
Lost == losses < LOSSES /\ losses' = losses + 1

\* What a process's end leaves to its supervisor.
End(u) ==
  /\ proc'  = [proc EXCEPT ![u] = "exited"]
  /\ tries' = [tries EXCEPT ![u] = Attempts]
  /\ early' = [early EXCEPT ![u] = u \notin launched[ROOM]]

\* stop_game: kill the child if it is still in the registry.
\* Mutant: the kill is forgotten.
StopGame_Forgets(u) == UNCHANGED <<proc, tries, early>>

StopGame(u) ==
  \/ proc[u] = "running" /\ End(u)
  \/ proc[u] # "running" /\ UNCHANGED <<proc, tries, early>>

\* The server has a tunnel ticket for a member of a room that is being played.
TicketIssued == room[ROOM] \in {"CONNECTING", "PLAYING"}

\* start_native_tcp_tunnel and stop_native_tcp_tunnel.
TunnelStarts(u) == tunnel' = [tunnel EXCEPT ![u] = TRUE]
TunnelStops(u)  == tunnel' = [tunnel EXCEPT ![u] = FALSE]

-----------------------------------------------------------------------------
(* The launch mutation *)

\* The launch button: ready, and no launch before.
RequestLaunch(u) ==
  /\ page[u] = "open" /\ step[u] = "none"
  /\ Goto(u, IF TUNNELLED THEN "ticket" ELSE "grant")
  /\ UNCHANGED <<vars, tunnel, processVars, pageVars, losses>>

\* nativeTunnelTicket and startNativeTcpTunnel; a failure here leaves no tunnel.
StartTunnel(u) ==
  /\ step[u] = "ticket"
  /\ \/ TicketIssued /\ TunnelStarts(u) /\ Goto(u, "grant")
     \/ Goto(u, "failed") /\ UNCHANGED tunnel
  /\ UNCHANGED <<vars, processVars, pageVars, losses>>

\* createLaunchGrant; a lost request, a refusal and a lost reply look alike.
TakeGrant(u) ==
  /\ step[u] = "grant"
  /\ \/ IssueGrant(u, ROOM) /\ Delivered /\ Goto(u, "consume")
     \/ IssueGrant(u, ROOM) /\ Lost /\ Goto(u, "undo")
     \/ room[ROOM] # "CONNECTING" /\ UNCHANGED vars /\ Delivered /\ Goto(u, "undo")
     \/ UNCHANGED vars /\ Lost /\ Goto(u, "undo")
  /\ UNCHANGED <<tunnel, processVars, pageVars>>

\* consume_launch_grant, in the native command.
UseGrant(u) ==
  /\ step[u] = "consume"
  /\ \/ ConsumeGrant(u, ROOM) /\ Delivered /\ Goto(u, "spawn")
     \/ ConsumeGrant(u, ROOM) /\ Lost /\ Goto(u, "undo")
     \/ u \notin issued[ROOM] /\ UNCHANGED vars /\ Delivered /\ Goto(u, "undo")
     \/ UNCHANGED vars /\ Lost /\ Goto(u, "undo")
  /\ UNCHANGED <<tunnel, processVars, pageVars>>

\* launch_match_for_game and register_child, or a port, a file or a process that
\* is not available.
Spawn(u) ==
  /\ step[u] = "spawn"
  /\ \/ proc' = [proc EXCEPT ![u] = "running"] /\ Goto(u, "start")
     \/ UNCHANGED proc /\ Goto(u, "undo")
  /\ UNCHANGED <<vars, tunnel, tries, early, call, pageVars, losses>>

\* startRoom is answered; until then it is on its way.
Start(u) ==
  /\ step[u] = "start"
  /\ \/ ConfirmLaunch(u, ROOM) /\ Delivered /\ Goto(u, "started")
     \/ ConfirmLaunch(u, ROOM) /\ Lost /\ Goto(u, "stop")
     \/ /\ room[ROOM] \notin {"CONNECTING", "PLAYING"} \/ u \notin consumed[ROOM]
        /\ UNCHANGED vars /\ Delivered /\ Goto(u, "stop")
     \/ UNCHANGED vars /\ Lost /\ Goto(u, "stop")
  /\ UNCHANGED <<tunnel, processVars, pageVars>>

\* The room is fetched again, and the mutation has its data: the pid.
FinishLaunch(u) ==
  /\ step[u] = "started"
  /\ Goto(u, "done")
  /\ UNCHANGED <<vars, tunnel, processVars, pageVars, losses>>

\* The catch of startRoom stops the emulator ...
StopLaunch(u) ==
  /\ step[u] = "stop"
  /\ StopGame(u)
  /\ Goto(u, "undo")
  /\ UNCHANGED <<vars, tunnel, call, pageVars, losses>>

\* ... and, like the catch before it, the tunnel.
UndoLaunch(u) ==
  /\ step[u] = "undo"
  /\ TunnelStops(u)
  /\ Goto(u, "failed")
  /\ UNCHANGED <<vars, processVars, pageVars, losses>>

-----------------------------------------------------------------------------
(* The emulator and its supervisor *)

\* The player closes the emulator, or it crashes.
EmulatorEnds(u) ==
  /\ proc[u] = "running"
  /\ End(u)
  /\ UNCHANGED <<vars, launchVars, call, pageVars, losses>>

\* try_wait has a status.
HasExited(u) == proc[u] = "exited"

\* One attempt of report_native_exit; a refusal counts as a failed attempt.
ReportExit(u) ==
  LET failed == tries' = [tries EXCEPT ![u] = @ - 1] /\
                proc'  = [proc EXCEPT ![u] = IF tries[u] > 1 THEN "exited" ELSE "reaped"]
      answered == tries' = [tries EXCEPT ![u] = 0] /\ proc' = [proc EXCEPT ![u] = "reaped"]
  IN
  /\ HasExited(u)
  /\ \/ ConfirmExit(u, ROOM) /\ Delivered /\ answered
     \/ ConfirmExit(u, ROOM) /\ Lost /\ failed
     \/ u \notin launched[ROOM] /\ UNCHANGED vars /\ Delivered /\ failed
     \/ UNCHANGED vars /\ Lost /\ failed
  /\ UNCHANGED <<launchVars, early, call, pageVars>>

\* The event reaches the listener of a mounted page, which reports once more.
EmitExit(u) ==
  /\ proc[u] = "reaped"
  /\ proc' = [proc EXCEPT ![u] = "over"]
  /\ \/ page[u] = "open" /\ call' = [call EXCEPT ![u] = TRUE]
     \/ page[u] \in {"left", "dropped"} /\ UNCHANGED call
  /\ UNCHANGED <<vars, step, tunnel, tries, early, pageVars, losses>>

\* The listener's finishRoom; its failure is ignored.
FinishRoom(u) ==
  /\ call[u]
  /\ call' = [call EXCEPT ![u] = FALSE]
  /\ \/ ConfirmExit(u, ROOM) /\ (Delivered \/ Lost)
     \/ u \notin launched[ROOM] /\ UNCHANGED vars /\ Delivered
     \/ UNCHANGED vars /\ Lost
  /\ UNCHANGED <<launchVars, proc, tries, early, pageVars>>

-----------------------------------------------------------------------------
(* The page and the application *)

\* The page is unmounted, or shows another room: either stops the tunnel.
CloseAs(u, how) ==
  /\ page' = [page EXCEPT ![u] = how]
  /\ TunnelStops(u)

\* "Leave match" stops an emulator whose launch is complete.  It has nothing to cancel
\* in a room that the page knows to be over, nor in one that it has yet to fetch.
Leave(u) ==
  /\ page[u] = "open" /\ ~leaving[u]
  /\ IF step[u] = "done" THEN StopGame(u) ELSE UNCHANGED <<proc, tries, early>>
  /\ \/ room[ROOM] \in Terminal /\ CloseAs(u, "left") /\ UNCHANGED leaving
     \/ step[u] = "none" /\ CloseAs(u, "dropped") /\ UNCHANGED leaving
     \/ leaving' = [leaving EXCEPT ![u] = TRUE] /\ UNCHANGED <<page, tunnel>>
  /\ UNCHANGED <<vars, step, call, losses>>

\* onDone, for the page that is still there.
Done(u) ==
  \/ page[u] = "open" /\ CloseAs(u, "left")
  \/ page[u] # "open" /\ UNCHANGED <<page, tunnel>>

\* The page stays open when its room could not be cancelled.  Mutant: it is left.
Stays_Not(u) == Done(u)

Stays(u) == UNCHANGED <<page, tunnel>>

\* cancelRoom.
CancelOnLeave(u) ==
  /\ leaving[u]
  /\ leaving' = [leaving EXCEPT ![u] = FALSE]
  /\ \/ LeaveRoom(u, ROOM, "Cancel") /\ Delivered /\ Done(u)
     \/ LeaveRoom(u, ROOM, "Cancel") /\ Lost /\ Stays(u)
     \/ room[ROOM] \notin AcceptedIn("Cancel") /\ UNCHANGED vars /\ Delivered /\ Stays(u)
     \/ UNCHANGED vars /\ Lost /\ Stays(u)
  /\ UNCHANGED <<step, processVars>>

\* A peer accepts another challenge of the player, and the application shows the match
\* of that room instead; nothing cancels this one.
ShowOtherMatch(u) ==
  /\ page[u] = "open"
  /\ CloseAs(u, "dropped")
  /\ UNCHANGED <<vars, step, processVars, leaving, losses>>

\* The application exits: shutdown_all kills the emulator and ends the tunnel, and
\* the supervising threads, coroutines and listeners are gone with the process.
Quit(u) ==
  /\ page[u] # "quit"
  /\ page'   = [page EXCEPT ![u] = "quit"]
  /\ leaving' = [leaving EXCEPT ![u] = FALSE]
  /\ step'   = [step EXCEPT ![u] = "failed"]
  /\ TunnelStops(u)
  /\ proc'   = [proc EXCEPT ![u] = IF @ = "none" THEN "none" ELSE "dead"]
  /\ call'   = [call EXCEPT ![u] = FALSE]
  /\ UNCHANGED <<vars, tries, early, losses>>

-----------------------------------------------------------------------------
LaunchStep(u) ==
  \/ StartTunnel(u) \/ TakeGrant(u) \/ UseGrant(u) \/ Spawn(u) \/ Start(u)
  \/ FinishLaunch(u) \/ StopLaunch(u) \/ UndoLaunch(u)

SupervisorStep(u) == ReportExit(u) \/ EmitExit(u) \/ FinishRoom(u)

PlayerStep(u) ==
  \/ RequestLaunch(u) \/ EmulatorEnds(u)
  \/ Leave(u) \/ CancelOnLeave(u) \/ ShowOtherMatch(u) \/ Quit(u)

\* What the server does by itself: deadlines, and the reconciler.
ServerStep ==
  /\ \/ RoomDeadlinePasses(ROOM)
     \/ \E u \in PLAYERS : GrantExpires(u, ROOM)
     \/ Reconcile({}, {ROOM})
  /\ UNCHANGED clientVars

NativeNext ==
  \/ \E u \in PLAYERS : LaunchStep(u) \/ SupervisorStep(u) \/ PlayerStep(u)
  \/ ServerStep

NativeSpec == NativeInit /\ [][NativeNext]_nativeMatchVars

-----------------------------------------------------------------------------
(* Properties *)

\* "Leave match" leaves no open room behind whose page has fetched it: it closes the
\* page of a room that is over, although the request that cancels the room may fail, be
\* answered late, or meet the peer's launch, exit or own cancellation.  Pages that are
\* "dropped" are closed without one: the room was not fetched yet (Match.tsx:427), or
\* an accepted challenge shows another match (App.tsx:91).  Their rooms stay open until
\* the peer or the deadline closes them.
LeftRoomIsOver == \A u \in PLAYERS : page[u] = "left" => room[ROOM] \in Terminal

\* A match that the server calls FINISHED is played by nobody: both emulators
\* have been started, and have ended.
FinishedMatchIsOver ==
  room[ROOM] = "FINISHED" => \A u \in PLAYERS : proc[u] \notin {"none", "running"}

\* A launch that the player is told has failed leaves no emulator and no tunnel
\* behind, wherever it failed and whatever the player did meanwhile.
FailedLaunchLeavesNothing ==
  \A u \in PLAYERS : step[u] = "failed" => proc[u] # "running" /\ ~tunnel[u]

Reported(u) == proc[u] = "over" /\ ~call[u]

\* The end of an emulator whose launch was on record is on record as well once its
\* reports are through, although fewer reports are lost than are made.
RecordedLaunchEnds ==
  \A u \in PLAYERS : Reported(u) /\ ~early[u] /\ u \in launched[ROOM] => u \in ended[ROOM]

\* What ADR 0004 says: an emulator's end is reported, so that one which ends while
\* the room waits for the peer does not stay on record as running.
ExitIsRecorded ==
  \A u \in PLAYERS : Reported(u) /\ u \in launched[ROOM] => u \in ended[ROOM]
=============================================================================
