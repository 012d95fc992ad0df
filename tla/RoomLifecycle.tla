--------------------------- MODULE RoomLifecycle ---------------------------
(***************************************************************************)
(* The server's database of rooms, challenges, match attempts, launch      *)
(* grants and native process records, as the HTTP handlers and the         *)
(* deadline reconciler change it.                                          *)
(*                                                                         *)
(* A handler runs one database transaction that first locks the room row   *)
(* (SELECT ... FOR UPDATE), so a committed transaction is one action, and  *)
(* a transaction that returns an error, or that the database aborts, is    *)
(* rolled back and changes nothing.  Requests of any two users interleave  *)
(* in any order; any request may be repeated or never made.                *)
(*                                                                         *)
(* Time is abstracted to whether a stored deadline is still ahead or has   *)
(* passed.  Different timers pass in any order, except that a challenge    *)
(* and its room get the same five minute deadline from one now().          *)
(***************************************************************************)
EXTENDS RoomState, Naturals, FiniteSets

CONSTANTS
  USERS,   \* registered users
  GAMES,   \* rows of the games table
  ROOMS,   \* room identifiers: bounds how many rooms are ever created
  NULL     \* an absent column value

ASSUME NullAssumption == NULL \notin USERS /\ NULL \notin GAMES

MaxPlayers == 2

VARIABLES
  room,        \* rooms.state, "NONE" before the row is inserted
  host,        \* rooms.host_user_id
  game,        \* rooms.game_id
  due,         \* rooms.state_deadline_at: "none" (NULL), "running" or "past"
  members,     \* room_members of each room
  attempt,     \* match_attempts.state of the room's one attempt
  challenge,   \* challenges.state of the room's challenge, "NONE" without one
  challenged,  \* challenges.challenged_id (the challenger is the host)
  stale,       \* challenges.expires_at has passed
  invites,     \* rooms with an unexpired and unconsumed invite
  issued,      \* per room: users holding an unexpired, unconsumed launch grant
  consumed,    \* per room: users with an unexpired, consumed launch grant
  launched,    \* per room: users with a match_runtime_participants row
  ended,       \* per room: the launched users whose ended_at is set
  match,       \* the room's matches row: "none", "open" or "ended"
  receipts     \* per room: users who created a continuation receipt from it

roomVars      == <<room, host, game, due, members, attempt>>
challengeVars == <<challenge, challenged, stale>>
grantVars     == <<issued, consumed>>
nativeVars    == <<launched, ended, match>>
vars == <<roomVars, challengeVars, invites, grantVars, nativeVars, receipts>>

AttemptStates   == {"ACTIVE", "SUCCEEDED", "FAILED", "CANCELLED", "EXPIRED"}
ChallengeStates == {"PENDING", "ACCEPTED", "DECLINED", "CANCELLED", "EXPIRED"}

TypeOK ==
  /\ room       \in [ROOMS -> RoomStates \union {"NONE"}]
  /\ host       \in [ROOMS -> USERS \union {NULL}]
  /\ game       \in [ROOMS -> GAMES \union {NULL}]
  /\ due        \in [ROOMS -> {"none", "running", "past"}]
  /\ members    \in [ROOMS -> SUBSET USERS]
  /\ attempt    \in [ROOMS -> AttemptStates \union {"NONE"}]
  /\ challenge  \in [ROOMS -> ChallengeStates \union {"NONE"}]
  /\ challenged \in [ROOMS -> USERS \union {NULL}]
  /\ stale      \in [ROOMS -> BOOLEAN]
  /\ invites    \subseteq ROOMS
  /\ issued     \in [ROOMS -> SUBSET USERS]
  /\ consumed   \in [ROOMS -> SUBSET USERS]
  /\ launched   \in [ROOMS -> SUBSET USERS]
  /\ ended      \in [ROOMS -> SUBSET USERS]
  /\ match      \in [ROOMS -> {"none", "open", "ended"}]
  /\ receipts   \in [ROOMS -> SUBSET USERS]

Init ==
  /\ room       = [r \in ROOMS |-> "NONE"]
  /\ host       = [r \in ROOMS |-> NULL]
  /\ game       = [r \in ROOMS |-> NULL]
  /\ due        = [r \in ROOMS |-> "none"]
  /\ members    = [r \in ROOMS |-> {}]
  /\ attempt    = [r \in ROOMS |-> "NONE"]
  /\ challenge  = [r \in ROOMS |-> "NONE"]
  /\ challenged = [r \in ROOMS |-> NULL]
  /\ stale      = [r \in ROOMS |-> FALSE]
  /\ invites    = {}
  /\ issued     = [r \in ROOMS |-> {}]
  /\ consumed   = [r \in ROOMS |-> {}]
  /\ launched   = [r \in ROOMS |-> {}]
  /\ ended      = [r \in ROOMS |-> {}]
  /\ match      = [r \in ROOMS |-> "none"]
  /\ receipts   = [r \in ROOMS |-> {}]

-----------------------------------------------------------------------------
(* Helpers *)

\* The rooms a handler closes with
\* WHERE host_user_id = u AND game_id = g AND state = 'WAITING'.
WaitingRooms(u, g) == {r \in ROOMS : room[r] = "WAITING" /\ host[r] = u /\ game[r] = g}

\* UPDATE match_attempts SET state = outcome ... WHERE state = 'ACTIVE'
\* Mutant: without the WHERE.
Settle_Always(old, outcome) == outcome

Settle(old, outcome) == IF old = "ACTIVE" THEN outcome ELSE old

\* UPDATE matches SET ended_at = COALESCE(ended_at, now())
EndMatch(old) == IF old = "open" THEN "ended" ELSE old

\* require_pending
PendingAndFresh(r) == challenge[r] = "PENDING" /\ ~stale[r]

\* What accept_challenge requires of the challenge and its room.
\* Mutant: the room's state is not looked at.
Answerable_AnyRoom(r) == PendingAndFresh(r)

Answerable(r) == PendingAndFresh(r) /\ room[r] = "CHALLENGING"

\* What accept_room and join_invite require of the room and the user.
\* Mutant: the host may take the second seat.
MayJoin_Host(u, r) ==
  room[r] \in AcceptedIn("Accept") /\ Cardinality(members[r]) < MaxPlayers

MayJoin(u, r) ==
  /\ host[r] # u
  /\ room[r] \in AcceptedIn("Accept")
  /\ Cardinality(members[r]) < MaxPlayers

\* count(*) of the recorded users equals the count of two members.
\* Mutant: the first record is enough.
BothMembers_First(r, recorded) == Cardinality(members[r]) = 2 /\ recorded # {}

BothMembers(r, recorded) ==
  Cardinality(members[r]) = 2 /\ Cardinality(recorded) = Cardinality(members[r])

\* rooms.state once room r moves to state while the rooms in closed are cancelled.
\* Mutant: the rooms in closed stay as they are.
MoveRoom_Only(r, state, closed) == room' = [room EXCEPT ![r] = state]

MoveRoom(r, state, closed) ==
  room' = [x \in ROOMS |-> IF x = r THEN state
                           ELSE IF x \in closed THEN "CANCELLED" ELSE room[x]]

\* INSERT INTO rooms, room_members and match_attempts for the unused id r, in a
\* transaction that cancels the rooms in closed and the attempts of settled.
InsertRoom(u, g, r, state, closed, settled) ==
  /\ room[r] = "NONE"
  /\ MoveRoom(r, state, closed)
  /\ host'    = [host EXCEPT ![r] = u]
  /\ game'    = [game EXCEPT ![r] = g]
  /\ due'     = [due EXCEPT ![r] = "running"]
  /\ members' = [members EXCEPT ![r] = {u}]
  /\ attempt' = [x \in ROOMS |-> IF x = r THEN "ACTIVE"
                                 ELSE IF x \in settled THEN Settle(attempt[x], "CANCELLED")
                                 ELSE attempt[x]]

\* Mutant: the room keeps no deadline while it connects.
SeatGuest_NoDeadline(u, r, closed, undated) ==
  /\ MoveRoom(r, Target("Accept"), closed)
  /\ members' = [members EXCEPT ![r] = @ \union {u}]
  /\ due'     = [x \in ROOMS |-> IF x = r \/ x \in undated THEN "none" ELSE due[x]]
  /\ attempt' = [x \in ROOMS |-> IF x \in closed THEN Settle(attempt[x], "CANCELLED")
                                 ELSE attempt[x]]
  /\ UNCHANGED <<host, game>>

\* Mutant: the attempts of the rooms in closed stay as they are.
SeatGuest_Unsettled(u, r, closed, undated) ==
  /\ MoveRoom(r, Target("Accept"), closed)
  /\ members' = [members EXCEPT ![r] = @ \union {u}]
  /\ due'     = [x \in ROOMS |-> IF x = r THEN "running"
                                 ELSE IF x \in undated THEN "none" ELSE due[x]]
  /\ UNCHANGED <<host, game, attempt>>

\* u takes the second seat of r; the rooms in closed and their attempts are
\* cancelled, and those in undated lose their deadline as well.
SeatGuest(u, r, closed, undated) ==
  /\ MoveRoom(r, Target("Accept"), closed)
  /\ members' = [members EXCEPT ![r] = @ \union {u}]
  /\ due'     = [x \in ROOMS |-> IF x = r THEN "running"
                                 ELSE IF x \in undated THEN "none" ELSE due[x]]
  /\ attempt' = [x \in ROOMS |-> IF x \in closed THEN Settle(attempt[x], "CANCELLED")
                                 ELSE attempt[x]]
  /\ UNCHANGED <<host, game>>

-----------------------------------------------------------------------------
(* Opening a room *)

\* create_room.  A host who has a waiting room of this game is answered with
\* that room, which changes nothing; the partial unique index on waiting rooms
\* makes the second of two concurrent inserts take that path too.
CreateRoom(u, g, r) ==
  /\ WaitingRooms(u, g) = {}
  /\ InsertRoom(u, g, r, "WAITING", {}, {})
  /\ UNCHANGED <<challengeVars, invites, grantVars, nativeVars, receipts>>

\* create_invite reads host and state WAITING, and inserts the code later and
\* outside any transaction: by then the room may be in any state.
CreateInvite(r) ==
  /\ room[r] # "NONE" /\ challenged[r] = NULL
  /\ invites' = invites \union {r}
  /\ UNCHANGED <<roomVars, challengeVars, grantVars, nativeVars, receipts>>

\* create_match_receipt for the finished room src, whose evidence pair verified:
\* the caller's waiting rooms of the game are cancelled (their match_attempts
\* rows are not touched) and a new waiting room with an invite is opened.
CreateMatchReceipt(u, src, r) ==
  /\ room[src] = "FINISHED" /\ u \in members[src] /\ u \notin receipts[src]
  /\ InsertRoom(u, game[src], r, "WAITING", WaitingRooms(u, game[src]), {})
  /\ invites'  = invites \union {r}
  /\ receipts' = [receipts EXCEPT ![src] = @ \union {u}]
  /\ UNCHANGED <<challengeVars, grantVars, nativeVars>>

-----------------------------------------------------------------------------
(* Taking the second seat *)

\* accept_room: it never looks at the challenge of the room.
AcceptRoom(u, r) ==
  /\ MayJoin(u, r)
  /\ SeatGuest(u, r, {}, {})
  /\ UNCHANGED <<challengeVars, invites, grantVars, nativeVars, receipts>>

\* join_invite: the code is used up; another code of the same room may remain.
JoinInvite(u, r) ==
  LET closed == WaitingRooms(u, game[r]) IN
  /\ r \in invites
  /\ MayJoin(u, r)
  /\ SeatGuest(u, r, closed, closed)
  /\ invites' \in {invites, invites \ {r}}
  /\ UNCHANGED <<challengeVars, grantVars, nativeVars, receipts>>

\* An invite's fifteen minutes pass.
InviteExpires(r) ==
  /\ r \in invites
  /\ invites' = invites \ {r}
  /\ UNCHANGED <<roomVars, challengeVars, grantVars, nativeVars, receipts>>

-----------------------------------------------------------------------------
(* Challenges *)

\* create_challenge by u to v.  The sweep of expired challenges and the
\* cancelled waiting rooms are part of the transaction; a pending challenge of
\* the same pair makes the partial unique index roll all of it back.
CreateChallenge(u, v, g, r) ==
  LET closed == WaitingRooms(u, g) IN
  /\ u # v
  /\ ~ \E x \in ROOMS : PendingAndFresh(x) /\ host[x] = u /\ challenged[x] = v
  /\ InsertRoom(u, g, r, "CHALLENGING", closed, closed)
  /\ challenge'  = [x \in ROOMS |-> IF x = r THEN "PENDING"
                                    ELSE IF challenge[x] = "PENDING" /\ stale[x] THEN "EXPIRED"
                                    ELSE challenge[x]]
  /\ challenged' = [challenged EXCEPT ![r] = v]
  /\ stale'      = [stale EXCEPT ![r] = FALSE]
  /\ UNCHANGED <<invites, grantVars, nativeVars, receipts>>

\* accept_challenge; a challenge that is already ACCEPTED is only reported.
AcceptChallenge(u, r) ==
  /\ challenged[r] = u
  /\ Answerable(r)
  /\ SeatGuest(u, r, WaitingRooms(u, game[r]), {})
  /\ challenge' = [challenge EXCEPT ![r] = "ACCEPTED"]
  /\ UNCHANGED <<challenged, stale, invites, grantVars, nativeVars, receipts>>

\* resolve_challenge, as the challenged user's decline and the challenger's
\* cancel: the room is cancelled whatever state it is in.
ResolveChallenge(u, r, resolution) ==
  /\ u = (IF resolution = "CANCELLED" THEN host[r] ELSE challenged[r])
  /\ PendingAndFresh(r)
  /\ challenge' = [challenge EXCEPT ![r] = resolution]
  /\ room'      = [room EXCEPT ![r] = "CANCELLED"]
  /\ due'       = [due EXCEPT ![r] = "none"]
  /\ attempt'   = [attempt EXCEPT ![r] = Settle(@, "CANCELLED")]
  /\ UNCHANGED <<host, game, members, challenged, stale, invites, grantVars, nativeVars,
                 receipts>>

-----------------------------------------------------------------------------
(* Launch grants and native processes *)

\* create_launch_grant without campaign_mode.  The ninety seconds of a grant do
\* not extend rooms.state_deadline_at.
IssueGrant(u, r) ==
  /\ room[r] = "CONNECTING"
  /\ u \in members[r] /\ members[r] # {u}
  /\ issued' = [issued EXCEPT ![r] = @ \union {u}]
  /\ UNCHANGED <<roomVars, challengeVars, invites, consumed, nativeVars, receipts>>

\* consume_launch_grant: one UPDATE of one grant row, with no look at the room.
\* The user may hold another unconsumed grant of the room.
ConsumeGrant(u, r) ==
  /\ u \in issued[r]
  /\ consumed' = [consumed EXCEPT ![r] = @ \union {u}]
  /\ issued' \in {issued, [issued EXCEPT ![r] = @ \ {u}]}
  /\ UNCHANGED <<roomVars, challengeVars, invites, nativeVars, receipts>>

\* Ninety seconds pass for the user's unconsumed, or consumed, grants.
GrantExpires(u, r) ==
  /\ \/ /\ u \in issued[r]
        /\ issued' = [issued EXCEPT ![r] = @ \ {u}]
        /\ UNCHANGED consumed
     \/ /\ u \in consumed[r]
        /\ consumed' = [consumed EXCEPT ![r] = @ \ {u}]
        /\ UNCHANGED issued
  /\ UNCHANGED <<roomVars, challengeVars, invites, nativeVars, receipts>>

\* confirm_native_launch, the first report of u; a repeated report of a running
\* process changes nothing and one of an ended process is a conflict.
ConfirmLaunch(u, r) ==
  LET bothLaunched == room[r] = "CONNECTING" /\ BothMembers(r, launched[r] \union {u}) IN
  /\ room[r] \in {"CONNECTING", "PLAYING"}
  /\ u \in members[r] /\ u \notin launched[r]
  /\ u \in consumed[r]
  /\ launched' = [launched EXCEPT ![r] = @ \union {u}]
  /\ issued'   = [issued EXCEPT ![r] = @ \ {u}]
  /\ consumed' = [consumed EXCEPT ![r] = @ \ {u}]
  /\ \/ /\ bothLaunched
        /\ room'  = [room EXCEPT ![r] = Target("Start")]
        /\ due'   = [due EXCEPT ![r] = "running"]
        /\ match' = [match EXCEPT ![r] = IF @ = "none" THEN "open" ELSE @]
     \/ /\ ~bothLaunched
        /\ UNCHANGED <<room, due, match>>
  /\ UNCHANGED <<host, game, members, attempt, challengeVars, invites, ended, receipts>>

\* r leaves the open states: its deadline is cleared and an ACTIVE attempt settled.
CloseRoom(r, state, outcome) ==
  /\ room'    = [room EXCEPT ![r] = state]
  /\ due'     = [due EXCEPT ![r] = "none"]
  /\ attempt' = [attempt EXCEPT ![r] = Settle(@, outcome)]

\* confirm_native_exit.  Before the match started, an exit cancels the room and
\* leaves the peer's record and a pending challenge alone; in a match the second
\* exit finishes it; in a terminal room it is only recorded.
ConfirmExit(u, r) ==
  LET bothEnded == BothMembers(r, ended[r] \union {u}) IN
  /\ room[r] \in {"CONNECTING", "PLAYING", "FINISHED", "CANCELLED"}
  /\ u \in launched[r]
  /\ ended' = [ended EXCEPT ![r] = @ \union {u}]
  /\ \/ /\ room[r] = "CONNECTING"
        /\ CloseRoom(r, Target("Cancel"), "FAILED")
        /\ UNCHANGED match
     \/ /\ room[r] = "PLAYING" /\ bothEnded
        /\ CloseRoom(r, Target("Finish"), "SUCCEEDED")
        /\ match' = [match EXCEPT ![r] = EndMatch(@)]
     \/ /\ room[r] = "PLAYING" /\ ~bothEnded
        /\ UNCHANGED <<room, due, attempt, match>>
     \/ /\ room[r] \in Terminal
        /\ UNCHANGED <<room, due, attempt, match>>
  /\ UNCHANGED <<host, game, members, challengeVars, invites, grantVars, launched, receipts>>

\* change_room_state, for cancel_room and decline_room: any member may do
\* either, whatever the state of the room's challenge.
LeaveRoom(u, r, event) ==
  /\ u \in members[r]
  /\ room[r] \in AcceptedIn(event)
  /\ CloseRoom(r, Target(event), "CANCELLED")
  /\ challenge' = [challenge EXCEPT ![r] = IF @ = "PENDING" THEN "CANCELLED" ELSE @]
  /\ match'     = [match EXCEPT ![r] = EndMatch(@)]
  /\ ended'     = [ended EXCEPT ![r] = launched[r]]
  /\ UNCHANGED <<host, game, members, challenged, stale, invites, grantVars, launched,
                 receipts>>

-----------------------------------------------------------------------------
(* Deadlines *)

\* The clock reaches rooms.state_deadline_at, and the challenge's expires_at
\* with it while the room still has the deadline it got with the challenge.
RoomDeadlinePasses(r) ==
  /\ room[r] \in Open /\ due[r] = "running"
  /\ due'   = [due EXCEPT ![r] = "past"]
  /\ stale' = [stale EXCEPT ![r] = @ \/ room[r] = "CHALLENGING"]
  /\ UNCHANGED <<room, host, game, members, attempt, challenge, challenged, invites,
                 grantVars, nativeVars, receipts>>

\* The clock reaches challenges.expires_at in a room that has moved on.
ChallengeExpires(r) ==
  /\ PendingAndFresh(r) /\ room[r] # "CHALLENGING"
  /\ stale' = [stale EXCEPT ![r] = TRUE]
  /\ UNCHANGED <<roomVars, challenge, challenged, invites, grantVars, nativeVars, receipts>>

Overdue == {r \in ROOMS : room[r] \in Open /\ due[r] = "past"}

\* Mutants: expires_at is not compared; challenges of closed rooms are skipped.
StaleChallenges_Any == {r \in ROOMS : challenge[r] = "PENDING"}
StaleChallenges_OpenRooms ==
  {r \in ROOMS : challenge[r] = "PENDING" /\ stale[r] /\ room[r] \in Open}

StaleChallenges == {r \in ROOMS : challenge[r] = "PENDING" /\ stale[r]}

\* reconcile_expired: one pass handles the challenges in cs and the rooms in rs;
\* batch limits and SKIP LOCKED leave others for a later pass.
Reconcile(cs, rs) ==
  /\ cs \subseteq StaleChallenges /\ rs \subseteq Overdue
  /\ room'      = [r \in ROOMS |-> IF r \in rs THEN "CANCELLED" ELSE room[r]]
  /\ due'       = [r \in ROOMS |-> IF r \in rs THEN "none" ELSE due[r]]
  /\ attempt'   = [r \in ROOMS |-> IF r \in rs THEN Settle(attempt[r], "EXPIRED")
                                   ELSE attempt[r]]
  /\ challenge' = [r \in ROOMS |-> IF r \in cs \/ (r \in rs /\ challenge[r] = "PENDING")
                                   THEN "EXPIRED" ELSE challenge[r]]
  /\ match'     = [r \in ROOMS |-> IF r \in rs THEN EndMatch(match[r]) ELSE match[r]]
  /\ ended'     = [r \in ROOMS |-> IF r \in rs THEN launched[r] ELSE ended[r]]
  /\ UNCHANGED <<host, game, members, challenged, stale, invites, grantVars, launched,
                 receipts>>

-----------------------------------------------------------------------------
RoomRequest(u, r) ==
  \/ \E g \in GAMES : CreateRoom(u, g, r)
  \/ \E src \in ROOMS : CreateMatchReceipt(u, src, r)
  \/ AcceptRoom(u, r)
  \/ JoinInvite(u, r)
  \/ \E event \in {"Cancel", "Decline"} : LeaveRoom(u, r, event)

ChallengeRequest(u, r) ==
  \/ \E v \in USERS, g \in GAMES : CreateChallenge(u, v, g, r)
  \/ AcceptChallenge(u, r)
  \/ \E resolution \in {"DECLINED", "CANCELLED"} : ResolveChallenge(u, r, resolution)

LaunchRequest(u, r) ==
  \/ IssueGrant(u, r)
  \/ ConsumeGrant(u, r)
  \/ ConfirmLaunch(u, r)
  \/ ConfirmExit(u, r)

TimePasses ==
  \E r \in ROOMS :
    \/ RoomDeadlinePasses(r)
    \/ ChallengeExpires(r)
    \/ InviteExpires(r)
    \/ \E u \in USERS : GrantExpires(u, r)

ReconcilePass == \E cs \in SUBSET StaleChallenges, rs \in SUBSET Overdue : Reconcile(cs, rs)

Next ==
  \/ \E u \in USERS, r \in ROOMS :
       RoomRequest(u, r) \/ ChallengeRequest(u, r) \/ LaunchRequest(u, r)
  \/ \E r \in ROOMS : CreateInvite(r)
  \/ TimePasses
  \/ ReconcilePass

Spec == Init /\ [][Next]_vars

\* Deadlines come, and spawn_reconciler runs a pass every fifteen seconds whose
\* batches are ordered by deadline, so that no overdue row is passed over forever.
Fairness ==
  \A r \in ROOMS :
    /\ WF_vars(RoomDeadlinePasses(r))
    /\ WF_vars(ChallengeExpires(r))
    /\ WF_vars(\E cs \in SUBSET StaleChallenges, rs \in SUBSET Overdue :
                 (r \in cs \/ r \in rs) /\ Reconcile(cs, rs))

FairSpec == Spec /\ Fairness

-----------------------------------------------------------------------------
(* Safety *)

\* A room is PLAYING only with both members' native processes recorded, and
\* FINISHED only once both of those processes ended (docs/adr/0004): no order of
\* accepts, launches, exits and expiries by the two users and a third gets a room
\* there with one process, or with the process of somebody who is not a member.
MatchNeedsBothProcesses ==
  \A r \in ROOMS :
    /\ launched[r] \subseteq members[r] /\ ended[r] \subseteq launched[r]
    /\ room[r] = "PLAYING"  => launched[r] = members[r] /\ ended[r] # members[r]
    /\ room[r] = "FINISHED" => ended[r] = members[r]

\* The two seats: once a room has left WAITING and CHALLENGING for a match, the
\* host and exactly one other user sit in it, however many users race for the
\* second seat through accept_room, join_invite and accept_challenge.
TwoSeats ==
  \A r \in ROOMS :
    /\ room[r] \in {"WAITING", "CHALLENGING"} => members[r] = {host[r]}
    /\ room[r] \in {"CONNECTING", "PLAYING", "FINISHED"} =>
         \E guest \in USERS \ {host[r]} : members[r] = {host[r], guest}

\* A room that is still open has an ACTIVE attempt, and a deadline by which the
\* reconciler will find it: no handler loses either on a path that keeps the room
\* open, although eight of them write these columns.
OpenRoomIsTracked ==
  \A r \in ROOMS : room[r] \in Open => attempt[r] = "ACTIVE" /\ due[r] # "none"

\* An attempt recorded as SUCCEEDED really was a match: it started, both
\* processes ended, and the matches row is closed -- whatever happens to the room
\* afterwards.  FAILED is kept for exits before the start.
OutcomeMatchesPlay ==
  \A r \in ROOMS :
    /\ attempt[r] = "SUCCEEDED" => match[r] = "ended" /\ ended[r] = members[r]
    /\ attempt[r] = "FAILED" => match[r] = "none" /\ ended[r] # {}

\* A process that exited before its peer launched can never become part of a
\* match: the exit cancelled the room for good, so a late launch of the peer, or
\* a repeated one of its own, does not start it.
EarlyExitPreventsMatch ==
  \A r \in ROOMS : ended[r] # {} /\ match[r] = "none" => room[r] = "CANCELLED"

\* A room waits in CHALLENGING for an answer that can still be given: its
\* challenge is pending, or has expired together with the room's own deadline.
\* (create_challenge by an unrelated user also expires challenges, without their
\* rooms.)
ChallengingRoomAwaitsAnswer ==
  \A r \in ROOMS : room[r] = "CHALLENGING" =>
    \/ PendingAndFresh(r) /\ due[r] = "running"
    \/ challenge[r] \in {"PENDING", "EXPIRED"} /\ stale[r] /\ due[r] = "past"

\* An ACCEPTED challenge has its challenged user in the room's second seat.
AcceptedChallengeIsSeated ==
  \A r \in ROOMS : challenge[r] = "ACCEPTED" =>
    /\ members[r] = {host[r], challenged[r]}
    /\ room[r] \in {"CONNECTING", "PLAYING", "FINISHED", "CANCELLED"}

\* The partial unique indexes are never at risk from a handler that does not name
\* them: one waiting room per host and game (create_match_receipt inserts without
\* ON CONFLICT) and one challenge per pair that is pending and has not expired (the index
\* counts expired ones, too, which create_challenge settles before it inserts).
OneOfEach ==
  \A r, q \in ROOMS : r # q /\ host[r] = host[q] =>
    /\ game[r] = game[q] => ~(room[r] = "WAITING" /\ room[q] = "WAITING")
    /\ challenged[r] = challenged[q] => ~(PendingAndFresh(r) /\ PendingAndFresh(q))

\* match_attempts is the authoritative outcome of a room: a closed room has a
\* settled attempt, whichever handler closed it, also from another room.  The
\* exception: create_match_receipt cancels the caller's waiting rooms only.
ClosedRoomIsSettled ==
  \A r \in ROOMS : room[r] \in Terminal /\ attempt[r] = "ACTIVE" =>
    /\ members[r] = {host[r]} /\ match[r] = "none"
    /\ \E src \in ROOMS \ {r} : host[r] \in receipts[src] /\ game[src] = game[r]

-----------------------------------------------------------------------------
(* Action properties *)

\* Every change of rooms.state is one transition() allows, except that answering a
\* challenge that accept_room left pending overwrites the state with CANCELLED.
ChangesAreTransitions ==
  [][\A r \in ROOMS : room'[r] # room[r] =>
       \/ room[r] = "NONE"
       \/ \E event \in RoomEvents : Transition(room[r], event, room'[r])
       \/ challenge[r] = "PENDING" /\ challenge'[r] \in {"DECLINED", "CANCELLED"}
    ]_vars

\* A settled attempt keeps its outcome for ever, whichever of exit, cancel,
\* challenge answer and reconciler comes second.
OutcomeIsFinal ==
  [][\A r \in ROOMS : attempt[r] \in AttemptStates \ {"ACTIVE"} => attempt'[r] = attempt[r]]_vars

\* The room state machine of room_state.rs, whose test
\* terminal_states_reject_all_transitions says what its name says, holds of the
\* stored state: a FINISHED or CANCELLED room stays so.
TerminalRoomsStay ==
  [][\A r \in ROOMS : room[r] \in Terminal => room'[r] = room[r]]_vars

-----------------------------------------------------------------------------
(* Liveness *)

\* Whatever its members do or fail to do, every room is over in the end: a
\* crashed client cannot keep a room, nor its peer in it, alive for ever.
EveryRoomCloses == \A r \in ROOMS : room[r] \in Open ~> room[r] \in Terminal

\* Every challenge is answered or expires, also one whose room has moved on.
EveryChallengeIsSettled == \A r \in ROOMS : challenge[r] = "PENDING" ~> challenge[r] # "PENDING"
=============================================================================
