------------------------------ MODULE Snapshot ------------------------------
(***************************************************************************)
(* The room snapshots by which the members of a room follow match setup:   *)
(* how the server builds one, pushes it to both members and returns it,    *)
(* and how the client keeps the newest one and acts on it.                 *)
(*                                                                         *)
(* build_snapshot reads the preflights, the barrier and the newest event   *)
(* revision in three statements outside a transaction, after the commit    *)
(* of the request it answers: other commits fall in between.  A snapshot   *)
(* reaches a client on three ways that do not wait for one another: pushed *)
(* over the socket, as the reply of the client's own command, and as the   *)
(* reply of its room-snapshot query.                                       *)
(*                                                                         *)
(* The model follows the clients of one room.  A client has at most one    *)
(* request of each kind under way.                                         *)
(***************************************************************************)
EXTENDS MatchSetup, Sequences

CONSTANTS
  ROOM,       \* the room whose members are followed
  REVISIONS,  \* how many setup requests are committed, at most
  RESUMES     \* how often a socket reconnects, at most

VARIABLES
  revision,  \* max(room_events.revision) of the room's setup events
  request,   \* per user and kind: the client's HTTP request, or Idle
  pushed,    \* room.snapshot messages on each user's socket
  held,      \* the room-snapshot entry of each user's query cache
  started,   \* the refs preflightStarted and readyStarted that are set
  phase,     \* each user's coordinator: "ready", "launching", "failed" or "probing"
  resumes

snapshotVars == <<revision, request, pushed, held, started, phase, resumes>>
allSnapshotVars == <<allVars, snapshotVars>>

Kinds == {"query", "preflight", "ready"}

-----------------------------------------------------------------------------
(* What a snapshot says *)

\* The rows statement and the barrier statement of build_snapshot.
Rows(r) ==
  [matched     |-> /\ Cardinality(Submitted(r)) = 2
                   /\ \A u, v \in Submitted(r) :
                        preflight[r][u].compatibility = preflight[r][v].compatibility
                   /\ \A u \in Submitted(r) : preflight[r][u].port,
   controllers |-> Cardinality({u \in Submitted(r) : preflight[r][u].controller}),
   ready       |-> Cardinality(Ready(r))]

HasLaunchAt(r) == barrier[r] # "none"

NoRows == [matched |-> FALSE, controllers |-> 0, ready |-> 0]

\* An empty cache, as a snapshot that every other one is newer than.  Fields that
\* setup does not depend on are left out of snapshots.
Nothing == [rows |-> NoRows, launch_at |-> FALSE, revision |-> 0]

Idle == [at |-> "idle", shot |-> Nothing, unsent |-> {}]

SnapshotInit ==
  /\ SetupInit
  /\ revision = 0
  /\ request  = [u \in USERS |-> [k \in Kinds |-> Idle]]
  /\ pushed   = [u \in USERS |-> <<>>]
  /\ held     = [u \in USERS |-> Nothing]
  /\ started  = [u \in USERS |-> {}]
  /\ phase    = [u \in USERS |-> "ready"]
  /\ resumes  = 0

-----------------------------------------------------------------------------
(* The client sends *)

Send(u, k) == request' = [request EXCEPT ![u][k] = [Idle EXCEPT !.at = "sent"]]

\* The room-snapshot query is fetched when the match page opens, and again after
\* every connection.hello, which cancels a fetch that is under way.  What was
\* pushed while the socket was down is lost.
QuerySnapshot(u) ==
  /\ request[u]["query"] = Idle /\ held[u] = Nothing
  /\ Send(u, "query")
  /\ UNCHANGED <<allVars, revision, pushed, held, started, phase, resumes>>

Resume(u) ==
  /\ resumes < RESUMES /\ resumes' = resumes + 1
  /\ pushed' = [pushed EXCEPT ![u] = <<>>]
  /\ Send(u, "query")
  /\ UNCHANGED <<allVars, revision, held, started, phase>>

\* The preflight effect: once per coordinator, in phase "ready".
StartPreflight(u) ==
  /\ phase[u] = "ready" /\ "preflight" \notin started[u]
  /\ started' = [started EXCEPT ![u] = @ \union {"preflight"}]
  /\ Send(u, "preflight")
  /\ UNCHANGED <<allVars, revision, pushed, held, phase, resumes>>

\* The ready effect: once, when the held snapshot shows agreement; no phase is
\* looked at.
StartReady(u) ==
  /\ held[u].rows.matched /\ held[u].rows.controllers = 2
  /\ "ready" \notin started[u] /\ request[u]["ready"] = Idle
  /\ started' = [started EXCEPT ![u] = @ \union {"ready"}]
  /\ Send(u, "ready")
  /\ UNCHANGED <<allVars, revision, pushed, held, phase, resumes>>

\* "Check controllers again", which retries the preflight.
RetryPreflight(u) ==
  /\ phase[u] = "ready" /\ request[u]["preflight"] = Idle
  /\ held[u].rows.matched /\ held[u].rows.controllers < 2
  /\ started' = [started EXCEPT ![u] = {"preflight"}]
  /\ Send(u, "preflight")
  /\ UNCHANGED <<allVars, revision, pushed, held, phase, resumes>>

\* "Retry match setup": a new probe would be needed to get from "probing" to "ready".
ResetCoordinator(u) ==
  /\ phase[u] = "failed"
  /\ phase'   = [phase EXCEPT ![u] = "probing"]
  /\ started' = [started EXCEPT ![u] = {}]
  /\ UNCHANGED <<allVars, revision, request, pushed, held, resumes>>

-----------------------------------------------------------------------------
(* The server commits, builds and notifies *)

\* A setup transaction of u commits together with its row in room_events.
Commit(u, k) ==
  /\ revision' = revision + 1
  /\ request' = [request EXCEPT ![u][k].at = "rows"]

\* submit_preflight and ready_to_launch.
CommitPreflight(u) ==
  /\ request[u]["preflight"].at = "sent" /\ revision < REVISIONS
  /\ \E row \in Preflights : SubmitPreflight(u, ROOM, row)
  /\ Commit(u, "preflight")
  /\ UNCHANGED <<pushed, held, started, phase, resumes>>

CommitReady(u) ==
  /\ request[u]["ready"].at = "sent" /\ revision < REVISIONS
  /\ ReadyToLaunch(u, ROOM)
  /\ Commit(u, "ready")
  /\ UNCHANGED <<pushed, held, started, phase, resumes>>

\* room_snapshot has nothing to commit.
AcceptQuery(u) ==
  /\ request[u]["query"].at = "sent" /\ u \in members[ROOM]
  /\ request' = [request EXCEPT ![u]["query"].at = "rows"]
  /\ UNCHANGED <<allVars, revision, pushed, held, started, phase, resumes>>

\* The three reads of build_snapshot.
ReadRows(u, k) ==
  /\ request[u][k].at = "rows"
  /\ request' = [request EXCEPT ![u][k] =
                   [@ EXCEPT !.at = "barrier", !.shot.rows = Rows(ROOM)]]
  /\ UNCHANGED <<allVars, revision, pushed, held, started, phase, resumes>>

ReadBarrier(u, k) ==
  /\ request[u][k].at = "barrier"
  /\ request' = [request EXCEPT ![u][k] =
                   [@ EXCEPT !.at = "revision",
                             !.shot.launch_at = HasLaunchAt(ROOM)]]
  /\ UNCHANGED <<allVars, revision, pushed, held, started, phase, resumes>>

ReadRevision(u, k) ==
  /\ request[u][k].at = "revision"
  /\ request' = [request EXCEPT ![u][k] =
                   [@ EXCEPT !.at = "notify", !.shot.revision = revision,
                             !.unsent = IF k = "query" THEN {} ELSE members[ROOM]]]
  /\ UNCHANGED <<allVars, revision, pushed, held, started, phase, resumes>>

\* notify_members, one member after the other.
Notify(u, k, m) ==
  /\ request[u][k].at = "notify" /\ m \in request[u][k].unsent
  /\ pushed'  = [pushed EXCEPT ![m] = Append(@, request[u][k].shot)]
  /\ request' = [request EXCEPT ![u][k].unsent = @ \ {m}]
  /\ UNCHANGED <<allVars, revision, held, started, phase, resumes>>

-----------------------------------------------------------------------------
(* The client receives *)

Answered(u, k) == request' = [request EXCEPT ![u][k] = Idle]

\* newestSnapshot.
Newest(current, incoming) == IF incoming.revision >= current.revision THEN incoming ELSE current

TakePush(u) ==
  /\ pushed[u] # <<>>
  /\ held'   = [held EXCEPT ![u] = Newest(@, Head(pushed[u]))]
  /\ pushed' = [pushed EXCEPT ![u] = Tail(@)]
  /\ UNCHANGED <<allVars, revision, request, started, phase, resumes>>

\* A reply goes into the cache as it is, whichever snapshot is there.
TakeReply(u, k) ==
  /\ request[u][k].at = "notify" /\ request[u][k].unsent = {}
  /\ held' = [held EXCEPT ![u] = request[u][k].shot]
  /\ Answered(u, k)
  /\ UNCHANGED <<allVars, revision, pushed, started, phase, resumes>>

\* The server refuses a command, or its reply is lost: the coordinator fails.
Refused(u, k) ==
  \/ request[u][k].at = "sent" /\ ~SetupOpen(u, ROOM)
  \/ k = "ready" /\ request[u][k].at = "sent" /\ ~Agreed(ROOM)
  \/ request[u][k].at = "notify" /\ request[u][k].unsent = {}

TakeError(u, k) ==
  /\ k # "query" /\ Refused(u, k)
  /\ phase' = [phase EXCEPT ![u] = "failed"]
  /\ Answered(u, k)
  /\ UNCHANGED <<allVars, revision, pushed, held, started, resumes>>

\* canLaunch: launch_at has passed on the client's own clock.
CanLaunch(u) == held[u].rows.matched /\ held[u].rows.ready = 2 /\ held[u].launch_at

\* The launch button, as far as the grant.
TakeGrant(u) ==
  /\ phase[u] = "ready" /\ CanLaunch(u)
  /\ \/ IssueCampaignGrant(u, ROOM) /\ phase' = [phase EXCEPT ![u] = "launching"]
     \/ UNCHANGED allVars /\ phase' = [phase EXCEPT ![u] = "failed"]
  /\ UNCHANGED <<revision, request, pushed, held, started, resumes>>

-----------------------------------------------------------------------------
Client(u) ==
  /\ u \in members[ROOM] /\ members[ROOM] # {u}
  /\ \/ QuerySnapshot(u) \/ Resume(u)
     \/ StartPreflight(u) \/ StartReady(u) \/ RetryPreflight(u) \/ ResetCoordinator(u)
     \/ TakePush(u) \/ TakeGrant(u)
     \/ \E k \in Kinds : TakeReply(u, k) \/ TakeError(u, k)

Server(u) ==
  \/ CommitPreflight(u) \/ CommitReady(u) \/ AcceptQuery(u)
  \/ \E k \in Kinds :
       \/ ReadRows(u, k) \/ ReadBarrier(u, k) \/ ReadRevision(u, k)
       \/ \E m \in USERS : Notify(u, k, m)

\* What else happens to the room and its grants.
Elsewhere ==
  /\ \/ \E u \in USERS, r \in ROOMS :
          RoomRequest(u, r) \/ ChallengeRequest(u, r) \/ ConsumeGrant(u, r)
            \/ ConfirmLaunch(u, r) \/ ConfirmExit(u, r)
     \/ \E r \in ROOMS : CreateInvite(r)
     \/ TimePasses
     \/ ReconcilePass
  /\ UNCHANGED <<setupVars, snapshotVars>>

SnapshotNext ==
  \/ \E u \in USERS : Client(u) \/ Server(u)
  \/ \E r \in ROOMS : LaunchTimeComes(r) /\ UNCHANGED snapshotVars
  \/ Elsewhere

SnapshotSpec == SnapshotInit /\ [][SnapshotNext]_allSnapshotVars

-----------------------------------------------------------------------------
\* docs/adr/0005: "Clients resume active rooms from durable snapshots and ignore
\* stale revisions."
StaleRevisionsAreIgnored ==
  [][\A u \in USERS : held'[u].revision >= held[u].revision]_allSnapshotVars
=============================================================================
