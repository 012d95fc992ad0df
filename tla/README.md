# OpenCade: specifications, model checking and proofs

OpenCade lets two players agree on a match, verifies that their machines can play
it together, and starts an emulator on both. The server decides and records what
happened (accounts, rooms, challenges, match attempts, evidence), the desktop clients
do it (probes, emulators, tunnels), and a relay carries packets when the peers cannot
reach each other. This directory holds TLA+ modules for the parts in which several
actors act at once, TLC configurations for small instances, and TLAPS proofs.

1. The system and its hard behaviours
2. Modules: how state and actions correspond to the code
3. Runs: what each one shows, its bounds, its fairness
4. Proofs
5. Findings, and known deviations
6. What is not modelled; the plan
7. How to run

## 1. The system

| Part | State | Operations | How it interacts |
|---|---|---|---|
| Room lifecycle (`apps/server`: rooms.rs, challenges.rs, room_state.rs, part of alpha.rs, lifecycle.rs) | tables rooms, room_members, challenges, match_attempts, room_invites, match_launch_grants, match_runtime_participants, matches | create, invite, join, accept, challenge, answer, grant, consume, confirm launch, confirm exit, cancel, receipt | one transaction per request, room row locked first; a reconciler every 15 s |
| Match setup (alpha.rs, rooms.rs) | match_preflights, room_launch_barriers | submit a preflight, declare ready, ask for a campaign grant | reads and extends the lifecycle's rooms |
| Snapshots (alpha.rs, usePlayableMatch.ts, App.tsx, snapshot.ts) | none of the server's own; the client's cached snapshot | three reads, a push, two replies; keep the newest | follow the setup of a room |
| Control WebSocket (ws.rs, state.rs) | hub: a bounded queue per user | connect, forward to the room's peer, notify, disconnect | REST handlers push notices; clients forward endpoints |
| Accounts, sessions, limits (auth.rs, authn.rs, auth_rate_limit.rs) | users, sessions, the limiter's map, a semaphore | register, log in, log out, authorize, limit | a session opens a control WebSocket |
| LAN probe orchestration (useLanMatchProbe.ts, ws.ts, match_probe.rs) | React state, the native slot per room | reserve a socket, exchange endpoints, probe, fall back to the relay, retry | over the control WebSocket |
| Readiness probe (`packages/networking`: traversal.rs, probe.rs) | frame number, transcript checksum | hole punch, lockstep of numbered frames, linger | UDP or relay |
| Relay (`services/relay`) | buckets of two connections, used ticket nonces | admit, replace, broadcast, expire, leave | tickets signed by the server |
| Native tunnel (tunnel.rs, tcp_tunnel.rs) | a task per room, the byte stream | start, stop, read, write, end | one relay connection per task |
| Native match on the client (usePlayableMatch.ts, Match.tsx, process.rs) | launch mutation, child process, supervising thread | launch, report an exit, leave, quit | requests to the lifecycle's handlers |
| Evidence and campaign (alpha_evidence.rs, report.rs, Match.tsx, parts of alpha.rs) | alpha_evidence, summaries, receipts | build a report, upload, pair, verify, count, receipt | the probe's result and the match's end go in, an invite comes out |
| Route policy and latency, STUN and NAT, adapters, protocol types, pages, operations | see PROJECT.json | | |

What makes each of them correct, and what is hard about it:

* **Lifecycle.** No match without both processes; one guest; one outcome, true and
  final; no room or challenge that stays for ever. Hard because eleven handlers and
  a reconciler, called by two or three users in any order, each update up to five
  tables, some of them for rooms other than the one in the request.
* **Setup and snapshots.** A launch barrier means that both members agree *now*, and
  each client acts on what it last saw. Hard because consent is given in separate
  requests and can be withdrawn, and because a snapshot is read in three statements
  and reaches a client on three ways.
* **Accounts.** A session takes the account's password; an account comes whole; the
  limiter refuses for cause. Hard because handlers are dropped at any await, with a
  permit, an open transaction or an entry of the limiter in hand.
* **Hub, relay, tunnel.** A connection is known exactly while it lives, and a tunnel's
  task can be stopped as long as it works. Hard because the registration of a newer
  connection, the cleanup of the older one, full queues and failing sockets interleave.
* **Exchange.** The endpoint that is shown is the one that is bound; both sides
  probe each other. Hard because effects, their cleanups, native calls and messages
  of several attempts overlap.
* **Probe and evidence.** Both sides compute the same transcript over a network that
  loses, repeats and reorders; what both upload later, possibly after another probe
  and lost replies, verifies as a pair and is counted once.
* **Native match.** Nothing runs that nobody knows of, and nothing is on record that
  does not run. Hard because three concurrent senders of one client (the launch, the
  supervisor, the exit listener) talk to a server that another client changes.

PROJECT.json lists the hazards at their lines, with the properties that cover them.

## 2. Modules

    RoomState                     transition() of room_state.rs
      RoomLifecycle               + MCRoomLifecycle, RoomLifecycle_proofs
        MatchSetup                + MCMatchSetup, MatchSetup_proofs     implements RoomLifecycle
          Snapshot                + MCSnapshot                          implements MatchSetup (its
                                                                        theorems: MatchSetup_proofs)
        NativeMatch               + MCNativeMatch, NativeMatch_proofs   takes RoomLifecycle's steps
    ProbeAgreement                what the probe promises
    MatchProbe                    implements ProbeAgreement
      Evidence                    + MCEvidence, Evidence_proofs         (MatchProbe's proofs, too)
    Relay                         + Relay_proofs
      Tunnel                      + MCTunnel, Tunnel_proofs             implements Relay
    SignalHub
      Accounts                    + MCAccounts, Accounts_proofs         (SignalHub's proofs, too)
    EndpointExchange              + EndpointExchange_proofs

**RoomLifecycle.** A variable per column that control depends on, a function over
room ids; `room` is `rooms.state`, `due` is `state_deadline_at` reduced to *none*,
*running* or *past*. Each handler is one transaction and one action, everything it
updates included: `CreateRoom`, `CreateInvite`, `CreateMatchReceipt`, `AcceptRoom`,
`JoinInvite`, `CreateChallenge`, `AcceptChallenge`, `ResolveChallenge`, `IssueGrant`,
`ConsumeGrant`, `ConfirmLaunch`, `ConfirmExit`, `LeaveRoom`; `Reconcile` is one pass
of the reconciler over any batch, and the timers are `RoomDeadlinePasses`,
`ChallengeExpires`, `InviteExpires`, `GrantExpires`. An error is a request that was
never made. `create_invite` is not transactional: it reads the room and inserts
later, so `CreateInvite` does not look at the state. A transaction that PostgreSQL
aborts (two handlers lock room and challenge in opposite orders) changes nothing.

**MatchSetup** adds preflights and the barrier. The desktop client always asks for
its grant in campaign mode, so `IssueCampaignGrant` takes the place of `IssueGrant`;
all other actions are the lifecycle's. That a setup behaviour is a lifecycle
behaviour is a theorem (`SetupImplementsLifecycle`).

**Snapshot** follows the two clients of one room through setup: `build_snapshot`'s
reads of the preflights, the barrier and the newest revision are separate steps, other
commits fall in between, and the result travels as a push, as the reply of a command,
or as the reply of the query. A client has one request of each kind under way.

**NativeMatch** runs both clients against the lifecycle's actions, from the room as
`AcceptRoom` leaves it. `step` is the line at which the launch mutation waits
(`RequestLaunch` ... `UndoLaunch`, including the catches), `proc` the child and its
supervisor (`End`, `ReportExit` with its three attempts, `EmitExit`), `call` the
listener's own `finishRoom`. `page` is the match page and `leaving` the `cancelRoom` of
its button: `Leave` and `CancelOnLeave` close the page as *left* when the room is known
to be over or was cancelled; `Leave` closes it as *dropped* when the room was not fetched
yet, and `ShowOtherMatch` when an accepted challenge shows another match. Neither of the
last two cancels anything. `Quit` is the exit of the application. A request is the server's action with the reply
delivered or lost, or no action. A player launches at most once: "Retry match setup"
resets the coordinator to *probing*, which only a new probe report leaves.

**MatchProbe.** `route`, `phase`, `frame`, `transcript` per peer, and `wire`, the
sets of packets in flight that can be received again, in any order, or be lost.
Folding a pair uses the role's order, as the checksum does. **ProbeAgreement** is the
caller's view: a run ends once, and runs of one probe that end with a report have one
checksum, that of the complete transcript.

**Evidence** runs MatchProbe (also again, `RepeatProbe`), launches over the route of
the report, ends the match, and lets each member build and upload its report
(`StartUpload`, `TryUpload` with its retries), or a failure report (`TakeFailure`).
The server keeps one report of each kind per member and attempt, refuses a second one
with another digest, pairs and verifies two match reports, and counts; `ClickReceipt`
asks for the receipt. A report is built at a new time (`exported_at`), so the digests
of two reports are never equal. A request or its reply can be lost.

**Relay.** A handler's steps between its awaits: read the clock and verify, mark the
nonce, join under the bucket's lock, then loop. A frame that was taken from the
socket is held until it is broadcast, while other handlers run. `Read` is still
possible in the second in which the ticket expires, as a timer may fire late.

**Tunnel** puts clients at the relay's connections: a run of `start_native_tcp_tunnel`
with its ticket, the registry of one task per room on a machine (`tasks`), the gate
behind which the spawned task waits until it is registered, the stop, the wait for the
local stream (*local*), for `connect_async` (*dialing*), and the pump between the local
stream and the relay (*piping*). A client that is not `heard` may hear nothing from the
relay, neither an answer to its dial nor the close at expiry. Writing a chunk to the socket and the relay's
`Read` are one step; a socket fails towards the relay only after the task gave it up.

**SignalHub.** Per connection a reading task (`phase`), a writing task (`writer`) and
a bounded queue; pushes from other tasks do not wait, own replies do.

**Accounts** runs the HTTP handlers beside the hub. `step` is the await at which a
handler stands: the limiter's three locked passages, the semaphore, the hashing worker,
the statements of the registration's transaction, the lookup and its answer, the query
behind a relay ticket (`IssueTicket`). `Drop` lets a client go away at any await. The
limiter has none: a thread of the runtime (`WORKERS`) tests the size of the map
(`TestSize`), gives its lock back, and enters the attempt (`Enter`), which first pops
what has left the window from the front (`Front`, `Recent`). A control WebSocket authenticates with the session
of a request. An account is named by its username and a password is right or wrong.

**EndpointExchange.** React's rules are part of the model: `dirty` holds the effects
whose dependencies changed, `Commit` cleans them up and runs them again, and the
coroutine of a cleaned-up effect goes on but drops its results. `slot` is
`MatchProbeState` (`Candidate` is a slot after `match_endpoint_reserve`, `Cancelled` and
`Returns` what the end of a probe does to it); `outbox`, `inbox` and `hub` are the
signalling path.

Which lines each definition stands for is in PROJECT.json under `map`.

## 3. Runs

| Run | Instance | Shows |
|---|---|---|
| `seats` | 1 room, 3 users | all interleavings around the second seat; safety, one outcome, and that rooms close and challenges settle |
| `rivals` | 3 rooms, 2 users | handlers that touch other rooms: unique indexes, challenges of waiting rooms, records of closed rooms |
| `setup` | 1 room, 2 users, 2 fingerprints | a barrier and a grant need present consent |
| `exchange` | per client 1 retry and 1 announcement; 1 lost connection | endpoints backed by sockets, current reports, agreement |
| `evidence` | 2 frames, 1 punch, 1 repeated probe, 2 lost requests, a policy of 1 attempt | pairs on record verify, summaries and counts agree, receipts are verified; the probe's promise and progress; evidence and receipts arrive |
| `tunnel` | 6 settings of 3 connections in 1 or 2 rooms, queues of 2, 2 frames | seats, replacement, replay; frames keep bucket and order; tasks are registered; tunnels end |
| `accounts` | 5 plans of 4 requests and 3 connections, 2 users, limit 1 or 2, 3 keys, 2 threads, 1 permit | sessions take passwords, accounts come whole, refusals have causes; the hub holds live connections only, and all of them; requests and superseded connections end |
| `native` | 2 clients, tunnel, 2 mishaps (lost requests, a dropped page) | failed launches, finished matches, left pages, recorded exits |
| `terminal`, `exchange_hangs`, `native_exit`, `snapshot` | violations | see section 5 |

**Why the bounds are enough.** `seats`: rooms influence each other only through
`WaitingRooms`, the challenge sweep and receipts, which `rivals` covers; three users
are the host, a guest and a competitor, and a fourth would be another competitor.
`rivals`: the sweeps quantify over one other room at a time; the third room is used
for a continuation only (constraint `TwoRivalsOrContinued`), and states with grants
or invites that no action of another room can see are not explored further
(`NoLeftovers`; `seats` explores them). `setup`: nothing writes the setup tables of a
room that is over, so states past one are left to `seats` (`InSetup`); two
fingerprints are equal or not. `exchange`: one retry on each side already overlaps two
attempts. `evidence`: two frames are a first and a last one; one repetition gives a
second probe, whose transcripts could be mixed with the first one's; two losses take
one request and one reply, or both tries of one upload. `ProbeFirst` fixes the order
of steps that have no variable in common: while a run of the probe goes on, what
happens outside it neither reads nor writes what the probe's steps do, so that the
run explores the probe's steps first. `tunnel`: each setting is an initial state; three
connections are an old one, its replacement and a peer, or three users for two seats,
or a user in two rooms, or a ticket presented twice; two of the settings have a client
that hears nothing; the clock reaches the second in which the tickets expire
and the next. `accounts`: each plan is an initial state: an established pair, a new
account, a user with two sessions, rivals with somebody who guesses, and more attempts
than the limit; three tracked keys let a fourth one meet the bound, two threads let both
pass the test of the size before either enters its key, and one permit lets the second
hash wait. `native`: two lost requests are one fewer than the supervisor's
three reports, the most for which `RecordedLaunchEnds` can hold; a page that is dropped
takes the place of one of them, and is the guest's, as no request of a match tells host
from guest (`TwoMishaps`). The proofs cover every number of both, for
`RecordedLaunchEnds` every number of lost requests below the reports'. Symmetry sets are
used only in runs without liveness properties.

**What the compositions merge.** In Accounts the limiter's reading of the clock and its
entry of the attempt are one step, and a WebSocket's upgrade comes with its
authentication. `[]<>` that every connection (or request, or tunnel) has ended is, as
there are finitely many and each is used once, the leads-to of each one.

**Fairness.** `RoomLifecycle`: deadlines pass and each overdue row is reached, because
the reconciler runs every 15 s and orders its batches by deadline; nothing is assumed
of clients. `MatchProbe`: each peer's interval timer retransmits, and a packet sent
again and again arrives some time; `ProbesFinish` assumes `Calm`, that no side gives
up at its deadline first and that one which is done was not needed any more.
`Evidence`: the page starts its upload and its retry by itself; `ReceiptArrives` also
assumes that the player clicks the button, which is what it promises to the player who
does. `Tunnel`: handlers proceed, the clock ticks, an ended task is removed, and the wait
for the local stream has a deadline (tunnel.rs:74, 94). Nothing bounds `connect_async`
(tcp_tunnel.rs:39) or a task that pipes: that these go on is assumed of the clients that
are `heard` only, whose dial is answered and who see the relay's close, and `TunnelsEnd`
claims no more of the others than that the relay's seats are given back. Reading a
client's frame or its end is not assumed. `Accounts`: handlers go on when they can, both tasks of a
connection run; that a write completes means that a client which keeps its socket
reads; no client is assumed to send or to wait. `EndpointExchange`: connecting,
routing, receiving, native calls and commits run.
Deadlock is not checked where an actor may stop for good: matches end, connections
are used up, probes finish.

**Action coverage.** Between them the passing runs fire every action. Each property
has a mutant in PROJECT.json: an operator next to the definition it would replace
(a dropped guard, a missing reset, an off-by-one), which breaks the property.

## 4. Proofs

All are for arbitrary constants under the modules' named assumptions, which say no
more than that null values are not users or games (`NullAssumption`), counts are
natural numbers, positive where the code's are (`FramesAssumption`,
`EvidenceAssumption`, `ExchangeAssumption`), a match has two distinct members
(`MatchAssumption`), and tickets, queues and plans have their types (`RelayAssumption`,
`TunnelAssumption`, `HubAssumption`, `AccountsAssumption`).

* **RoomLifecycle_proofs.** The safety properties are proved together: `IInv` is
  `TypeOK`, seven of them, and `Bookkeeping`. None is inductive alone: that the second
  launch starts a match needs two seats (`TwoSeats`), no earlier exit
  (`EarlyExitPreventsMatch`) and no matches row (`Bookkeeping`); that an exit settles
  the attempt needs it to be ACTIVE (`OpenRoomIsTracked`). The code compares
  `count(*)`s: `CountsCompareSets` shows that with two distinct members the counts
  compare the sets. `InvStep` has one step per action. `OneOfEach` and
  `ClosedRoomIsSettled`, which relate rooms to each other, follow in `RoomsInv` on top
  of `IInv`. The action properties `ChangesAreTransitions` and `OutcomeIsFinal` follow
  from `RoomStep`.
* **MatchSetup_proofs.** Refinement of the lifecycle; then the barrier: consent is
  preserved because a resubmission deletes the barrier and the readiness, and
  `BothReadyConsented` is the strengthening that carries it from the second ready
  request to the grant, which only counts ready rows. Then Snapshot: its clients and
  handlers implement match setup (`SnapshotsImplementSetup`), so that a grant needs
  present consent also when a client launches from a stale snapshot. `ShotsAreSound`
  says of every snapshot, being built, on its way or held, that it is of the past and
  shows two ready members only with their agreement: the rows are read in one statement,
  and `BothReadyConsented` holds at that moment. Hence the launch button, which does not
  look at the controllers, shows with both of them only, and what a client holds is never
  ahead of the server. The hypothesis `ROOM \in ROOMS` says that the followed room is one.
* **NativeMatch_proofs.** Every server action a client causes is a lifecycle step with
  one of four effects on the match's room (`Quiet`, `Launches`, `Exits`, `Closes`); so
  `IInv` is kept by `InvStep` of RoomLifecycle_proofs, and the client part (`ClientInv`,
  `RecordInv`) needs to know nothing else of the server. `RecordedExitsArrive` adds
  `LossInv`: while an end on record as launched is not on record, as many requests were
  lost as reports have failed; it needs `LOSSES < Attempts`.
* **Accounts_proofs.** First the hub: `HubIsLive` and `OpenIsRegistered` from
  `ServedIsRegistered`, what an entry of the hub says of the connection's phase. A step
  of Accounts is a step of the hub or leaves it alone, so both carry over. Then the
  handlers: `AccountsInv` says what each await has established (a verified password, a
  name held by an open transaction); `SignedInByPassword` needs that a handler with an
  unknown account never reaches *insert session*. `PermitsAreGivenBack`: the permits that
  are out are those of handlers that are hashing. Then the limiter. `LimitedForCause` needs
  `AttemptsAreInOrder`: the attempts of a key are in the order of the clock and not ahead
  of it. Popping from the front then drops exactly what has left the window
  (`FrontIsOldestYoung`, by the least index that stays, `MinExists`, for whose existence
  the library's well-founded order of finite subsets is used), and the newest attempt
  tells whether a key is current (`CurrentIsYoung`). A refusal enters no attempt: what
  it leaves is a suffix of what was there (`SuffixIsShorter`). `LimiterIsBounded` is
  about `Pending`, the keys of the map together with those that a thread is about to
  enter: a passed test adds a key when fewer than `MAX_TRACKED_KEYS` are in the map and
  fewer than `WORKERS` are on their way, and everything else only shrinks the set.
* **Relay_proofs.** `SeatInv` for the buckets, `SpentIsRemembered` for replays, and
  `FrameInv` for the frames: a queue holds only frames broadcast in its bucket, in the
  order of each sender. It needs that nobody has seen or queues a frame which its
  reader still holds (`FramesAreReleased`).
* **Tunnel_proofs.** A tunnel's behaviour is a behaviour of the relay
  (`TunnelIsARelayClient`), which brings the relay's theorems along; `TaskInv` gives
  `TunnelsAreRegistered`.
* **Evidence_proofs.** `LockStep` from an invariant that bounds the numbers in flight
  by the sender's frame; `TranscriptsAgree` from the transcript being the one of the
  frame number; with the refinement mapping `RunEnds`, `Reported`, every step of
  MatchProbe is a step or a stutter of ProbeAgreement. Then the evidence: `EvidenceInv`
  adds that both uploads see the same probe, since no probe is repeated while a launch
  is on record (`LaunchIsProbed`), that a match report is built of a finished probe and
  launch (`ReportsAreBuilt`), and that a failure report with a native route is of a
  launch that failed (`FailuresAreTrue`). From it follow that pairs verify, that the
  aggregates agree with the summaries, and that receipts have a verified pair.
* **EndpointExchange_proofs.** `ClientInv` is about one client: the slot a client shows
  is its own, a coroutine of the present attempt was started with the present endpoint,
  and after a reset nothing of it is left. `SessionInv` is about both: nonces travel
  only after they were made, and of two nonces of the two clients, one was made first and
  could be probed with older ones only (`NoCrossing`), so two reports cannot be of two
  crossed sessions. The types are unbounded (`Nat`), so that the bounds of the model
  play no part.

Proved, but checked by no run of their own: the types, `ChangesAreTransitions`,
`EarlyExitPreventsMatch`, `OpenRoomIsTracked`, `BothReadyConsented`, `LockStep`,
`TranscriptsAgree`, `SetupImplementsLifecycle`, `SnapshotsImplementSetup`, `ShotsAreSound`,
`LimiterIsBounded`, `PermitsAreGivenBack`. For the last four and `AttemptsAreInOrder`,
TLC agrees on the instances of `accounts` and `snapshot` (there on the part of the state
space that it reaches).

Only model-checked: all liveness (fairness and ENABLED are outside the prover:
`EveryRoomCloses`, `EveryChallengeIsSettled`, `EvidenceArrives`, `ReceiptArrives`,
`ProbesFinish`, `ToldConnectionsEnd`, `RequestsEnd`, `TunnelsEnd`), and the four
violations. Every other property of a run is a theorem. No module uses RECURSIVE operators.

## 5. Findings and known deviations

Findings, each shown by a run that TLC finds violated:

* `terminal`: `accept_room` seats a guest in a challenged room without answering the
  challenge; declining or cancelling it later writes CANCELLED over a room that is
  PLAYING or FINISHED (challenges.rs:370). `room_state.rs` and its test say that
  terminal states reject all transitions. The attempt's outcome is not rewritten
  (`OutcomeIsFinal`).
* `exchange_hangs`: the preparation effect sets the local endpoint
  (useLanMatchProbe.ts:95), which is one of its own dependencies, while it awaits the
  reply to its announcement; the commit cleans it up, the reply is dropped, and the
  probe never starts although nothing was lost and no error is shown.
* `native_exit`: an emulator that ends while `startRoom` is on its way has every report
  of its exit refused, since its launch is not on record yet, and is put on record as
  running afterwards. The peer's launch makes such a room PLAYING until its deadline;
  docs/adr/0004 says that the exit is reported and cancels the room.
* `snapshot`: the replies of the setup commands and of the room-snapshot query enter the
  cache as they are (usePlayableMatch.ts:53-58, 77, 86); only pushes are compared by
  revision. docs/adr/0005 says that clients ignore stale revisions.

Known deviations, which the properties name or leave out:

*Lifecycle and setup*

* `create_match_receipt` cancels waiting rooms without their attempts (alpha.rs:438);
  `ClosedRoomIsSettled` names the case. docs/ARCHITECTURE.md calls the attempts
  authoritative.
* Two users who cancel a room and answer its challenge at once can lock each other out
  until PostgreSQL aborts one (rooms.rs:892).
* `build_snapshot` can return old rows with a newer revision (alpha.rs:582), which `>=`
  accepts: a client, or both, can be left at "ready 1/2" until the next event.
* An exit before the peer launched cancels the room but does not end the peer's record
  (`ended` stays behind `launched`); launch grants outlive cancelled rooms, which
  `EarlyExitPreventsMatch` shows to be harmless; some handlers cancel waiting rooms and
  leave their deadline, which the reconciler ignores.

*Clients*

* After a failed launch "Retry match setup" (Match.tsx:320) leads to *probing*, which
  nothing leaves; docs/adr/0005 calls failures recoverable.
* The second player to launch receives `room_playing` while its coordinator is
  *launching*, which ignores it; the heading follows the room's state instead.
* A match page can be closed while its room is open: a `challenge.accepted` push for
  another room replaces it without `cancelRoom` (App.tsx:91-97), and "Leave match" skips
  `cancelRoom` while the room is not fetched yet (Match.tsx:426-434). The room stays open
  until the peer or its deadline closes it, an emulator goes on, and a `cancelRoom` that
  was under way when the page was replaced closes the new match's page when it is
  answered (`onDone`). `LeftRoomIsOver` excepts both.
* A player who leaves between the answer to `startRoom` and the end of the mutation
  leaves the emulator running (Match.tsx:419); its exit is still reported.
* An error reply counts as a delivered message (ws.ts:92), a retry after a failed
  reservation does nothing (useLanMatchProbe.ts:231), and a retry clears the peer's
  endpoint, also the new one of a peer that retried first and will not send it again.
  EndpointExchange leaves out the announcement of a report (`match.probe.completed`,
  useLanMatchProbe.ts:193-205), which can show an error beside a report that stands.
* On Windows the hole punch can end with ConnectionReset when the peer's port is not
  open yet (traversal.rs:121). The peer whose punch arrived answers once: if that answer
  is lost, the other side times out (traversal.rs:148).

*Evidence*

* If the reply of an upload is lost, the retry carries a new `exported_at`, hence
  another digest, and is refused with 409 for ever; the receipt button stays disabled
  (Match.tsx:115-137, 341), and the player cannot continue. `ReceiptArrives` speaks of
  uploads that succeeded. docs/adr/0005:19 promises idempotence for identical reports,
  which the client never sends twice.
* The route policy's query does not select the reports of failed probes; a summary
  ignores a mismatch of `native_route`, which a receipt refuses.
* A failure report can arrive after a receipt was given and turn the attempt's summary
  into *evidence_conflict*, as does the retry that docs/alpha/LAN_TEST.md recommends
  after an uploaded failure; a page mounted again after a lost receipt cannot ask for
  its invite again.

*Relay and tunnel*

* The relay drops frames when the peer has not joined yet or its queue is full, though
  tcp_tunnel.rs:15-19 relies on backpressure: the byte stream of a tunnel can have gaps.
  `FramesInOrder` says that what arrives is in order.
* The end of one tunnel is not told to the peer, whose connection the relay closes at the
  ticket's expiry (120 s, rooms.rs:420). A task has no timer of its own for that: if its
  network loses the close it pipes until it is stopped, and so does one dial whose answer
  never comes, since `connect_async` has no timeout (tcp_tunnel.rs:39). A stream faster than the relay's rate limit is closed.
* The held frame of a replaced connection can arrive after its successor's frames.

*Hub and accounts*

* A replaced connection that fails to greet removes the newer one's hub entry
  (ws.rs:107; `OpenIsRegistered` names it); the Close of a replaced connection is
  dropped when its queue is full (ws.rs:83), and two connections of a user stay.
* The limiter's global key is asked first and counts the calls that their own key then
  refuses (auth.rs:95-98, 179-182), so that a user who is turned away uses up the budget
  of all; `LimitedForCause` speaks of the step that refuses.
* `password_semaphore` (state.rs:50) does not bound the hashing of clients that left: a
  dropped handler gives its permit back while the blocking thread goes on.
* `UNIQUE(username)` compares case, the login's lookup does not (`lower()`, LIMIT 1).
* A revoked or expired session keeps the sockets it opened.
* The limiter compares its size with its bound before it inserts, so concurrent calls
  can exceed 4096 keys together (auth_rate_limit.rs:27), by fewer than there are threads
  (`LimiterIsBounded`).

## 6. Not modelled, and the plan

Left out of the modelled parts: `room_events` and notifications (they read what was
committed), relay tickets in the lifecycle, the limit on open challenges, the
coordinator's phases and cached queries in NativeMatch, a webview reload while an
emulator runs, an emulator spawned after `shutdown_all`, reuse of process ids,
failing kills. `crates/proof-of-match` runs the probe's loop between two in-memory
peers and adds nothing to MatchProbe. Route policy is modelled as far as Evidence uses
it (the attempts it asks for); latency ranking and NAT classification are pure
functions over samples. Out of scope as pure I/O, data or presentation: adapters, game
definitions, protocol types, pages, telemetry, operations, the static site.

The order of the work, first the most important behaviour, and where it stands:

1. RoomState, RoomLifecycle, MatchSetup, NativeMatch: modelled, checked, safety proved.
2. MatchProbe, ProbeAgreement, Evidence: modelled, checked, safety and refinement proved.
3. Relay, Tunnel: modelled, checked, safety proved.
4. SignalHub, Accounts: modelled, checked, safety proved.
5. EndpointExchange: modelled, checked, safety proved.
6. Snapshot: modelled; its finding is a run, and that it implements MatchSetup and what
   its snapshots can say are proved. Left: a passing run of what remains true in the end
   (a client that reconnects has the newest snapshot), whose state space is above ten
   million states with two clients.
7. Left: route policy, latency and NAT classification as operators against reference
   definitions; the two lock orders of rooms.rs:892 and challenges.rs as a module of
   their own; the coordinator's phases composed with NativeMatch.

## 7. How to run

    tlc -config RoomLifecycle_seats.cfg MCRoomLifecycle
    tlc -config NativeMatch.cfg MCNativeMatch
    tlapm Evidence_proofs.tla

The module and configuration of every run are in PROJECT.json. On two cores the
longest runs take three minutes (`native`, 4.1 million states) and two (`evidence`, 241
thousand states; `tunnel`, 0.8 million); the proofs take a few minutes each at most.
