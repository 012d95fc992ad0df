----------------------------- MODULE SignalHub -----------------------------
(***************************************************************************)
(* The control WebSocket of the server (apps/server/src/ws.rs) and its hub *)
(* (state.rs): a map from users to the queue of their connection.  A task  *)
(* per connection reads requests, a second one writes the queue to the     *)
(* socket.  Handlers of other connections and REST handlers push to the    *)
(* queue without waiting; a connection waits for room for its own replies. *)
(***************************************************************************)
EXTENDS Integers, Sequences

CONSTANTS
  USERS, CONNS,
  OWNER,   \* the user that ws_handler has authenticated for each connection
  QUEUE,   \* OUTBOUND_QUEUE_CAPACITY
  NONE     \* no connection, no user

ASSUME HubAssumption ==
  OWNER \in [CONNS -> USERS] /\ QUEUE \in Nat \ {0} /\ NONE \notin USERS \union CONNS

VARIABLES
  hub,       \* ws_hub: the connection registered for each user
  phase,     \* where the task of a connection is
  target,    \* the peer a connection is forwarding to
  queue,     \* messages for the writer task
  writer,    \* "none", "running", "closing" (a close is sent) or "ended"
  alive,     \* the client still has the socket
  replaced   \* connections that a newer one of their user has replaced

vars == <<hub, phase, target, queue, writer, alive, replaced>>

TypeOK ==
  /\ hub      \in [USERS -> CONNS \union {NONE}]
  /\ phase    \in [CONNS -> {"unused", "greeting", "open", "routing", "replying",
                             "leaving", "closed", "failed"}]
  /\ target   \in [CONNS -> USERS \union {NONE}]
  /\ \A c \in CONNS : queue[c] \in Seq({"close", "text"}) /\ Len(queue[c]) <= QUEUE
  /\ writer   \in [CONNS -> {"none", "running", "closing", "ended"}]
  /\ alive    \subseteq CONNS /\ replaced \subseteq CONNS

Init ==
  /\ hub    = [u \in USERS |-> NONE]
  /\ phase  = [c \in CONNS |-> "unused"]
  /\ target = [c \in CONNS |-> NONE] /\ queue  = [c \in CONNS |-> << >>]
  /\ writer = [c \in CONNS |-> "none"]
  /\ alive = {} /\ replaced = {}

Goto(c, p) == phase' = [phase EXCEPT ![c] = p]

\* The channel has a receiver as long as the writer task runs.
HasReceiver(c) == c # NONE /\ writer[c] \in {"running", "closing"}

HasRoom(c) == HasReceiver(c) /\ Len(queue[c]) < QUEUE

\* try_send
Pushed(c, m) == IF HasRoom(c) THEN [queue EXCEPT ![c] = Append(@, m)] ELSE queue

-----------------------------------------------------------------------------
(* Opening and closing *)

\* The hub takes the new connection; the previous one is told to close.
Open(c) ==
  LET u == OWNER[c] IN
  /\ phase[c] = "unused"
  /\ hub' = [hub EXCEPT ![u] = c]
  /\ queue' = Pushed(hub[u], "close")
  /\ replaced' = IF hub[u] = NONE THEN replaced ELSE replaced \union {hub[u]}
  /\ writer' = [writer EXCEPT ![c] = "running"]
  /\ alive' = alive \union {c}
  /\ Goto(c, "greeting")
  /\ UNCHANGED target

\* connection.hello; without a writer, the user's entry is removed.
Greet(c) ==
  /\ phase[c] = "greeting"
  /\ \/ /\ HasRoom(c)
        /\ queue' = Pushed(c, "text")
        /\ Goto(c, "open")
        /\ UNCHANGED <<hub, writer>>
     \/ /\ ~HasReceiver(c)
        /\ hub' = [hub EXCEPT ![OWNER[c]] = NONE]
        /\ Goto(c, "failed")
        /\ UNCHANGED <<queue, writer>>
  /\ UNCHANGED <<target, alive, replaced>>

ClientGoes(c) ==
  /\ c \in alive
  /\ alive' = alive \ {c}
  /\ UNCHANGED <<hub, phase, target, queue, writer, replaced>>

\* The end of the stream, an error, a close, or the end of the writer.
Hangup(c) ==
  /\ phase[c] = "open" /\ (c \notin alive \/ ~HasReceiver(c))
  /\ Goto(c, "leaving")
  /\ UNCHANGED <<hub, target, queue, writer, alive, replaced>>

\* remove_if same_channel.  Mutants: whichever channel it is; not at all.
Deregistered_Any(c) == [hub EXCEPT ![OWNER[c]] = NONE]
Deregistered_Not(c) == hub

Deregistered(c) == IF hub[OWNER[c]] = c THEN [hub EXCEPT ![OWNER[c]] = NONE] ELSE hub

Leave(c) ==
  /\ phase[c] = "leaving"
  /\ hub' = Deregistered(c)
  /\ writer' = [writer EXCEPT ![c] = "ended"]
  /\ queue' = [queue EXCEPT ![c] = << >>]
  /\ Goto(c, "closed")
  /\ UNCHANGED <<target, alive, replaced>>

-----------------------------------------------------------------------------
(* Messages *)

\* The writer task.  A client that receives a close answers it and goes; a
\* socket that is gone, or closing, ends the task.
Write(c) ==
  /\ HasReceiver(c) /\ queue[c] # << >>
  /\ IF c \in alive /\ writer[c] = "running"
       THEN /\ queue' = [queue EXCEPT ![c] = Tail(@)]
            /\ IF Head(queue[c]) = "close"
                 THEN writer' = [writer EXCEPT ![c] = "closing"] /\ alive' = alive \ {c}
                 ELSE UNCHANGED <<writer, alive>>
       ELSE /\ queue' = [queue EXCEPT ![c] = << >>]
            /\ writer' = [writer EXCEPT ![c] = "ended"]
            /\ UNCHANGED alive
  /\ UNCHANGED <<hub, phase, target, replaced>>

\* A request: answered at once, or for a peer of the room, whom
\* relay_to_room_members reads from the database.
Read(c) ==
  /\ phase[c] = "open" /\ c \in alive
  /\ \/ Goto(c, "replying") /\ UNCHANGED target
     \/ /\ Goto(c, "routing")
        /\ \E u \in USERS \ {OWNER[c]} : target' = [target EXCEPT ![c] = u]
  /\ UNCHANGED <<hub, queue, writer, alive, replaced>>

Forward(c) ==
  /\ phase[c] = "routing"
  /\ queue' = Pushed(hub[target[c]], "text")
  /\ target' = [target EXCEPT ![c] = NONE]
  /\ Goto(c, "replying")
  /\ UNCHANGED <<hub, writer, alive, replaced>>

\* send_envelope waits for room; it fails without a receiver.
\* Mutant: a reply that cannot be sent keeps the handler in its loop.
Failed_Retry(c) == "replying"

Failed(c) == "leaving"

Reply(c) ==
  /\ phase[c] = "replying"
  /\ \/ /\ HasRoom(c)
        /\ queue' = Pushed(c, "text")
        /\ Goto(c, "open")
     \/ /\ ~HasReceiver(c)
        /\ Goto(c, Failed(c))
        /\ UNCHANGED queue
  /\ UNCHANGED <<hub, target, writer, alive, replaced>>

\* AppState::notify_user, from any REST handler.
NotifyUser(u) ==
  /\ HasRoom(hub[u])
  /\ queue' = Pushed(hub[u], "text")
  /\ UNCHANGED <<hub, phase, target, writer, alive, replaced>>

-----------------------------------------------------------------------------
Task(c) ==
  \/ Greet(c) \/ Hangup(c) \/ Leave(c) \/ Write(c) \/ Read(c) \/ Forward(c) \/ Reply(c)

Next ==
  \/ \E c \in CONNS : Open(c) \/ ClientGoes(c) \/ Task(c)
  \/ \E u \in USERS : NotifyUser(u)

Spec == Init /\ [][Next]_vars

\* Tasks go on when they can; no client is assumed to send or to go.
HubFairness ==
  \A c \in CONNS :
    /\ WF_vars(Greet(c) \/ Hangup(c) \/ Leave(c) \/ Forward(c) \/ Reply(c))
    /\ WF_vars(Write(c))

-----------------------------------------------------------------------------
(* Properties *)

Over(c) == phase[c] \in {"closed", "failed"}

\* An entry of the hub is a connection of its user whose task still runs:
\* no message is queued for a task that is over.
HubIsLive ==
  \A u \in USERS : hub[u] # NONE =>
    OWNER[hub[u]] = u /\ phase[hub[u]] # "unused" /\ ~Over(hub[u])

\* An open connection that no newer one has replaced is in the hub, so that its
\* user is reachable, in whatever order the connections before it end.  The one
\* exception: a replaced connection that fails to greet removes any entry.
OpenIsRegistered ==
  \A c \in CONNS :
    phase[c] \in {"open", "routing", "replying"} /\ c \notin replaced =>
      \/ hub[OWNER[c]] = c
      \/ \E d \in replaced : OWNER[d] = OWNER[c] /\ phase[d] = "failed"

\* The client of a running connection is gone, or it has been told to close.
Told(c) ==
  /\ phase[c] # "unused" /\ ~Over(c)
  /\ c \notin alive \/ \E i \in DOMAIN queue[c] : queue[c][i] = "close"

\* A connection whose client is gone, or that is told to close, ends, also when
\* its queue is full and a reply waits for room in it: the reader never waits for
\* its own writer.  (A replaced connection whose queue is full is not told.  A
\* connection stays told until it ends, and there are finitely many.)
ToldConnectionsEnd == []<>(\A c \in CONNS : ~Told(c))
=============================================================================
