------------------------------- MODULE Relay -------------------------------
(***************************************************************************)
(* The relay service (services/relay/src/main.rs): WebSocket connections,  *)
(* admitted by signed single-use tickets, exchange frames inside a bucket  *)
(* of two users (a room and a capability).                                 *)
(*                                                                         *)
(* A handler reads the clock, verifies its ticket and marks the nonce as   *)
(* used in separate steps, registers its connection under the lock of the  *)
(* bucket, and then loops: a frame it has taken from its socket is held    *)
(* until it is broadcast, and other handlers run in between.  A second     *)
(* task per connection sends the queued frames.  Validation, sizes and     *)
(* rates of frames are data: a frame may be forwarded, answered, ignored,  *)
(* or end the connection.                                                  *)
(***************************************************************************)
EXTENDS Integers, Sequences, FiniteSets

CONSTANTS
  TICKETS,   \* records [nonce, room, user, capability, expires]
  CONNS,     \* connection ids
  QUEUE,     \* capacity of the mpsc channel of a connection (64)
  FRAMES,    \* bound: frames a client sends on a connection
  LAST,      \* bound: the last second of the clock
  NONE       \* no connection, no ticket

ASSUME RelayAssumption ==
  /\ QUEUE \in Nat \ {0} /\ FRAMES \in Nat /\ LAST \in Nat
  /\ \A t \in TICKETS : t.expires \in 0 .. LAST - 1
  /\ NONE \notin CONNS \union TICKETS

VARIABLES
  now,        \* SystemTime, in seconds
  used,       \* used_tickets
  registry,   \* rooms: per bucket and user, the registered connection
  ticket,     \* per connection: the ticket it presented
  phase,      \* where the handler of a connection is
  cancelled,  \* connections whose cancel channel has fired
  read,       \* frames taken from the socket of a connection
  queue,      \* per connection: the channel to its send task
  sending,    \* connections whose send task runs
  seen        \* seen[d][c]: the last frame of c that d's client received

vars == <<now, used, registry, ticket, phase, cancelled, read, queue, sending, seen>>
handler == <<ticket, phase, cancelled>>
traffic == <<read, queue, sending, seen>>

Users   == {t.user : t \in TICKETS}

\* The key of the rooms map.  Mutant: probes and tunnels share a bucket.
RoomKey_NoCapability(t) == <<t.room, "any">>

RoomKey(t) == <<t.room, t.capability>>

Buckets == {RoomKey(t) : t \in TICKETS}
Bucket(c) == RoomKey(ticket[c])
User(c)   == ticket[c].user

Entries(b) == {registry[b][u] : u \in Users} \ {NONE}

Frame == [from : CONNS, n : 0 .. FRAMES]

\* A message of the relay itself: a close, a pong or an error.
Control(c) == [from |-> c, n |-> 0]

TypeOK ==
  /\ now       \in 0 .. LAST
  /\ used      \subseteq TICKETS
  /\ registry  \in [Buckets -> [Users -> CONNS \union {NONE}]]
  /\ ticket    \in [CONNS -> TICKETS \union {NONE}]
  /\ phase     \in [CONNS -> {"unused", "verified", "refused", "admitted",
                              "open", "holding", "leaving", "closed"}]
  /\ \A c \in CONNS : ticket[c] = NONE <=> phase[c] = "unused"
  /\ cancelled \subseteq CONNS
  /\ read      \in [CONNS -> 0 .. FRAMES]
  /\ \A c \in CONNS : queue[c] \in Seq(Frame) /\ Len(queue[c]) <= QUEUE
  /\ sending   \subseteq CONNS
  /\ seen      \in [CONNS -> [CONNS -> 0 .. FRAMES]]

Init ==
  /\ now = 0
  /\ used = {}
  /\ registry  = [b \in Buckets |-> [u \in Users |-> NONE]]
  /\ ticket    = [c \in CONNS |-> NONE]
  /\ phase     = [c \in CONNS |-> "unused"]
  /\ cancelled = {}
  /\ read      = [c \in CONNS |-> 0]
  /\ queue     = [c \in CONNS |-> << >>]
  /\ sending   = {}
  /\ seen      = [c \in CONNS |-> [d \in CONNS |-> 0]]

-----------------------------------------------------------------------------
(* Tickets *)

Goto(c, p) == phase' = [phase EXCEPT ![c] = p]

\* The handler reads the clock and verifies signature and expiry.
Verify(c) ==
  /\ phase[c] = "unused"
  /\ \E t \in TICKETS : t.expires >= now /\ ticket' = [ticket EXCEPT ![c] = t]
  /\ Goto(c, "verified")
  /\ UNCHANGED <<now, used, registry, cancelled, traffic>>

\* used_tickets.insert admits the first connection of a nonce.
Redeem(c) ==
  /\ phase[c] = "verified"
  /\ used' = used \union {ticket[c]}
  /\ Goto(c, IF ticket[c] \in used THEN "refused" ELSE "admitted")
  /\ UNCHANGED <<now, registry, ticket, cancelled, traffic>>

\* The client goes away before the upgrade completes; its ticket is spent.
UpgradeFails(c) ==
  /\ phase[c] = "admitted"
  /\ Goto(c, "closed")
  /\ UNCHANGED <<now, used, registry, ticket, cancelled, traffic>>

\* The retain of the cleanup task.  Mutant: tickets are dropped in their
\* last second.
Kept_TooFew(t) == t.expires > now

Kept(t) == t.expires >= now

CleanUp ==
  /\ used' = {t \in used : Kept(t)}
  /\ used' # used
  /\ UNCHANGED <<now, registry, handler, traffic>>

Tick ==
  /\ now < LAST
  /\ now' = now + 1
  /\ UNCHANGED <<used, registry, handler, traffic>>

-----------------------------------------------------------------------------
(* Joining and leaving a bucket *)

\* try_send: a full queue, or one without a receiver, drops the message.
\* Mutant: the newest message goes first.
Enqueue_First(q, f) == IF Len(q) < QUEUE THEN <<f>> \o q ELSE q

Enqueue(q, f) == IF Len(q) < QUEUE THEN Append(q, f) ELSE q

\* Mutant: the limit is not checked.
Full_Never(c) == FALSE

Full(c) == Cardinality(Entries(Bucket(c))) >= 2 /\ registry[Bucket(c)][User(c)] = NONE

\* A user's new connection replaces its previous one.
Join(c) ==
  LET previous == registry[Bucket(c)][User(c)] IN
  /\ phase[c] = "admitted"
  /\ ~Full(c)
  /\ Goto(c, "open")
  /\ registry' = [registry EXCEPT ![Bucket(c)][User(c)] = c]
  /\ cancelled' = IF previous = NONE THEN cancelled ELSE cancelled \union {previous}
  /\ queue' = IF previous \in sending
                THEN [queue EXCEPT ![previous] = Enqueue(@, Control(c))] ELSE queue
  /\ sending' = sending \union {c}
  /\ UNCHANGED <<now, used, ticket, read, seen>>

JoinFull(c) ==
  /\ phase[c] = "admitted"
  /\ Full(c)
  /\ Goto(c, "closed")
  /\ UNCHANGED <<now, used, registry, ticket, cancelled, traffic>>

\* Biased select: a cancelled connection leaves before it reads.
Replaced(c) ==
  /\ phase[c] = "open" /\ c \in cancelled
  /\ Goto(c, "leaving")
  /\ UNCHANGED <<now, used, registry, ticket, cancelled, traffic>>

\* Mutant: the lifetime of the ticket is not enforced.
Elapsed_Never(c) == FALSE

Elapsed(c) == now >= ticket[c].expires

Expire(c) ==
  /\ phase[c] = "open" /\ c \notin cancelled
  /\ Elapsed(c)
  /\ Goto(c, "leaving")
  /\ UNCHANGED <<now, used, registry, ticket, cancelled, traffic>>

\* A close frame, the end of the stream, an error, or too many frames.
Disconnect(c) ==
  /\ phase[c] = "open" /\ c \notin cancelled /\ now <= ticket[c].expires
  /\ Goto(c, "leaving")
  /\ UNCHANGED <<now, used, registry, ticket, cancelled, traffic>>

\* A handler takes only its own connection out of the bucket.
\* Mutant: the user's entry, whosever connection it is.
Departed_Any(c) == [registry EXCEPT ![Bucket(c)][User(c)] = NONE]

Departed(c) ==
  IF registry[Bucket(c)][User(c)] = c
    THEN [registry EXCEPT ![Bucket(c)][User(c)] = NONE] ELSE registry

Leave(c) ==
  /\ phase[c] = "leaving"
  /\ Goto(c, "closed")
  /\ registry' = Departed(c)
  /\ sending' = sending \ {c}
  /\ queue' = [queue EXCEPT ![c] = << >>]
  /\ UNCHANGED <<now, used, ticket, cancelled, read, seen>>

-----------------------------------------------------------------------------
(* Frames *)

\* The timer of the lifetime has fired a second after the ticket's expiry.
CanRead(c) ==
  /\ phase[c] = "open" /\ c \notin cancelled /\ now <= ticket[c].expires
  /\ read[c] < FRAMES

\* A valid frame is held until it is broadcast.
Read(c) ==
  /\ CanRead(c)
  /\ read' = [read EXCEPT ![c] = @ + 1]
  /\ Goto(c, "holding")
  /\ UNCHANGED <<now, used, registry, ticket, cancelled, queue, sending, seen>>

\* An oversized, foreign or malformed frame, or a ping: ignored or answered.
ReadOther(c) ==
  /\ CanRead(c)
  /\ read' = [read EXCEPT ![c] = @ + 1]
  /\ queue' \in {queue, IF c \in sending
                          THEN [queue EXCEPT ![c] = Enqueue(@, Control(c))] ELSE queue}
  /\ UNCHANGED <<now, used, registry, handler, sending, seen>>

\* broadcast_message: to every connection of the bucket but c itself, which
\* includes a newer connection of the same user.
Broadcast(c) ==
  LET to == {d \in Entries(Bucket(c)) : d # c} \intersect sending IN
  /\ phase[c] = "holding"
  /\ Goto(c, "open")
  /\ queue' = [d \in CONNS |->
                 IF d \in to THEN Enqueue(queue[d], [from |-> c, n |-> read[c]])
                             ELSE queue[d]]
  /\ UNCHANGED <<now, used, registry, ticket, cancelled, read, sending, seen>>

\* The send task.
Send(d) ==
  /\ d \in sending /\ queue[d] # << >>
  /\ queue' = [queue EXCEPT ![d] = Tail(@)]
  /\ LET f == Head(queue[d]) IN
       seen' = IF f.n = 0 THEN seen ELSE [seen EXCEPT ![d][f.from] = f.n]
  /\ UNCHANGED <<now, used, registry, handler, read, sending>>

\* The socket no longer accepts messages: the channel loses its receiver.
SendFails(d) ==
  /\ d \in sending
  /\ sending' = sending \ {d}
  /\ queue' = [queue EXCEPT ![d] = << >>]
  /\ UNCHANGED <<now, used, registry, handler, read, seen>>

-----------------------------------------------------------------------------
Handle(c) ==
  \/ Verify(c) \/ Redeem(c) \/ UpgradeFails(c) \/ Join(c) \/ JoinFull(c)
  \/ Replaced(c) \/ Expire(c) \/ Disconnect(c) \/ Leave(c)
  \/ Read(c) \/ ReadOther(c) \/ Broadcast(c) \/ Send(c) \/ SendFails(c)

Next == Tick \/ CleanUp \/ \E c \in CONNS : Handle(c)

Spec == Init /\ [][Next]_vars

-----------------------------------------------------------------------------
(* Properties *)

\* A bucket never holds more than two users, and holds no connection whose
\* handler is gone: the slot of a lost peer is always given back.
BucketsAreLive ==
  \A b \in Buckets :
    /\ Cardinality(Entries(b)) <= 2
    /\ \A u \in Users : registry[b][u] # NONE =>
         LET c == registry[b][u] IN
         /\ Bucket(c) = b /\ User(c) = u
         /\ phase[c] \in {"open", "holding", "leaving"} /\ c \notin cancelled

\* No ghosts: a connection that is open and not cancelled is the one its
\* bucket knows, so its peer's frames reach it; a late cleanup of an older
\* connection never evicts it.
OpenIsRegistered ==
  \A c \in CONNS :
    phase[c] \in {"open", "holding"} /\ c \notin cancelled =>
      registry[Bucket(c)][User(c)] = c

\* Frames stay in the room and the capability that their sender's ticket
\* was signed for.
FramesStayInBucket ==
  \A d \in CONNS : \A i \in 1 .. Len(queue[d]) :
    LET c == queue[d][i].from IN
    queue[d][i].n > 0 => /\ c # d
                         /\ ticket[c].room = ticket[d].room
                         /\ ticket[c].capability = ticket[d].capability

\* The relay loses frames but neither duplicates nor reorders those of one
\* connection, whichever joins, replacements and failures intervene.
FramesInOrder ==
  \A d \in CONNS : \A i \in 1 .. Len(queue[d]) :
    LET f == queue[d][i] IN
    f.n > 0 => /\ seen[d][f.from] < f.n
               /\ \A j \in i + 1 .. Len(queue[d]) :
                    queue[d][j].from = f.from /\ queue[d][j].n > 0 => f.n < queue[d][j].n

\* While a ticket is valid, its nonce admits one connection only, however
\* the cleanup of spent nonces and the clock interleave with the handlers.
ReplayIsRefused ==
  [][\A c, d \in CONNS :
       (/\ c # d /\ ticket[c] = ticket[d]
        /\ phase[d] \in {"admitted", "open", "holding", "leaving", "closed"}
        /\ phase[c] = "verified" /\ phase'[c] = "admitted")
       => now > ticket[c].expires]_vars
=============================================================================
