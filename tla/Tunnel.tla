------------------------------- MODULE Tunnel -------------------------------
(***************************************************************************)
(* The native TCP tunnel: the desktop client's tunnel tasks (tunnel.rs)    *)
(* and the byte stream they carry over the relay (tcp_tunnel.rs), composed *)
(* with the relay service.                                                 *)
(*                                                                         *)
(* A run is one start_native_tcp_tunnel with the ticket it was given; it   *)
(* opens at most one relay connection and has that connection's name.  A   *)
(* connection whose ticket is for the probe is a client of which only the  *)
(* frames are known.  The listening and the connecting mode differ only in *)
(* how the local stream is opened, or fails to be.                         *)
(***************************************************************************)
EXTENDS Relay

CONSTANT SCENARIOS   \* functions of CONNS: the ticket that a client is issued, whether
                     \* its network lets it hear the relay, and
                     \* bound: the frames it sends

ASSUME TunnelAssumption ==
  SCENARIOS \subseteq [CONNS -> [ticket : TICKETS, frames : 0 .. FRAMES, heard : BOOLEAN]]

VARIABLES
  given,   \* per connection: the ticket, the frames and the network of its client
  run,     \* per connection: where the task of its run is
  tasks    \* per user: the registry entry of the room on that user's client

relayVars  == vars
tunnelVars == <<given, run, tasks>>
allVars    == <<relayVars, tunnelVars>>

Tunnels == {c \in CONNS : given[c].ticket.capability = "tunnel"}
Owner(c) == given[c].ticket.user

\* "local": the task waits for its emulator; "dialing": for connect_async; "done": its
\* stream has ended and remove_completed_task is next; "over": removed or aborted.
Runs == {"none", "local", "dialing", "piping", "done", "over"}

\* The task is past its start gate and has not come to its end.
Working(c) == run[c] \in {"local", "dialing", "piping"}

TunnelInit ==
  /\ Init
  /\ given \in SCENARIOS
  /\ run   = [c \in CONNS |-> "none"]
  /\ tasks = [u \in Users |-> NONE]

GotoRun(c, s) == run' = [run EXCEPT ![c] = s]

-----------------------------------------------------------------------------
(* The registry of tasks *)

\* Aborting takes effect where a task waits, so never between the end of its
\* stream and its removal.
Abort(c) == [run EXCEPT ![c] = IF Working(c) THEN "over" ELSE @]

\* The new task enters the registry, the one it replaces is aborted, and then
\* the gate of the new one opens.
Start(c) ==
  LET previous == tasks[Owner(c)] IN
  /\ c \in Tunnels /\ run[c] = "none"
  /\ tasks' = [tasks EXCEPT ![Owner(c)] = c]
  /\ run' = [(IF previous = NONE THEN run ELSE Abort(previous)) EXCEPT ![c] = "local"]
  /\ UNCHANGED <<relayVars, given>>

\* Mutant: the room's entry, whosever run it is.
WithoutRun_Any(c) == [tasks EXCEPT ![Owner(c)] = NONE]

WithoutRun(c) == IF tasks[Owner(c)] = c THEN [tasks EXCEPT ![Owner(c)] = NONE] ELSE tasks

RemoveCompletedTask(c) ==
  /\ run[c] = "done"
  /\ tasks' = WithoutRun(c)
  /\ GotoRun(c, "over")
  /\ UNCHANGED <<relayVars, given>>

\* stop_native_tcp_tunnel, and shutdown_all when the client quits.
Stop(u) ==
  /\ tasks[u] # NONE
  /\ run' = Abort(tasks[u])
  /\ tasks' = [tasks EXCEPT ![u] = NONE]
  /\ UNCHANGED <<relayVars, given>>

-----------------------------------------------------------------------------
(* A run *)

\* The listener accepts the emulator's connection, or the emulator accepts the task's.
LocalStream(c) ==
  /\ run[c] = "local"
  /\ GotoRun(c, "dialing")
  /\ UNCHANGED <<relayVars, given, tasks>>

\* connect_async returns when the relay has accepted the upgrade; its handler
\* need not have joined the bucket yet.
Connected(c) ==
  /\ run[c] = "dialing" /\ phase[c] \in {"admitted", "open", "holding", "leaving", "closed"}
  /\ GotoRun(c, "piping")
  /\ UNCHANGED <<relayVars, given, tasks>>

\* The deadline of the local stream, no relay connection, the end or an error of
\* the local stream, or a failed send.
Fail(c) ==
  /\ Working(c)
  /\ GotoRun(c, "done")
  /\ UNCHANGED <<relayVars, given, tasks>>

SocketOver(c) == phase[c] \in {"refused", "closed"}

\* relay_to_tcp, or connect_async, sees the end of the connection.
RelayEnds(c) ==
  /\ Working(c) /\ SocketOver(c)
  /\ GotoRun(c, "done")
  /\ UNCHANGED <<relayVars, given, tasks>>

\* relay_to_tcp writes a frame to the local stream, and ends on a close.
Deliver(d) ==
  /\ run[d] = "piping"
  /\ Send(d)
  /\ run' = IF Head(queue[d]).n = 0 THEN [run EXCEPT ![d] = "done"] ELSE run
  /\ UNCHANGED <<given, tasks>>

-----------------------------------------------------------------------------
(* The relay's steps, with the clients it has now *)

\* A tunnel sends chunks of its local stream and nothing else; those that are under
\* way when its run ends can still be read.
FromClient(c) ==
  \/ Verify(c) /\ ticket'[c] = given[c].ticket /\ (c \in Tunnels => run[c] = "dialing")
  \/ read[c] < given[c].frames /\ (Read(c) \/ (ReadOther(c) /\ c \notin Tunnels))
  \/ Send(c) /\ c \notin Tunnels

Handler(c) ==
  Redeem(c) \/ Join(c) \/ JoinFull(c) \/ Broadcast(c) \/ Replaced(c) \/ Expire(c) \/ Leave(c)

\* A tunnel's socket that breaks is noticed by its run or by its handler first;
\* an upgrade or a send fails once the run has given the socket up.
SocketFails(c) == UpgradeFails(c) \/ SendFails(c)

RelayStep(c) ==
  \/ FromClient(c) \/ Handler(c) \/ Disconnect(c)
  \/ SocketFails(c) /\ (c \in Tunnels => ~Working(c))

Client(c) ==
  \/ Start(c) \/ LocalStream(c) \/ Connected(c) \/ Deliver(c)
  \/ Fail(c) \/ RelayEnds(c) \/ RemoveCompletedTask(c)

TunnelNext ==
  \/ \E c \in CONNS : Client(c)
  \/ \E c \in CONNS : RelayStep(c) /\ UNCHANGED tunnelVars
  \/ \E u \in Users : Stop(u)
  \/ (Tick \/ CleanUp) /\ UNCHANGED tunnelVars

TunnelSpec == TunnelInit /\ [][TunnelNext]_allVars

\* What needs no client, no emulator and no cleanup to go on: time, a handler of the
\* relay that is not waiting, a task that has ended, and one that waits for its emulator,
\* which has a deadline.  Dialing has none, nor has a task that pipes: they go on because
\* the client hears that its dial is answered or its connection is over.
Proceeds ==
  \/ Tick /\ UNCHANGED tunnelVars
  \/ \E c \in CONNS :
       \/ Handler(c) /\ UNCHANGED tunnelVars
       \/ RemoveCompletedTask(c)
       \/ run[c] = "local" /\ Fail(c)
       \/ given[c].heard /\ (Connected(c) \/ RelayEnds(c))
       \/ given[c].heard /\ run[c] = "dialing" /\ Fail(c)

\* The emulator takes what is written to it, but need not ever send or close.
FairTunnelSpec == TunnelSpec /\ WF_allVars(Proceeds)

-----------------------------------------------------------------------------
(* Properties *)

\* stop_native_tcp_tunnel and a retry reach every tunnel that runs: whichever
\* starts, ends and removals overlap, a task that is past its gate is the one the
\* registry has for the room, and the registry has no task that is over.
TunnelsAreRegistered ==
  /\ \A c \in CONNS : Working(c) => tasks[Owner(c)] = c
  /\ \A u \in Users : tasks[u] # NONE => Working(tasks[u]) \/ run[tasks[u]] = "done"

\* A connection has a handler at the relay.
Handled(c) == phase[c] \in {"admitted", "open", "holding", "leaving"}

\* Seats and tasks are given back, though the emulators at the ends of a tunnel never
\* close a stream: when no more connections and runs come, no connection has a seat of
\* the relay, no task waits for an emulator or to be removed, and none works whose
\* client can hear the relay.  A client that hears nothing is left with a task that
\* dials, or pipes, until it is stopped: connect_async has no timeout, and a task no
\* timer for the expiry of its ticket.
TunnelsEnd ==
  []<>(\A c \in CONNS : /\ ~Handled(c)
                        /\ run[c] \notin {"local", "done"}
                        /\ given[c].heard => ~Working(c))
=============================================================================
