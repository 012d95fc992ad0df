--------------------------- MODULE Tunnel_proofs ---------------------------
(* Theorems about Tunnel, for every set of tickets, connections and        *)
(* scenarios.  The tunnel only uses the relay: each of its steps is a step *)
(* of the relay or leaves it alone, so what Relay_proofs proves of the     *)
(* relay holds of the composition.                                         *)
EXTENDS Tunnel, Relay_proofs

-----------------------------------------------------------------------------
(* The tunnel is a client of the relay *)

LEMMA TunnelStepUsesRelay == [TunnelNext]_allVars => [Next]_vars
  <1> SUFFICES ASSUME [TunnelNext]_allVars PROVE [Next]_vars
    OBVIOUS
  <1>1. ASSUME NEW c \in CONNS, Client(c) PROVE [Next]_vars
    <2>1. CASE Deliver(c)
      BY <2>1 DEF Deliver, Next, Handle
    <2>2. CASE \/ Start(c) \/ LocalStream(c) \/ Connected(c) \/ Fail(c) \/ RelayEnds(c)
               \/ RemoveCompletedTask(c)
      BY <2>2 DEF Start, LocalStream, Connected, Fail, RelayEnds, RemoveCompletedTask, relayVars
    <2> QED BY <1>1, <2>1, <2>2 DEF Client
  <1>2. ASSUME NEW c \in CONNS, RelayStep(c) PROVE [Next]_vars
    BY <1>2 DEF RelayStep, FromClient, Handler, SocketFails, Next, Handle
  <1>3. ASSUME NEW u \in Users, Stop(u) PROVE [Next]_vars
    BY <1>3 DEF Stop, relayVars
  <1>4. CASE Tick \/ CleanUp
    BY <1>4 DEF Next
  <1>5. CASE UNCHANGED allVars
    BY <1>5 DEF allVars, relayVars
  <1> QED BY <1>1, <1>2, <1>3, <1>4, <1>5 DEF TunnelNext

\* The composition implements the relay: the tunnel tasks, their starts, stops and
\* failures show the relay nothing that its own specification does not allow a client.
THEOREM TunnelIsARelayClient == TunnelSpec => Spec
  <1>1. TunnelInit => Init
    BY DEF TunnelInit
  <1> QED BY <1>1, TunnelStepUsesRelay, PTL DEF TunnelSpec, Spec

\* BucketsAreLive, OpenIsRegistered, FramesStayInBucket and FramesInOrder under the
\* traffic of tunnels.
THEOREM TunnelKeepsTheRelaySafe ==
  TunnelSpec => [](BucketsAreLive /\ OpenIsRegistered /\ FramesStayInBucket /\ FramesInOrder)
  BY TunnelIsARelayClient, SeatsAreGivenBack, NewestIsNotEvicted, FramesKeepTheirBucket,
     FramesKeepTheirOrder, PTL

\* ReplayIsRefused for the tickets of probes and tunnels.
THEOREM TunnelReplaysAreRefused == TunnelSpec => ReplayIsRefused
  BY TunnelIsARelayClient, ReplaysAreRefused, PTL

-----------------------------------------------------------------------------
(* The registry of tasks *)

TaskTypes ==
  /\ given \in [CONNS -> [ticket : TICKETS, frames : 0 .. FRAMES, heard : BOOLEAN]]
  /\ run   \in [CONNS -> Runs]
  /\ tasks \in [Users -> CONNS \union {NONE}]

\* A user's registry holds runs of that user.
TasksAreOwned == \A u \in Users : tasks[u] # NONE => Owner(tasks[u]) = u

TaskInv == TaskTypes /\ TasksAreOwned /\ TunnelsAreRegistered

LEMMA OwnersAreUsers ==
  ASSUME TaskTypes, NEW c \in CONNS
  PROVE  Owner(c) \in Users
  BY DEF TaskTypes, Owner, Users

LEMMA TaskInit == TunnelInit => TaskInv
  <1> SUFFICES ASSUME TunnelInit PROVE TaskInv
    OBVIOUS
  <1>1. TaskTypes
    BY TunnelAssumption DEF TunnelInit, TaskTypes, Runs
  <1>2. TunnelsAreRegistered /\ TasksAreOwned
    BY DEF TunnelInit, TunnelsAreRegistered, Working, TasksAreOwned
  <1> QED BY <1>1, <1>2 DEF TaskInv

LEMMA StartKeepsTasks ==
  ASSUME TaskInv, NEW c \in CONNS, Start(c)
  PROVE  TaskInv'
  <1>1. /\ TaskTypes /\ TasksAreOwned /\ TunnelsAreRegistered
        /\ Owner(c) \in Users /\ NONE \notin CONNS
    BY OwnersAreUsers, RelayAssumption DEF TaskInv
  <1>2. PICK p : p = tasks[Owner(c)]
    OBVIOUS
  <1>3. /\ run[c] = "none" /\ given' = given
        /\ tasks' = [tasks EXCEPT ![Owner(c)] = c]
        /\ run' = [(IF p = NONE THEN run ELSE Abort(p)) EXCEPT ![c] = "local"]
    BY <1>2 DEF Start
  <1>4. p # NONE => /\ p \in CONNS /\ p # c
                    /\ Abort(p) = [run EXCEPT ![p] = IF Working(p) THEN "over" ELSE @]
    BY <1>1, <1>2, <1>3 DEF TaskTypes, TunnelsAreRegistered, Working, Abort
  <1>5. /\ run' \in [CONNS -> Runs] /\ run'[c] = "local"
        /\ \A d \in CONNS : d # c /\ d # p => run'[d] = run[d]
        /\ p # NONE => run'[p] = IF Working(p) THEN "over" ELSE run[p]
    BY <1>1, <1>3, <1>4 DEF TaskTypes, Runs
  <1>6. TaskTypes'
    BY <1>1, <1>3, <1>5 DEF TaskTypes
  <1>7. \A d : Owner(d)' = Owner(d)
    BY <1>3 DEF Owner
  <1>8. TasksAreOwned'
    BY <1>1, <1>3, <1>7 DEF TasksAreOwned, TaskTypes
  <1>9. ASSUME NEW d \in CONNS, run'[d] \in {"local", "dialing", "piping"}
        PROVE  tasks'[Owner(d)] = d
    <2>1. CASE d = c
      BY <1>1, <1>3, <2>1 DEF TaskTypes
    <2>2. CASE d # c
      <3>1. d # p
        <4>1. p # NONE => run'[p] \notin {"local", "dialing", "piping"}
          BY <1>5 DEF Working
        <4> QED BY <1>1, <1>9, <4>1
      <3>2. Owner(d) \in Users /\ tasks[Owner(d)] = d
        BY <1>1, <1>5, <1>9, <2>2, <3>1, OwnersAreUsers DEF TunnelsAreRegistered, Working
      <3> QED BY <1>1, <1>2, <1>3, <3>1, <3>2 DEF TaskTypes
    <2> QED BY <2>1, <2>2
  <1>10. ASSUME NEW u \in Users, tasks'[u] # NONE
         PROVE  run'[tasks'[u]] \in {"local", "dialing", "piping", "done"}
    <2>1. CASE u = Owner(c)
      BY <1>1, <1>3, <1>5, <2>1 DEF TaskTypes
    <2>2. CASE u # Owner(c)
      <3>1. tasks'[u] = tasks[u] /\ tasks[u] \in CONNS
        BY <1>1, <1>3, <1>10, <2>2 DEF TaskTypes
      <3>2. tasks[u] # c /\ tasks[u] # p
        BY <1>1, <1>2, <1>10, <2>2, <3>1 DEF TasksAreOwned
      <3>3. run[tasks[u]] \in {"local", "dialing", "piping", "done"}
        BY <1>1, <1>10, <3>1 DEF TunnelsAreRegistered, Working
      <3> QED BY <1>5, <3>1, <3>2, <3>3
    <2> QED BY <2>1, <2>2
  <1>11. TunnelsAreRegistered'
    BY <1>7, <1>9, <1>10 DEF TunnelsAreRegistered, Working
  <1> QED BY <1>6, <1>8, <1>11 DEF TaskInv

LEMMA StopKeepsTasks ==
  ASSUME TaskInv, NEW u \in Users, Stop(u)
  PROVE  TaskInv'
  <1>1. TaskTypes /\ TasksAreOwned /\ TunnelsAreRegistered /\ NONE \notin CONNS
    BY RelayAssumption DEF TaskInv
  <1>2. PICK p \in CONNS : p = tasks[u] /\ Owner(p) = u
    BY <1>1 DEF Stop, TaskTypes, TasksAreOwned
  <1>3. /\ given' = given /\ tasks' = [tasks EXCEPT ![u] = NONE]
        /\ run' = [run EXCEPT ![p] = IF Working(p) THEN "over" ELSE @]
    BY <1>2 DEF Stop, Abort
  <1>4. TaskTypes'
    BY <1>1, <1>3 DEF TaskTypes, Runs
  <1>5. \A d : Owner(d)' = Owner(d)
    BY <1>3 DEF Owner
  <1>6. TasksAreOwned'
    BY <1>1, <1>3, <1>5 DEF TasksAreOwned, TaskTypes
  <1>7. ASSUME NEW d \in CONNS, run'[d] \in {"local", "dialing", "piping"}
        PROVE  tasks'[Owner(d)] = d
    <2>1. d # p /\ run[d] = run'[d]
      BY <1>1, <1>3, <1>7 DEF TaskTypes, Working
    <2>2. Owner(d) \in Users /\ tasks[Owner(d)] = d
      BY <1>1, <1>7, <2>1, OwnersAreUsers DEF TunnelsAreRegistered, Working
    <2> QED BY <1>1, <1>2, <1>3, <2>1, <2>2 DEF TaskTypes
  <1>8. ASSUME NEW v \in Users, tasks'[v] # NONE
        PROVE  run'[tasks'[v]] \in {"local", "dialing", "piping", "done"}
    <2>1. v # u /\ tasks'[v] = tasks[v] /\ tasks[v] \in CONNS /\ tasks[v] # p
      BY <1>1, <1>2, <1>3, <1>8 DEF TaskTypes, TasksAreOwned
    <2>2. run[tasks[v]] \in {"local", "dialing", "piping", "done"}
      BY <1>1, <1>8, <2>1 DEF TunnelsAreRegistered, Working
    <2> QED BY <1>1, <1>3, <2>1, <2>2 DEF TaskTypes
  <1>9. TunnelsAreRegistered'
    BY <1>5, <1>7, <1>8 DEF TunnelsAreRegistered, Working
  <1> QED BY <1>4, <1>6, <1>9 DEF TaskInv

\* A task that comes to its end stays registered until it removes itself.
LEMMA EndingKeepsTasks ==
  ASSUME TaskInv, NEW c \in CONNS, Working(c), UNCHANGED <<given, tasks>>,
         NEW s \in {"dialing", "piping", "done"}, run' = [run EXCEPT ![c] = s]
  PROVE  TaskInv'
  <1>1. TaskTypes /\ TasksAreOwned /\ TunnelsAreRegistered
    BY DEF TaskInv
  <1>2. TaskTypes'
    BY <1>1 DEF TaskTypes, Runs
  <1>3. \A d : Owner(d)' = Owner(d)
    BY DEF Owner
  <1>4. TasksAreOwned'
    BY <1>1, <1>3 DEF TasksAreOwned
  <1>5. \A d \in CONNS : run'[d] = run[d] \/ (d = c /\ run'[d] \in {"dialing", "piping", "done"})
    BY <1>1 DEF TaskTypes
  <1>6. TunnelsAreRegistered'
    BY <1>1, <1>3, <1>5 DEF TunnelsAreRegistered, Working, TaskTypes
  <1> QED BY <1>2, <1>4, <1>6 DEF TaskInv

\* A run takes only its own entry out of the registry.
LEMMA RemovalKeepsTasks ==
  ASSUME TaskInv, NEW c \in CONNS, RemoveCompletedTask(c)
  PROVE  TaskInv'
  <1>1. TaskTypes /\ TasksAreOwned /\ TunnelsAreRegistered /\ NONE \notin CONNS
    BY RelayAssumption DEF TaskInv
  <1>2. /\ run[c] = "done" /\ given' = given /\ run' = [run EXCEPT ![c] = "over"]
        /\ tasks' = IF tasks[Owner(c)] = c THEN [tasks EXCEPT ![Owner(c)] = NONE] ELSE tasks
    BY DEF RemoveCompletedTask, WithoutRun, GotoRun
  <1>3. TaskTypes'
    BY <1>1, <1>2 DEF TaskTypes, Runs
  <1>4. \A d : Owner(d)' = Owner(d)
    BY <1>2 DEF Owner
  <1>5. \A u \in Users : tasks'[u] # NONE => tasks'[u] = tasks[u] /\ tasks[u] # c
    BY <1>1, <1>2 DEF TaskTypes, TasksAreOwned
  <1>6. TasksAreOwned'
    BY <1>1, <1>4, <1>5 DEF TasksAreOwned
  <1>7. ASSUME NEW d \in CONNS, run'[d] \in {"local", "dialing", "piping"}
        PROVE  tasks'[Owner(d)] = d
    <2>1. d # c /\ run[d] = run'[d]
      BY <1>1, <1>2, <1>7 DEF TaskTypes
    <2>2. tasks[Owner(d)] = d /\ Owner(d) \in Users
      BY <1>1, <1>7, <2>1, OwnersAreUsers DEF TunnelsAreRegistered, Working
    <2> QED BY <1>1, <1>2, <2>1, <2>2 DEF TaskTypes
  <1>8. ASSUME NEW u \in Users, tasks'[u] # NONE
        PROVE  run'[tasks'[u]] \in {"local", "dialing", "piping", "done"}
    BY <1>1, <1>2, <1>5, <1>8 DEF TunnelsAreRegistered, Working, TaskTypes
  <1>9. TunnelsAreRegistered'
    BY <1>4, <1>7, <1>8 DEF TunnelsAreRegistered, Working
  <1> QED BY <1>3, <1>6, <1>9 DEF TaskInv

LEMMA TasksStay == TaskInv /\ UNCHANGED tunnelVars => TaskInv'
  BY DEF TaskInv, tunnelVars, TaskTypes, TasksAreOwned, TunnelsAreRegistered, Owner, Working

LEMMA TaskStep == TaskInv /\ [TunnelNext]_allVars => TaskInv'
  <1> SUFFICES ASSUME TaskInv, [TunnelNext]_allVars PROVE TaskInv'
    OBVIOUS
  <1>1. ASSUME NEW c \in CONNS, Client(c) PROVE TaskInv'
    <2>1. CASE Start(c)
      BY <2>1, StartKeepsTasks
    <2>2. CASE LocalStream(c) \/ Connected(c) \/ Fail(c) \/ RelayEnds(c)
      <3>1. /\ Working(c) /\ UNCHANGED <<given, tasks>>
            /\ \E s \in {"dialing", "piping", "done"} : run' = [run EXCEPT ![c] = s]
        BY <2>2 DEF LocalStream, Connected, Fail, RelayEnds, GotoRun, Working
      <3> QED BY <3>1, EndingKeepsTasks
    <2>3. CASE Deliver(c)
      <3>1. /\ Working(c) /\ UNCHANGED <<given, tasks>>
            /\ (\E s \in {"dialing", "piping", "done"} : run' = [run EXCEPT ![c] = s])
               \/ run' = run
        BY <2>3 DEF Deliver, Working
      <3> QED BY <3>1, EndingKeepsTasks, TasksStay DEF tunnelVars
    <2>4. CASE RemoveCompletedTask(c)
      BY <2>4, RemovalKeepsTasks
    <2> QED BY <1>1, <2>1, <2>2, <2>3, <2>4 DEF Client
  <1>2. CASE UNCHANGED tunnelVars
    BY <1>2, TasksStay
  <1> QED BY <1>1, <1>2, StopKeepsTasks DEF TunnelNext, allVars

\* TunnelsAreRegistered: a stop or a retry reaches every task that runs, for any number
\* of runs, and however starts, ends and removals overlap.
THEOREM TasksCanBeStopped == TunnelSpec => []TunnelsAreRegistered
  <1>1. TaskInv => TunnelsAreRegistered
    BY DEF TaskInv
  <1> QED BY <1>1, TaskInit, TaskStep, PTL DEF TunnelSpec
=============================================================================
