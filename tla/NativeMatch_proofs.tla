------------------------- MODULE NativeMatch_proofs -------------------------
(* Theorems about NativeMatch, for every set of users, games and rooms,    *)
(* with and without a tunnel, and for every number of lost requests; only  *)
(* RecordedExitsArrive needs that fewer are lost than a supervisor sends.  *)
EXTENDS NativeMatch, RoomLifecycle_proofs

-----------------------------------------------------------------------------
(* The server's side *)

LEMMA RoomOfMatch == ROOM \in ROOMS /\ PLAYERS \subseteq USERS
  BY MatchAssumption

LEMMA MatchInitInv == MatchInit => IInv /\ members[ROOM] = PLAYERS
  <1> SUFFICES ASSUME MatchInit PROVE IInv /\ members[ROOM] = PLAYERS
    OBVIOUS
  <1> USE MatchAssumption DEF PLAYERS
  <1>1. TypeOK
    BY DEF MatchInit, TypeOK, RoomStates, AttemptStates, ChallengeStates
  <1>2. Bookkeeping /\ MatchNeedsBothProcesses /\ TwoSeats /\ OpenRoomIsTracked
    BY DEF MatchInit, Bookkeeping, MatchNeedsBothProcesses, TwoSeats, OpenRoomIsTracked, Open
  <1>3. /\ OutcomeMatchesPlay /\ EarlyExitPreventsMatch
        /\ ChallengingRoomAwaitsAnswer /\ AcceptedChallengeIsSeated
    BY DEF MatchInit, OutcomeMatchesPlay, EarlyExitPreventsMatch, ChallengingRoomAwaitsAnswer,
           AcceptedChallengeIsSeated
  <1> QED BY <1>1, <1>2, <1>3 DEF IInv, MatchInit

\* What a request or a deadline can do to the room of the match.
Quiet == /\ room'[ROOM] = room[ROOM] /\ launched'[ROOM] = launched[ROOM]
         /\ ended'[ROOM] = ended[ROOM]

Launches(u) == /\ room[ROOM] \in {"CONNECTING", "PLAYING"}
               /\ room'[ROOM] \in {"CONNECTING", "PLAYING"}
               /\ launched'[ROOM] = launched[ROOM] \union {u}
               /\ ended'[ROOM] = ended[ROOM]

Exits(u) == /\ u \in launched[ROOM]
            /\ room'[ROOM] \in {room[ROOM], "FINISHED", "CANCELLED"}
            /\ room[ROOM] \in Terminal => room'[ROOM] = room[ROOM]
            /\ launched'[ROOM] = launched[ROOM]
            /\ ended'[ROOM] = ended[ROOM] \union {u}

Closes == /\ room[ROOM] \notin Terminal /\ room'[ROOM] = "CANCELLED"
          /\ launched'[ROOM] = launched[ROOM] /\ ended'[ROOM] = launched[ROOM]

\* Each of the server's actions is a step of the lifecycle, keeps the members and
\* has one of these effects.
ServerEffect(effect) == [Next]_vars /\ members' = members /\ effect

LEMMA Unchanged == UNCHANGED vars => ServerEffect(Quiet)
  BY DEF vars, roomVars, nativeVars, ServerEffect, Quiet

LEMMA GrantEffects ==
  ASSUME NEW u \in PLAYERS, IssueGrant(u, ROOM) \/ ConsumeGrant(u, ROOM) \/ GrantExpires(u, ROOM)
  PROVE  ServerEffect(Quiet)
  <1>1. Next
    BY RoomOfMatch DEF Next, LaunchRequest, TimePasses
  <1>2. members' = members /\ Quiet
    BY DEF IssueGrant, ConsumeGrant, GrantExpires, roomVars, nativeVars, Quiet
  <1> QED BY <1>1, <1>2 DEF ServerEffect

LEMMA LaunchEffect ==
  ASSUME IInv, NEW u \in PLAYERS, ConfirmLaunch(u, ROOM)
  PROVE  ServerEffect(Launches(u))
  <1>1. Next
    BY RoomOfMatch DEF Next, LaunchRequest
  <1>2. members' = members
    BY DEF ConfirmLaunch
  <1>3. Launches(u)
    BY RoomOfMatch, TargetValues DEF ConfirmLaunch, Launches, IInv, TypeOK
  <1> QED BY <1>1, <1>2, <1>3 DEF ServerEffect

LEMMA ExitEffect ==
  ASSUME IInv, NEW u \in PLAYERS, ConfirmExit(u, ROOM)
  PROVE  ServerEffect(Exits(u))
  <1>1. Next
    BY RoomOfMatch DEF Next, LaunchRequest
  <1>2. members' = members
    BY DEF ConfirmExit
  <1>3. Exits(u)
    BY RoomOfMatch, TargetValues DEF ConfirmExit, CloseRoom, Exits, IInv, TypeOK, Terminal
  <1> QED BY <1>1, <1>2, <1>3 DEF ServerEffect

LEMMA CancelEffect ==
  ASSUME IInv, NEW u \in PLAYERS, LeaveRoom(u, ROOM, "Cancel")
  PROVE  ServerEffect(Closes)
  <1>1. Next
    BY RoomOfMatch DEF Next, RoomRequest
  <1>2. members' = members
    BY DEF LeaveRoom
  <1>3. Closes
    BY RoomOfMatch, TargetValues, AcceptedValues
       DEF LeaveRoom, CloseRoom, Closes, IInv, TypeOK, Terminal
  <1> QED BY <1>1, <1>2, <1>3 DEF ServerEffect

LEMMA TimeEffect ==
  ASSUME IInv, ServerStep
  PROVE  ServerEffect(Quiet) \/ ServerEffect(Closes)
  <1>1. CASE RoomDeadlinePasses(ROOM)
    <2>1. Next
      BY <1>1, RoomOfMatch DEF Next, TimePasses
    <2>2. members' = members /\ Quiet
      BY <1>1 DEF RoomDeadlinePasses, nativeVars, Quiet
    <2> QED BY <2>1, <2>2 DEF ServerEffect
  <1>2. CASE \E u \in PLAYERS : GrantExpires(u, ROOM)
    BY <1>2, GrantEffects
  <1>3. CASE Reconcile({}, {ROOM})
    <2>1. {} \in SUBSET StaleChallenges /\ {ROOM} \in SUBSET Overdue
      BY <1>3 DEF Reconcile
    <2>2. Next
      BY <1>3, <2>1 DEF Next, ReconcilePass
    <2>3. members' = members
      BY <1>3 DEF Reconcile
    <2>4. Closes
      BY <1>3, <2>1, RoomOfMatch DEF Reconcile, Overdue, Open, Closes, Terminal, IInv, TypeOK
    <2> QED BY <2>2, <2>3, <2>4 DEF ServerEffect
  <1> QED BY <1>1, <1>2, <1>3 DEF ServerStep

-----------------------------------------------------------------------------
(* The inductive invariant *)

BeforeSpawn == {"none", "ticket", "grant", "consume", "spawn"}

\* What a player's launch, process and page say about each other.
ClientInv(u) ==
  /\ step[u] \in BeforeSpawn => proc[u] = "none"
  /\ step[u] \in {"start", "started", "stop", "done"} => proc[u] # "none"
  /\ step[u] \in {"none", "ticket", "failed"} => ~tunnel[u]
  /\ step[u] \in {"undo", "failed"} => proc[u] # "running"
  /\ call[u] => proc[u] = "over"
  /\ proc[u] = "exited" => tries[u] \in 1..3

\* What the room's records say about them; the records of a cancelled room also
\* count processes as ended that the server has only given up.
RecordInv(u) ==
  /\ u \in launched[ROOM] => proc[u] # "none"
  /\ u \in ended[ROOM] => u \in launched[ROOM]
  /\ u \in ended[ROOM] /\ room[ROOM] # "CANCELLED" => proc[u] # "running"
  /\ page[u] = "left" => room[ROOM] \in Terminal

NInv ==
  /\ IInv
  /\ members[ROOM] = PLAYERS
  /\ NativeTypeOK
  /\ \A u \in PLAYERS : ClientInv(u) /\ RecordInv(u)

\* While the end of a process whose launch was on record is not on record, every
\* report of it that has failed was lost.
LossOf(u) ==
  ~early[u] /\ u \notin ended[ROOM] =>
    /\ proc[u] \in {"exited", "reaped", "over"} => u \in launched[ROOM]
    /\ proc[u] = "exited" => losses >= 3 - tries[u]
    /\ proc[u] \in {"reaped", "over"} => losses >= 3

LossInv == \A u \in PLAYERS : LossOf(u)

-----------------------------------------------------------------------------
(* Its induction *)

LEMMA NInvInit == NativeInit => NInv /\ LossInv
  <1> SUFFICES ASSUME NativeInit PROVE NInv /\ LossInv
    OBVIOUS
  <1>1. IInv /\ members[ROOM] = PLAYERS
    BY MatchInitInv DEF NativeInit
  <1>2. NativeTypeOK
    BY MatchAssumption DEF NativeInit, NativeTypeOK, Steps, Processes
  <1>3. launched[ROOM] = {} /\ ended[ROOM] = {}
    BY RoomOfMatch DEF NativeInit, MatchInit
  <1>4. \A u \in PLAYERS : ClientInv(u) /\ RecordInv(u)
    BY <1>3 DEF NativeInit, ClientInv, RecordInv
  <1>5. LossInv
    BY DEF NativeInit, LossInv, LossOf
  <1> QED BY <1>1, <1>2, <1>4, <1>5 DEF NInv

SomeEffect(u) == \/ ServerEffect(Quiet) \/ ServerEffect(Launches(u))
                 \/ ServerEffect(Exits(u)) \/ ServerEffect(Closes)

Same(u) == /\ step'[u] = step[u] /\ proc'[u] = proc[u] /\ tries'[u] = tries[u]
           /\ early'[u] = early[u] /\ call'[u] = call[u] /\ tunnel'[u] = tunnel[u]
           /\ page'[u] = page[u]

\* What a player does leaves what is said of the other one true.
LEMMA OtherPlayer ==
  ASSUME NInv, NEW u \in PLAYERS, NEW w \in PLAYERS \ {u}, SomeEffect(u), Same(w)
  PROVE  ClientInv(w)' /\ RecordInv(w)'
  <1>1. ClientInv(w) /\ RecordInv(w)
    BY DEF NInv
  <1>2. ClientInv(w)'
    BY <1>1 DEF ClientInv, Same
  <1>3. RecordInv(w)'
    BY <1>1 DEF RecordInv, Same, SomeEffect, ServerEffect, Quiet, Launches, Exits, Closes,
                Terminal
  <1> QED BY <1>2, <1>3

\* What a step of u must show.
Preserved(u) == /\ SomeEffect(u)
                /\ \A w \in PLAYERS \ {u} : Same(w)
                /\ ClientInv(u)' /\ RecordInv(u)'
                /\ NativeTypeOK'

LEMMA EndTypes ==
  ASSUME NativeTypeOK, NEW u \in PLAYERS, End(u) \/ StopGame(u)
  PROVE  /\ proc'  \in [PLAYERS -> Processes]
         /\ tries' \in [PLAYERS -> 0..3]
         /\ early' \in [PLAYERS -> BOOLEAN]
  <1>1. CASE End(u)
    <2>1. proc' \in [PLAYERS -> Processes] /\ tries' \in [PLAYERS -> 0..3]
      BY <1>1 DEF End, Attempts, NativeTypeOK, Processes
    <2>2. early' = [early EXCEPT ![u] = u \notin launched[ROOM]]
      BY <1>1 DEF End
    <2>3. early \in [PLAYERS -> BOOLEAN] /\ (u \notin launched[ROOM]) \in BOOLEAN
      BY DEF NativeTypeOK
    <2>4. early' \in [PLAYERS -> BOOLEAN]
      BY <2>2, <2>3, Zenon
    <2> QED BY <2>1, <2>4
  <1>2. CASE UNCHANGED <<proc, tries, early>>
    BY <1>2 DEF NativeTypeOK
  <1> QED BY <1>1, <1>2 DEF StopGame

LEMMA LaunchPreserves ==
  ASSUME NInv, NEW u \in PLAYERS, RequestLaunch(u) \/ LaunchStep(u)
  PROVE  Preserved(u)
  <1> USE DEF launchVars, processVars, pageVars, Goto, Delivered, Lost
  <1>0. ClientInv(u) /\ RecordInv(u) /\ NativeTypeOK /\ IInv
    BY DEF NInv
  <1>1. CASE RequestLaunch(u) \/ StartTunnel(u) \/ Spawn(u) \/ FinishLaunch(u) \/ UndoLaunch(u)
    <2>1. UNCHANGED vars
      BY <1>1 DEF RequestLaunch, StartTunnel, Spawn, FinishLaunch, UndoLaunch
    <2>2. ServerEffect(Quiet)
      BY <2>1, Unchanged
    <2>3. /\ \A w \in PLAYERS \ {u} : Same(w)
          /\ ClientInv(u)' /\ NativeTypeOK'
      <3>1. \A w \in PLAYERS \ {u} : Same(w)
        BY <1>0, <1>1
           DEF RequestLaunch, StartTunnel, Spawn, FinishLaunch, UndoLaunch, TunnelStarts,
               TunnelStops, NativeTypeOK, Same
      <3>2. ClientInv(u)'
        BY <1>0, <1>1
           DEF RequestLaunch, StartTunnel, Spawn, FinishLaunch, UndoLaunch, TunnelStarts,
               TunnelStops, NativeTypeOK, ClientInv, BeforeSpawn
      <3>3. NativeTypeOK'
        BY <1>0, <1>1, MatchAssumption
           DEF RequestLaunch, StartTunnel, Spawn, FinishLaunch, UndoLaunch, TunnelStarts,
               TunnelStops, NativeTypeOK, Steps, Processes, ClientInv
      <3> QED BY <3>1, <3>2, <3>3
    <2>4. RecordInv(u)'
      BY <1>0, <1>1, <2>2
         DEF RequestLaunch, StartTunnel, Spawn, FinishLaunch, UndoLaunch, RecordInv, ClientInv,
             ServerEffect, Quiet, NativeTypeOK, BeforeSpawn
    <2> QED BY <2>2, <2>3, <2>4 DEF Preserved, SomeEffect
  <1>2. CASE TakeGrant(u) \/ UseGrant(u)
    <2>1. ServerEffect(Quiet)
      BY <1>2, GrantEffects, Unchanged DEF TakeGrant, UseGrant
    <2>2. /\ \A w \in PLAYERS \ {u} : Same(w)
          /\ ClientInv(u)' /\ NativeTypeOK'
      <3>1. \A w \in PLAYERS \ {u} : Same(w)
        BY <1>0, <1>2
           DEF TakeGrant, UseGrant, NativeTypeOK, Same
      <3>2. ClientInv(u)'
        BY <1>0, <1>2
           DEF TakeGrant, UseGrant, NativeTypeOK, ClientInv, BeforeSpawn
      <3>3. NativeTypeOK'
        BY <1>0, <1>2, MatchAssumption
           DEF TakeGrant, UseGrant, NativeTypeOK, Steps, Processes, ClientInv
      <3> QED BY <3>1, <3>2, <3>3
    <2>3. RecordInv(u)'
      BY <1>0, <1>2, <2>1 DEF TakeGrant, UseGrant, RecordInv, ServerEffect, Quiet
    <2> QED BY <2>1, <2>2, <2>3 DEF Preserved, SomeEffect
  <1>3. CASE Start(u)
    <2>1. ServerEffect(Quiet) \/ ServerEffect(Launches(u))
      BY <1>0, <1>3, LaunchEffect, Unchanged DEF Start
    <2>2. /\ \A w \in PLAYERS \ {u} : Same(w)
          /\ ClientInv(u)' /\ NativeTypeOK'
      <3>1. \A w \in PLAYERS \ {u} : Same(w)
        BY <1>0, <1>3
           DEF Start, NativeTypeOK, Same
      <3>2. ClientInv(u)'
        BY <1>0, <1>3
           DEF Start, NativeTypeOK, ClientInv, BeforeSpawn
      <3>3. NativeTypeOK'
        BY <1>0, <1>3, MatchAssumption
           DEF Start, NativeTypeOK, Steps, Processes, ClientInv
      <3> QED BY <3>1, <3>2, <3>3
    <2>3. RecordInv(u)'
      BY <1>0, <1>3, <2>1
         DEF Start, RecordInv, ClientInv, ServerEffect, Quiet, Launches, Terminal
    <2> QED BY <2>1, <2>2, <2>3 DEF Preserved, SomeEffect
  <1>4. CASE StopLaunch(u)
    <2>1. ServerEffect(Quiet)
      BY <1>4, Unchanged DEF StopLaunch
    <2>2. /\ \A w \in PLAYERS \ {u} : Same(w)
          /\ ClientInv(u)' /\ NativeTypeOK'
      <3>1. \A w \in PLAYERS \ {u} : Same(w)
        BY <1>0, <1>4
           DEF StopLaunch, StopGame, End, Attempts, NativeTypeOK, Same
      <3>2. ClientInv(u)'
        BY <1>0, <1>4
           DEF StopLaunch, StopGame, End, Attempts, NativeTypeOK, ClientInv, BeforeSpawn
      <3>3. NativeTypeOK'
        BY <1>0, <1>4, EndTypes
           DEF StopLaunch, NativeTypeOK, Steps, Processes, ClientInv
      <3> QED BY <3>1, <3>2, <3>3
    <2>3. RecordInv(u)'
      BY <1>0, <1>4, <2>1
         DEF StopLaunch, StopGame, End, RecordInv, ServerEffect, Quiet, NativeTypeOK
    <2> QED BY <2>1, <2>2, <2>3 DEF Preserved, SomeEffect
  <1> QED BY <1>1, <1>2, <1>3, <1>4 DEF LaunchStep

LEMMA SupervisorPreserves ==
  ASSUME NInv, NEW u \in PLAYERS, EmulatorEnds(u) \/ SupervisorStep(u)
  PROVE  Preserved(u)
  <1> USE DEF launchVars, processVars, pageVars, Goto, Delivered, Lost
  <1>0. ClientInv(u) /\ RecordInv(u) /\ NativeTypeOK /\ IInv
    BY DEF NInv
  <1>1. CASE EmulatorEnds(u) \/ EmitExit(u)
    <2>1. ServerEffect(Quiet)
      BY <1>1, Unchanged DEF EmulatorEnds, EmitExit
    <2>2. /\ \A w \in PLAYERS \ {u} : Same(w)
          /\ ClientInv(u)' /\ NativeTypeOK'
      <3>1. \A w \in PLAYERS \ {u} : Same(w)
        BY <1>0, <1>1
           DEF EmulatorEnds, EmitExit, End, Attempts, NativeTypeOK, Same
      <3>2. ClientInv(u)'
        BY <1>0, <1>1
           DEF EmulatorEnds, EmitExit, End, Attempts, NativeTypeOK, ClientInv, BeforeSpawn
      <3>3. NativeTypeOK'
        BY <1>0, <1>1, EndTypes
           DEF EmulatorEnds, EmitExit, NativeTypeOK, Steps, Processes, ClientInv
      <3> QED BY <3>1, <3>2, <3>3
    <2>3. RecordInv(u)'
      BY <1>0, <1>1, <2>1
         DEF EmulatorEnds, EmitExit, End, RecordInv, ServerEffect, Quiet, NativeTypeOK
    <2> QED BY <2>1, <2>2, <2>3 DEF Preserved, SomeEffect
  <1>2. CASE ReportExit(u) \/ FinishRoom(u)
    <2>1. ServerEffect(Quiet) \/ ServerEffect(Exits(u))
      BY <1>0, <1>2, ExitEffect, Unchanged DEF ReportExit, FinishRoom
    <2>2. /\ \A w \in PLAYERS \ {u} : Same(w)
          /\ ClientInv(u)' /\ NativeTypeOK'
      <3>1. \A w \in PLAYERS \ {u} : Same(w)
        BY <1>0, <1>2
           DEF ReportExit, FinishRoom, HasExited, NativeTypeOK, Same
      <3>2. ClientInv(u)'
        BY <1>0, <1>2
           DEF ReportExit, FinishRoom, HasExited, NativeTypeOK, ClientInv, BeforeSpawn
      <3>3. NativeTypeOK'
        <4>1. CASE ReportExit(u)
          <5>1. tries[u] \in 1..3
            BY <1>0, <4>1 DEF ReportExit, HasExited, ClientInv
          <5>2. proc' \in [PLAYERS -> Processes] /\ tries' \in [PLAYERS -> 0..3]
            BY <1>0, <4>1, <5>1 DEF ReportExit, NativeTypeOK, Processes
          <5>3. losses' \in 0..LOSSES
            BY <1>0, <4>1, MatchAssumption DEF ReportExit, NativeTypeOK
          <5> QED BY <1>0, <4>1, <5>2, <5>3 DEF ReportExit, NativeTypeOK
        <4>2. CASE FinishRoom(u)
          <5>1. losses' \in 0..LOSSES
            BY <1>0, <4>2, MatchAssumption DEF FinishRoom, NativeTypeOK
          <5> QED BY <1>0, <4>2, <5>1 DEF FinishRoom, NativeTypeOK
        <4> QED BY <1>2, <4>1, <4>2
      <3> QED BY <3>1, <3>2, <3>3
    <2>3. proc[u] \notin {"none", "running"} /\ proc'[u] \notin {"none", "running"}
          /\ page'[u] = page[u]
      BY <1>0, <1>2 DEF ReportExit, FinishRoom, HasExited, ClientInv, NativeTypeOK
    <2>4. RecordInv(u)'
      BY <1>0, <2>1, <2>3 DEF RecordInv, ServerEffect, Quiet, Exits, Terminal
    <2> QED BY <2>1, <2>2, <2>4 DEF Preserved, SomeEffect
  <1> QED BY <1>1, <1>2 DEF SupervisorStep

LEMMA PagePreserves ==
  ASSUME NInv, NEW u \in PLAYERS, Leave(u) \/ CancelOnLeave(u) \/ ShowOtherMatch(u) \/ Quit(u)
  PROVE  Preserved(u)
  <1> USE DEF launchVars, processVars, pageVars, Delivered, Lost, CloseAs, TunnelStops
  <1>0. ClientInv(u) /\ RecordInv(u) /\ NativeTypeOK /\ IInv
    BY DEF NInv
  <1>1. CASE Leave(u)
    <2>1. ServerEffect(Quiet)
      BY <1>1, Unchanged DEF Leave
    <2>2. /\ \A w \in PLAYERS \ {u} : Same(w)
          /\ ClientInv(u)' /\ NativeTypeOK'
      <3>1. \A w \in PLAYERS \ {u} : Same(w)
        BY <1>0, <1>1
           DEF Leave, StopGame, End, Attempts, NativeTypeOK, Same
      <3>2. ClientInv(u)'
        BY <1>0, <1>1
           DEF Leave, StopGame, End, Attempts, NativeTypeOK, ClientInv, BeforeSpawn
      <3>3. NativeTypeOK'
        BY <1>0, <1>1, EndTypes
           DEF Leave, NativeTypeOK, Steps, Processes,
               ClientInv
      <3> QED BY <3>1, <3>2, <3>3
    <2>3. RecordInv(u)'
      BY <1>0, <1>1, <2>1
         DEF Leave, StopGame, End, RecordInv, ServerEffect, Quiet, NativeTypeOK
    <2> QED BY <2>1, <2>2, <2>3 DEF Preserved, SomeEffect
  <1>2. CASE CancelOnLeave(u)
    <2>1. ServerEffect(Quiet) \/ ServerEffect(Closes)
      BY <1>0, <1>2, CancelEffect, Unchanged DEF CancelOnLeave
    <2>2. /\ \A w \in PLAYERS \ {u} : Same(w)
          /\ ClientInv(u)' /\ NativeTypeOK'
      <3>1. \A w \in PLAYERS \ {u} : Same(w)
        BY <1>0, <1>2
           DEF CancelOnLeave, Done, Stays, NativeTypeOK, Same
      <3>2. ClientInv(u)'
        BY <1>0, <1>2
           DEF CancelOnLeave, Done, Stays, NativeTypeOK, ClientInv, BeforeSpawn
      <3>3. losses' \in 0..LOSSES
        BY <1>0, <1>2, MatchAssumption DEF CancelOnLeave, NativeTypeOK
      <3>4. NativeTypeOK'
        BY <1>0, <1>2, <3>3 DEF CancelOnLeave, Done, Stays, NativeTypeOK
      <3> QED BY <3>1, <3>2, <3>4
    <2>3. page'[u] = "left" => page[u] = "left" \/ ServerEffect(Closes)
      BY <1>0, <1>2, CancelEffect DEF CancelOnLeave, Done, Stays, NativeTypeOK
    <2>4. RecordInv(u)'
      BY <1>0, <1>2, <2>1, <2>3
         DEF CancelOnLeave, RecordInv, ServerEffect, Quiet, Closes, Terminal
    <2> QED BY <2>1, <2>2, <2>4 DEF Preserved, SomeEffect
  <1>3. CASE Quit(u)
    <2>1. ServerEffect(Quiet)
      BY <1>3, Unchanged DEF Quit
    <2>2. /\ \A w \in PLAYERS \ {u} : Same(w)
          /\ ClientInv(u)' /\ NativeTypeOK'
      <3>1. \A w \in PLAYERS \ {u} : Same(w)
        BY <1>0, <1>3
           DEF Quit, NativeTypeOK, Same
      <3>2. ClientInv(u)'
        BY <1>0, <1>3
           DEF Quit, NativeTypeOK, ClientInv, BeforeSpawn
      <3>3. NativeTypeOK'
        BY <1>0, <1>3, MatchAssumption
           DEF Quit, NativeTypeOK, Steps, Processes, ClientInv
      <3> QED BY <3>1, <3>2, <3>3
    <2>3. RecordInv(u)'
      BY <1>0, <1>3, <2>1 DEF Quit, RecordInv, ServerEffect, Quiet, NativeTypeOK
    <2> QED BY <2>1, <2>2, <2>3 DEF Preserved, SomeEffect
  <1>4. CASE ShowOtherMatch(u)
    <2>1. ServerEffect(Quiet)
      BY <1>4, Unchanged DEF ShowOtherMatch
    <2>2. /\ \A w \in PLAYERS \ {u} : Same(w)
          /\ ClientInv(u)' /\ NativeTypeOK'
      BY <1>0, <1>4 DEF ShowOtherMatch, NativeTypeOK, Same, ClientInv
    <2>3. RecordInv(u)'
      BY <1>0, <1>4, <2>1 DEF ShowOtherMatch, RecordInv, ServerEffect, Quiet, NativeTypeOK
    <2> QED BY <2>1, <2>2, <2>3 DEF Preserved, SomeEffect
  <1> QED BY <1>1, <1>2, <1>3, <1>4

LEMMA NInvStep == NInv /\ [NativeNext]_nativeMatchVars => NInv' /\ [Next]_vars
  <1> SUFFICES ASSUME NInv, [NativeNext]_nativeMatchVars PROVE NInv' /\ [Next]_vars
    OBVIOUS
  <1>1. CASE \E u \in PLAYERS : LaunchStep(u) \/ SupervisorStep(u) \/ PlayerStep(u)
    <2>1. PICK u \in PLAYERS : Preserved(u)
      BY <1>1, LaunchPreserves, SupervisorPreserves, PagePreserves DEF PlayerStep
    <2>2. [Next]_vars /\ members' = members
      BY <2>1 DEF Preserved, SomeEffect, ServerEffect
    <2>3. IInv'
      BY <2>2, InvStep DEF NInv
    <2>4. \A w \in PLAYERS : ClientInv(w)' /\ RecordInv(w)'
      BY <2>1, OtherPlayer DEF Preserved
    <2> QED BY <2>1, <2>2, <2>3, <2>4 DEF NInv, Preserved
  <1>2. CASE ServerStep \/ UNCHANGED nativeMatchVars
    <2> USE DEF clientVars, launchVars, processVars, pageVars, nativeMatchVars
    <2>1. UNCHANGED clientVars
      BY <1>2 DEF ServerStep
    <2>2. ServerEffect(Quiet) \/ ServerEffect(Closes)
      BY <1>2, TimeEffect, Unchanged DEF NInv
    <2>3. [Next]_vars /\ members' = members
      BY <2>2 DEF ServerEffect
    <2>4. IInv'
      BY <2>3, InvStep DEF NInv
    <2>5. ASSUME NEW w \in PLAYERS PROVE ClientInv(w)' /\ RecordInv(w)'
      <3>1. ClientInv(w) /\ RecordInv(w)
        BY DEF NInv
      <3>2. ClientInv(w)'
        BY <2>1, <3>1 DEF ClientInv
      <3>3. RecordInv(w)'
        BY <2>1, <2>2, <3>1 DEF RecordInv, ServerEffect, Quiet, Closes, Terminal
      <3> QED BY <3>2, <3>3
    <2>6. NativeTypeOK'
      BY <2>1 DEF NInv, NativeTypeOK
    <2> QED BY <2>3, <2>4, <2>5, <2>6 DEF NInv
  <1> QED BY <1>1, <1>2 DEF NativeNext

\* A player whose process and reports do not change, whatever else does.
LEMMA LossKept ==
  ASSUME NInv, NEW u \in PLAYERS, NEW w \in PLAYERS, SomeEffect(u), LossOf(w),
         losses' \in {losses, losses + 1},
         UNCHANGED <<proc[w], tries[w], early[w]>>
  PROVE  LossOf(w)'
  <1>1. launched[ROOM] \subseteq launched'[ROOM] /\ ended[ROOM] \subseteq ended'[ROOM]
    BY RoomOfMatch
       DEF SomeEffect, ServerEffect, Quiet, Launches, Exits, Closes, NInv, IInv,
           MatchNeedsBothProcesses
  <1>2. losses \in Nat /\ tries[w] \in Nat
    BY MatchAssumption DEF NInv, NativeTypeOK
  <1> QED BY <1>1, <1>2 DEF LossOf

\* A process that ends is on record, or ended early.
LEMMA LossEnds ==
  ASSUME NInv, NEW u \in PLAYERS, End(u), UNCHANGED <<vars, losses>>
  PROVE  LossOf(u)'
  <1>1. proc'[u] = "exited" /\ tries'[u] = 3 /\ losses' \in Nat
    BY MatchAssumption DEF End, Attempts, NInv, NativeTypeOK
  <1>2. ~early'[u] => u \in launched[ROOM]
    BY DEF End, NInv, NativeTypeOK
  <1>3. launched' = launched
    BY DEF vars, nativeVars
  <1> QED BY <1>1, <1>2, <1>3 DEF LossOf

\* A report that fails was lost, or the process had ended early.
LEMMA LossReports ==
  ASSUME NInv, NEW u \in PLAYERS, LossOf(u), ReportExit(u)
  PROVE  LossOf(u)'
  <1> USE DEF Delivered, Lost
  <1>1. /\ proc[u] = "exited" /\ tries[u] \in 1..3
        /\ losses \in Nat /\ losses' \in Nat /\ early' = early
    BY MatchAssumption DEF ReportExit, HasExited, NInv, ClientInv, NativeTypeOK
  <1>2. CASE ConfirmExit(u, ROOM)
    <2>1. u \in ended'[ROOM]
      BY <1>2, ExitEffect DEF ServerEffect, Exits, NInv
    <2> QED BY <2>1 DEF LossOf
  <1>3. CASE UNCHANGED vars
    <2>1. launched' = launched /\ ended' = ended
      BY <1>3 DEF vars, nativeVars
    <2>2. CASE u \notin launched[ROOM]
      BY <1>1, <2>1, <2>2 DEF LossOf
    <2>3. CASE losses' = losses + 1
      <3>1. /\ proc'[u] = (IF tries[u] > 1 THEN "exited" ELSE "reaped")
            /\ proc'[u] = "exited" => tries'[u] = tries[u] - 1
        BY <1>1, <2>3 DEF ReportExit, NInv, NativeTypeOK
      <3> QED BY <1>1, <2>1, <2>3, <3>1 DEF LossOf
    <2>4. CASE u \in launched[ROOM] /\ losses' = losses
      <3>1. ConfirmExit(u, ROOM)
        BY <1>1, <2>4 DEF ReportExit
      <3> QED BY <3>1, <1>2
    <2> QED BY <1>1, <2>2, <2>3, <2>4 DEF ReportExit
  <1> QED BY <1>2, <1>3 DEF ReportExit

LEMMA LossStep == NInv /\ LossInv /\ [NativeNext]_nativeMatchVars => LossInv'
  <1> SUFFICES ASSUME NInv, LossInv, [NativeNext]_nativeMatchVars, NEW w \in PLAYERS
               PROVE  LossOf(w)'
    BY DEF LossInv
  <1> USE DEF clientVars, launchVars, processVars, pageVars, nativeMatchVars, Goto, Delivered, Lost
  <1>0. LossOf(w) /\ NativeTypeOK
    BY DEF LossInv, NInv
  <1>1. ASSUME NEW u \in PLAYERS, LaunchStep(u) \/ SupervisorStep(u) \/ PlayerStep(u)
        PROVE  LossOf(w)'
    <2>1. Preserved(u)
      BY <1>1, LaunchPreserves, SupervisorPreserves, PagePreserves DEF PlayerStep
    <2>2. losses' \in {losses, losses + 1}
      BY <1>1 DEF LaunchStep, SupervisorStep, PlayerStep, RequestLaunch, StartTunnel, TakeGrant,
                  UseGrant, Spawn, Start, FinishLaunch, StopLaunch, UndoLaunch, EmulatorEnds,
                  ReportExit, EmitExit, FinishRoom, Leave, CancelOnLeave,
                  ShowOtherMatch, Quit
    <2>3. CASE UNCHANGED <<proc[w], tries[w], early[w]>>
      BY <1>0, <2>1, <2>2, <2>3, LossKept DEF Preserved
    <2>4. CASE w # u
      BY <2>1, <2>3, <2>4 DEF Preserved, Same
    <2>5. CASE w = u
      <3>1. CASE StopLaunch(u) \/ EmulatorEnds(u) \/ Leave(u)
        <4>1. UNCHANGED <<vars, losses>> /\ (End(u) \/ UNCHANGED <<proc, tries, early>>)
          BY <3>1 DEF StopLaunch, EmulatorEnds, Leave, StopGame
        <4> QED BY <2>3, <2>5, <4>1, LossEnds
      <3>2. CASE ReportExit(u)
        BY <1>0, <2>5, <3>2, LossReports
      <3>3. CASE EmitExit(u)
        <4>1. /\ proc[u] = "reaped" /\ proc'[u] = "over"
              /\ losses' = losses /\ early' = early /\ UNCHANGED vars
          BY <1>0, <3>3 DEF EmitExit, NativeTypeOK
        <4>2. launched' = launched /\ ended' = ended
          BY <4>1 DEF vars, nativeVars
        <4> QED BY <1>0, <2>5, <4>1, <4>2 DEF LossOf
      <3>4. CASE Spawn(u)
        <4>1. proc'[u] = "running" \/ UNCHANGED <<proc, tries, early>>
          BY <1>0, <3>4 DEF Spawn, NativeTypeOK
        <4> QED BY <2>3, <2>5, <4>1 DEF LossOf
      <3>5. CASE Quit(u)
        <4>1. proc'[u] \in {"none", "dead"}
          BY <1>0, <3>5 DEF Quit, NativeTypeOK
        <4> QED BY <2>5, <4>1 DEF LossOf
      <3>6. CASE \/ RequestLaunch(u) \/ StartTunnel(u) \/ TakeGrant(u) \/ UseGrant(u)
                 \/ Start(u) \/ FinishLaunch(u) \/ UndoLaunch(u) \/ FinishRoom(u)
                 \/ CancelOnLeave(u) \/ ShowOtherMatch(u)
        <4>1. UNCHANGED <<proc, tries, early>>
          BY <3>6 DEF RequestLaunch, StartTunnel, TakeGrant, UseGrant, Start, FinishLaunch,
                      UndoLaunch, FinishRoom, CancelOnLeave, ShowOtherMatch
        <4> QED BY <2>3, <4>1
      <3> QED BY <1>1, <3>1, <3>2, <3>3, <3>4, <3>5, <3>6
              DEF LaunchStep, SupervisorStep, PlayerStep
    <2> QED BY <2>4, <2>5
  <1>2. CASE ServerStep \/ UNCHANGED nativeMatchVars
    <2>1. UNCHANGED clientVars
      BY <1>2 DEF ServerStep
    <2>2. SomeEffect(w)
      BY <1>2, TimeEffect, Unchanged DEF NInv, SomeEffect
    <2> QED BY <1>0, <2>1, <2>2, LossKept
  <1> QED BY <1>1, <1>2 DEF NativeNext

-----------------------------------------------------------------------------
(* Theorems *)

LEMMA NativeInvariant == NativeSpec => []NInv
  <1>1. NativeInit => NInv
    BY NInvInit
  <1> QED BY <1>1, NInvStep, PTL DEF NativeSpec

\* Whatever two clients do, each request of theirs is one the lifecycle knows, so
\* that what is proved of its rooms by induction holds of the match's room.
THEOREM NativeKeepsLifecycle == NativeSpec => [][Next]_vars /\ []MatchNeedsBothProcesses
  <1>1. NInv => MatchNeedsBothProcesses
    BY DEF NInv, IInv
  <1> QED BY <1>1, NativeInvariant, NInvStep, PTL DEF NativeSpec

\* The clients' variables keep their types, with any number of lost requests.
THEOREM NativeTypeCorrect == NativeSpec => []NativeTypeOK
  <1>1. NInv => NativeTypeOK
    BY DEF NInv
  <1> QED BY <1>1, NativeInvariant, PTL

\* A finished match is one whose two emulators ran and ended.
THEOREM FinishedMatchesAreOver == NativeSpec => []FinishedMatchIsOver
  <1>1. NInv => FinishedMatchIsOver
    <2> SUFFICES ASSUME NInv, room[ROOM] = "FINISHED", NEW u \in PLAYERS
                 PROVE  proc[u] \notin {"none", "running"}
      BY DEF FinishedMatchIsOver
    <2>1. u \in ended[ROOM]
      BY RoomOfMatch DEF NInv, IInv, MatchNeedsBothProcesses
    <2> QED BY <2>1 DEF NInv, RecordInv
  <1> QED BY <1>1, NativeInvariant, PTL

\* A failed launch has left nothing running.
THEOREM FailedLaunchesLeaveNothing == NativeSpec => []FailedLaunchLeavesNothing
  <1>1. NInv => FailedLaunchLeavesNothing
    BY DEF NInv, ClientInv, FailedLaunchLeavesNothing
  <1> QED BY <1>1, NativeInvariant, PTL

\* A page that "Leave match" closed is one whose room is over, whatever becomes of the
\* request that cancels it.  The pages it closes before their room is fetched, and those
\* that another match replaces, are not meant: they are "dropped".
THEOREM LeftRoomsAreOver == NativeSpec => []LeftRoomIsOver
  <1>1. NInv => LeftRoomIsOver
    BY DEF NInv, RecordInv, LeftRoomIsOver
  <1> QED BY <1>1, NativeInvariant, PTL

\* The end of an emulator that was on record comes to be on record, whichever of
\* its reports are lost, as long as one of the supervisor's three is not.
THEOREM RecordedExitsArrive ==
  ASSUME LOSSES < Attempts
  PROVE  NativeSpec => []RecordedLaunchEnds
  <1>1. NInv /\ LossInv => RecordedLaunchEnds
    <2> SUFFICES ASSUME NInv, LossInv, NEW u \in PLAYERS, Reported(u), ~early[u],
                        u \notin ended[ROOM]
                 PROVE  FALSE
      BY DEF RecordedLaunchEnds
    <2>1. losses >= 3
      BY DEF LossInv, LossOf, Reported
    <2> QED BY <2>1, MatchAssumption DEF Attempts, NInv, NativeTypeOK
  <1>2. NativeSpec => []LossInv
    BY NInvInit, LossStep, NativeInvariant, PTL DEF NativeSpec
  <1> QED BY <1>1, <1>2, NativeInvariant, PTL
=============================================================================
