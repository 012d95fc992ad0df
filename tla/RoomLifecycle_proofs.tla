------------------------ MODULE RoomLifecycle_proofs ------------------------
(* Theorems about RoomLifecycle, for every set of users, games and rooms.  *)
EXTENDS RoomLifecycle, FiniteSetTheorems, TLAPS

-----------------------------------------------------------------------------
(* Type correctness *)

LEMMA TypeInit == Init => TypeOK
  BY DEF Init, TypeOK, RoomStates, AttemptStates, ChallengeStates

\* The helpers of the actions stay within the declared types.
LEMMA OutcomeTypes ==
  ASSUME NEW old \in AttemptStates \union {"NONE"}, NEW outcome \in AttemptStates
  PROVE  Settle(old, outcome) \in AttemptStates \union {"NONE"}
  BY DEF Settle

LEMMA TargetTypes == \A event \in RoomEvents : Target(event) \in RoomStates
  BY DEF Target, RoomEvents, RoomStates

LEMMA InsertRoomTypes ==
  ASSUME TypeOK, NEW u \in USERS, NEW g \in GAMES \union {NULL}, NEW r \in ROOMS, NEW state \in RoomStates,
         NEW closed, NEW settled, InsertRoom(u, g, r, state, closed, settled)
  PROVE  /\ room'    \in [ROOMS -> RoomStates \union {"NONE"}]
         /\ host'    \in [ROOMS -> USERS \union {NULL}]
         /\ game'    \in [ROOMS -> GAMES \union {NULL}]
         /\ due'     \in [ROOMS -> {"none", "running", "past"}]
         /\ members' \in [ROOMS -> SUBSET USERS]
         /\ attempt' \in [ROOMS -> AttemptStates \union {"NONE"}]
  <1>1. room' \in [ROOMS -> RoomStates \union {"NONE"}]
    BY DEF InsertRoom, MoveRoom, TypeOK, RoomStates
  <1>2. attempt' \in [ROOMS -> AttemptStates \union {"NONE"}]
    BY DEF InsertRoom, TypeOK, AttemptStates, Settle
  <1> QED BY <1>1, <1>2 DEF InsertRoom, TypeOK

LEMMA SeatGuestTypes ==
  ASSUME TypeOK, NEW u \in USERS, NEW r \in ROOMS, NEW closed, NEW undated,
         SeatGuest(u, r, closed, undated)
  PROVE  /\ room'    \in [ROOMS -> RoomStates \union {"NONE"}]
         /\ host'    \in [ROOMS -> USERS \union {NULL}]
         /\ game'    \in [ROOMS -> GAMES \union {NULL}]
         /\ due'     \in [ROOMS -> {"none", "running", "past"}]
         /\ members' \in [ROOMS -> SUBSET USERS]
         /\ attempt' \in [ROOMS -> AttemptStates \union {"NONE"}]
  <1>1. room' \in [ROOMS -> RoomStates \union {"NONE"}]
    BY DEF SeatGuest, MoveRoom, TypeOK, RoomStates, Target
  <1>2. attempt' \in [ROOMS -> AttemptStates \union {"NONE"}]
    BY DEF SeatGuest, TypeOK, AttemptStates, Settle
  <1>3. due' \in [ROOMS -> {"none", "running", "past"}]
    <2>1. due' = [x \in ROOMS |-> IF x = r THEN "running"
                                  ELSE IF x \in undated THEN "none" ELSE due[x]]
      BY DEF SeatGuest
    <2>2. \A x \in ROOMS : due[x] \in {"none", "running", "past"}
      BY DEF TypeOK
    <2> QED BY <2>1, <2>2
  <1>4. members' \in [ROOMS -> SUBSET USERS]
    <2>1. members \in [ROOMS -> SUBSET USERS] /\ members[r] \union {u} \in SUBSET USERS
      BY DEF TypeOK
    <2> QED BY <2>1 DEF SeatGuest
  <1>5. host' \in [ROOMS -> USERS \union {NULL}] /\ game' \in [ROOMS -> GAMES \union {NULL}]
    BY DEF SeatGuest, TypeOK
  <1> QED BY <1>1, <1>2, <1>3, <1>4, <1>5

LEMMA CloseRoomTypes ==
  ASSUME TypeOK, NEW r \in ROOMS, NEW state \in RoomStates, NEW outcome \in AttemptStates,
         CloseRoom(r, state, outcome)
  PROVE  /\ room'    \in [ROOMS -> RoomStates \union {"NONE"}]
         /\ due'     \in [ROOMS -> {"none", "running", "past"}]
         /\ attempt' \in [ROOMS -> AttemptStates \union {"NONE"}]
  BY OutcomeTypes DEF CloseRoom, TypeOK

\* Every action keeps every column within its type.
LEMMA TypeStep == TypeOK /\ [Next]_vars => TypeOK'
  <1> SUFFICES ASSUME TypeOK, [Next]_vars PROVE TypeOK'
    OBVIOUS
  <1> USE DEF roomVars, challengeVars, grantVars, nativeVars
  <1>1. ASSUME NEW u \in USERS, NEW r \in ROOMS, NEW g \in GAMES, CreateRoom(u, g, r)
        PROVE  TypeOK'
    <2>1. InsertRoom(u, g, r, "WAITING", {}, {})
      BY <1>1 DEF CreateRoom
    <2> QED BY <1>1, <2>1, InsertRoomTypes DEF CreateRoom, TypeOK, RoomStates
  <1>2. ASSUME NEW u \in USERS, NEW r \in ROOMS, NEW src \in ROOMS,
               CreateMatchReceipt(u, src, r)
        PROVE  TypeOK'
    <2>1. InsertRoom(u, game[src], r, "WAITING", WaitingRooms(u, game[src]), {})
      BY <1>2 DEF CreateMatchReceipt
    <2>2. game[src] \in GAMES \union {NULL}
      BY DEF TypeOK
    <2>3. /\ receipts' \in [ROOMS -> SUBSET USERS] /\ invites' \subseteq ROOMS
          /\ UNCHANGED <<challengeVars, grantVars, nativeVars>>
      BY <1>2 DEF CreateMatchReceipt, TypeOK
    <2>4. "WAITING" \in RoomStates
      BY DEF RoomStates
    <2>5. /\ room' \in [ROOMS -> RoomStates \union {"NONE"}]
          /\ host' \in [ROOMS -> USERS \union {NULL}]
          /\ game' \in [ROOMS -> GAMES \union {NULL}]
          /\ due' \in [ROOMS -> {"none", "running", "past"}]
          /\ members' \in [ROOMS -> SUBSET USERS]
          /\ attempt' \in [ROOMS -> AttemptStates \union {"NONE"}]
      BY <2>1, <2>2, <2>4, InsertRoomTypes
    <2> QED BY <2>3, <2>5 DEF TypeOK
  <1>3. ASSUME NEW u \in USERS, NEW r \in ROOMS, AcceptRoom(u, r)
        PROVE  TypeOK'
    <2>1. SeatGuest(u, r, {}, {})
      BY <1>3 DEF AcceptRoom
    <2> QED BY <1>3, <2>1, SeatGuestTypes DEF AcceptRoom, TypeOK
  <1>4. ASSUME NEW u \in USERS, NEW r \in ROOMS, JoinInvite(u, r)
        PROVE  TypeOK'
    <2>1. SeatGuest(u, r, WaitingRooms(u, game[r]), WaitingRooms(u, game[r]))
      BY <1>4 DEF JoinInvite
    <2> QED BY <1>4, <2>1, SeatGuestTypes DEF JoinInvite, TypeOK
  <1>5. ASSUME NEW u \in USERS, NEW r \in ROOMS, NEW event \in {"Cancel", "Decline"},
               LeaveRoom(u, r, event)
        PROVE  TypeOK'
    <2>1. CloseRoom(r, Target(event), "CANCELLED")
      BY <1>5 DEF LeaveRoom
    <2>2. Target(event) \in RoomStates
      BY TargetTypes DEF RoomEvents
    <2> QED BY <1>5, <2>1, <2>2, CloseRoomTypes
            DEF LeaveRoom, TypeOK, EndMatch, AttemptStates, ChallengeStates
  <1>6. ASSUME NEW u \in USERS, NEW r \in ROOMS, NEW v \in USERS, NEW g \in GAMES,
               CreateChallenge(u, v, g, r)
        PROVE  TypeOK'
    <2>1. InsertRoom(u, g, r, "CHALLENGING", WaitingRooms(u, g), WaitingRooms(u, g))
      BY <1>6 DEF CreateChallenge
    <2>2. challenge' \in [ROOMS -> ChallengeStates \union {"NONE"}]
      BY <1>6 DEF CreateChallenge, TypeOK, ChallengeStates
    <2> QED BY <1>6, <2>1, <2>2, InsertRoomTypes DEF CreateChallenge, TypeOK, RoomStates
  <1>7. ASSUME NEW u \in USERS, NEW r \in ROOMS, AcceptChallenge(u, r)
        PROVE  TypeOK'
    <2>1. SeatGuest(u, r, WaitingRooms(u, game[r]), {})
      BY <1>7 DEF AcceptChallenge
    <2> QED BY <1>7, <2>1, SeatGuestTypes DEF AcceptChallenge, TypeOK, ChallengeStates
  <1>8. ASSUME NEW u \in USERS, NEW r \in ROOMS, NEW resolution \in {"DECLINED", "CANCELLED"},
               ResolveChallenge(u, r, resolution)
        PROVE  TypeOK'
    BY <1>8, OutcomeTypes
       DEF ResolveChallenge, TypeOK, ChallengeStates, AttemptStates, RoomStates
  <1>9. ASSUME NEW u \in USERS, NEW r \in ROOMS,
               IssueGrant(u, r) \/ ConsumeGrant(u, r) \/ GrantExpires(u, r)
        PROVE  TypeOK'
    BY <1>9 DEF IssueGrant, ConsumeGrant, GrantExpires, TypeOK
  <1>10. ASSUME NEW u \in USERS, NEW r \in ROOMS, ConfirmLaunch(u, r)
         PROVE  TypeOK'
    <2>1. Target("Start") \in RoomStates
      BY TargetTypes DEF RoomEvents
    <2>2. room' \in [ROOMS -> RoomStates \union {"NONE"}]
      BY <1>10, <2>1 DEF ConfirmLaunch, TypeOK
    <2>3. due' \in [ROOMS -> {"none", "running", "past"}]
      BY <1>10 DEF ConfirmLaunch, TypeOK
    <2>4. match' \in [ROOMS -> {"none", "open", "ended"}]
      BY <1>10 DEF ConfirmLaunch, TypeOK
    <2>5. /\ launched' = [launched EXCEPT ![r] = @ \union {u}]
          /\ issued' = [issued EXCEPT ![r] = @ \ {u}]
          /\ consumed' = [consumed EXCEPT ![r] = @ \ {u}]
          /\ UNCHANGED <<host, game, members, attempt, challengeVars, invites, ended, receipts>>
      BY <1>10 DEF ConfirmLaunch
    <2>6. /\ launched' \in [ROOMS -> SUBSET USERS] /\ issued' \in [ROOMS -> SUBSET USERS]
          /\ consumed' \in [ROOMS -> SUBSET USERS]
      BY <2>5 DEF TypeOK
    <2> QED BY <2>2, <2>3, <2>4, <2>5, <2>6 DEF TypeOK
  <1>11. ASSUME NEW u \in USERS, NEW r \in ROOMS, ConfirmExit(u, r)
         PROVE  TypeOK'
    <2>1. Target("Cancel") \in RoomStates /\ Target("Finish") \in RoomStates
      BY TargetTypes DEF RoomEvents
    <2>2. \/ CloseRoom(r, Target("Cancel"), "FAILED")
          \/ CloseRoom(r, Target("Finish"), "SUCCEEDED")
          \/ UNCHANGED <<room, due, attempt>>
      BY <1>11 DEF ConfirmExit
    <2>3. /\ room' \in [ROOMS -> RoomStates \union {"NONE"}]
          /\ due' \in [ROOMS -> {"none", "running", "past"}]
          /\ attempt' \in [ROOMS -> AttemptStates \union {"NONE"}]
      <3>1. CASE UNCHANGED <<room, due, attempt>>
        BY <3>1 DEF TypeOK
      <3> QED BY <2>1, <2>2, <3>1, CloseRoomTypes DEF AttemptStates
    <2>4. match' = match \/ match' = [match EXCEPT ![r] = EndMatch(@)]
      BY <1>11 DEF ConfirmExit
    <2>5. match' \in [ROOMS -> {"none", "open", "ended"}]
      BY <2>4 DEF TypeOK, EndMatch
    <2>6. /\ ended' = [ended EXCEPT ![r] = @ \union {u}]
          /\ UNCHANGED <<host, game, members, challengeVars, invites, grantVars, launched,
                         receipts>>
      BY <1>11 DEF ConfirmExit
    <2>7. ended' \in [ROOMS -> SUBSET USERS]
      BY <2>6 DEF TypeOK
    <2> QED BY <2>3, <2>5, <2>6, <2>7 DEF TypeOK
  <1>12. ASSUME NEW r \in ROOMS, CreateInvite(r) \/ InviteExpires(r)
         PROVE  TypeOK'
    BY <1>12 DEF CreateInvite, InviteExpires, TypeOK
  <1>13. ASSUME NEW r \in ROOMS, RoomDeadlinePasses(r) \/ ChallengeExpires(r)
         PROVE  TypeOK'
    <2>1. due' \in [ROOMS -> {"none", "running", "past"}]
      BY <1>13 DEF RoomDeadlinePasses, ChallengeExpires, TypeOK
    <2>2. stale' \in [ROOMS -> BOOLEAN]
      BY <1>13 DEF RoomDeadlinePasses, ChallengeExpires, TypeOK
    <2>3. UNCHANGED <<room, host, game, members, attempt, challenge, challenged, invites,
                      grantVars, nativeVars, receipts>>
      BY <1>13 DEF RoomDeadlinePasses, ChallengeExpires
    <2> QED BY <2>1, <2>2, <2>3 DEF TypeOK
  <1>14. ASSUME NEW cs \in SUBSET StaleChallenges, NEW rs \in SUBSET Overdue, Reconcile(cs, rs)
         PROVE  TypeOK'
    <2>1. attempt' \in [ROOMS -> AttemptStates \union {"NONE"}]
      BY <1>14 DEF Reconcile, TypeOK, Settle, AttemptStates
    <2>2. match' \in [ROOMS -> {"none", "open", "ended"}]
      BY <1>14 DEF Reconcile, TypeOK, EndMatch
    <2> QED BY <1>14, <2>1, <2>2 DEF Reconcile, TypeOK, ChallengeStates, RoomStates
  <1>15. CASE UNCHANGED vars
    BY <1>15 DEF vars, TypeOK
  <1> QED BY <1>1, <1>2, <1>3, <1>4, <1>5, <1>6, <1>7, <1>8, <1>9, <1>10, <1>11, <1>12, <1>13,
             <1>14, <1>15
          DEF Next, RoomRequest, ChallengeRequest, LaunchRequest, TimePasses, ReconcilePass

\* Every reachable state has the declared shape.
THEOREM TypeCorrect == Spec => []TypeOK
  BY TypeInit, TypeStep, PTL DEF Spec

-----------------------------------------------------------------------------
(* The inductive invariant *)

\* What the safety properties leave unsaid and their induction needs: an unused
\* room id has nothing attached to it, nothing has been launched before the second
\* seat is taken, the matches row follows the room's state until the room closes,
\* and nobody challenges themself.
Bookkeeping ==
  \A r \in ROOMS :
    /\ room[r] # "READY"
    /\ room[r] = "NONE" => /\ attempt[r] = "NONE" /\ challenge[r] = "NONE"
                           /\ members[r] = {} /\ match[r] = "none"
    /\ room[r] \in {"WAITING", "CHALLENGING"} => launched[r] = {}
    /\ room[r] \in {"WAITING", "CHALLENGING", "CONNECTING"} => match[r] = "none"
    /\ room[r] = "PLAYING" => match[r] = "open"
    /\ challenge[r] # "NONE" => challenged[r] # host[r]

\* None of the parts is inductive without the others: that a second launch starts
\* a match (MatchNeedsBothProcesses) needs two seats, no earlier exit and no
\* matches row; that exits settle the attempt needs it to be ACTIVE; and so on.
IInv ==
  /\ TypeOK
  /\ Bookkeeping
  /\ MatchNeedsBothProcesses
  /\ TwoSeats
  /\ OpenRoomIsTracked
  /\ OutcomeMatchesPlay
  /\ EarlyExitPreventsMatch
  /\ ChallengingRoomAwaitsAnswer
  /\ AcceptedChallengeIsSeated

LEMMA InvInit == Init => IInv
  <1> SUFFICES ASSUME Init PROVE IInv
    OBVIOUS
  <1>1. TypeOK
    BY TypeInit
  <1>2. Bookkeeping /\ MatchNeedsBothProcesses /\ TwoSeats /\ OpenRoomIsTracked
    BY DEF Init, Bookkeeping, MatchNeedsBothProcesses, TwoSeats, OpenRoomIsTracked, Open
  <1>3. /\ OutcomeMatchesPlay /\ EarlyExitPreventsMatch
        /\ ChallengingRoomAwaitsAnswer /\ AcceptedChallengeIsSeated
    BY DEF Init, OutcomeMatchesPlay, EarlyExitPreventsMatch, ChallengingRoomAwaitsAnswer,
           AcceptedChallengeIsSeated
  <1> QED BY <1>1, <1>2, <1>3 DEF IInv

\* The values of the transition function that the actions use.
LEMMA AcceptedValues ==
  /\ AcceptedIn("Accept") = {"WAITING", "CHALLENGING"}
  /\ \A event \in {"Cancel", "Decline"} :
       AcceptedIn(event) = {"WAITING", "READY", "CHALLENGING", "CONNECTING", "PLAYING"}
  BY DEF AcceptedIn

LEMMA TargetValues ==
  /\ Target("Accept") = "CONNECTING"
  /\ Target("Start") = "PLAYING"
  /\ Target("Finish") = "FINISHED"
  /\ Target("Cancel") = "CANCELLED"
  /\ Target("Decline") = "CANCELLED"
  BY DEF Target

\* Comparing the counts, as the SQL does, tells whether both members are recorded.
LEMMA CountsCompareSets ==
  ASSUME NEW r \in ROOMS, NEW h, NEW g, h # g, members[r] = {h, g},
         NEW recorded \in SUBSET members[r]
  PROVE  BothMembers(r, recorded) <=> recorded = members[r]
  <1>1. IsFiniteSet({h, g}) /\ Cardinality({h, g}) = 2
    <2>1. IsFiniteSet({h}) /\ Cardinality({h}) = 1
      BY FS_Singleton
    <2>2. {h, g} = {h} \union {g} /\ g \notin {h}
      OBVIOUS
    <2> QED BY <2>1, <2>2, FS_AddElement
  <1>2. Cardinality(recorded) = 2 => recorded = {h, g}
    BY <1>1, FS_Subset
  <1> QED BY <1>1, <1>2 DEF BothMembers

\* Once two sit in a room, the counts compare the sets.
LEMMA SeatedCounts ==
  ASSUME TypeOK, TwoSeats, NEW r \in ROOMS, room[r] \in {"CONNECTING", "PLAYING"},
         NEW recorded \in SUBSET members[r]
  PROVE  BothMembers(r, recorded) <=> recorded = members[r]
  <1>1. PICK guest \in USERS \ {host[r]} : members[r] = {host[r], guest}
    BY DEF TwoSeats
  <1> QED BY <1>1, CountsCompareSets

\* Taking the second seat, which three handlers do.
LEMMA InvSeatGuest ==
  ASSUME IInv, TypeOK', NEW u \in USERS, NEW r \in ROOMS,
         NEW closed \in SUBSET ROOMS, NEW undated \in SUBSET closed,
         SeatGuest(u, r, closed, undated),
         host[r] # u, room[r] \in {"WAITING", "CHALLENGING"},
         r \notin closed, \A q \in closed : room[q] = "WAITING",
         UNCHANGED nativeVars, UNCHANGED <<challenged, stale>>,
         \/ UNCHANGED challenge
         \/ challenged[r] = u /\ challenge' = [challenge EXCEPT ![r] = "ACCEPTED"]
  PROVE  IInv'
  <1> USE DEF IInv, TypeOK, roomVars, challengeVars, grantVars, nativeVars,
          SeatGuest, MoveRoom, Settle
  <1> USE TargetValues
  <1>1. Bookkeeping'
    BY DEF Bookkeeping
  <1>2. MatchNeedsBothProcesses'
    BY DEF MatchNeedsBothProcesses, Bookkeeping, EarlyExitPreventsMatch, TwoSeats
  <1>3. TwoSeats'
    BY DEF TwoSeats, Bookkeeping, MatchNeedsBothProcesses, EarlyExitPreventsMatch
  <1>4. OpenRoomIsTracked'
    BY DEF OpenRoomIsTracked, Open
  <1>5. OutcomeMatchesPlay'
    BY DEF OutcomeMatchesPlay, OpenRoomIsTracked, Open, Bookkeeping,
           MatchNeedsBothProcesses
  <1>6. EarlyExitPreventsMatch'
    BY DEF EarlyExitPreventsMatch, Bookkeeping, MatchNeedsBothProcesses
  <1>7. ChallengingRoomAwaitsAnswer'
    BY DEF ChallengingRoomAwaitsAnswer, PendingAndFresh, Bookkeeping
  <1>8. AcceptedChallengeIsSeated'
    BY DEF AcceptedChallengeIsSeated, TwoSeats, Bookkeeping
  <1> QED BY <1>1, <1>2, <1>3, <1>4, <1>5, <1>6, <1>7, <1>8

\* Opening a room, which three handlers do.
LEMMA InvInsertRoom ==
  ASSUME IInv, TypeOK', NEW u \in USERS, NEW r \in ROOMS,
         NEW g, NEW closed \in SUBSET ROOMS, NEW settled \in SUBSET closed,
         NEW state \in {"WAITING", "CHALLENGING"},
         InsertRoom(u, g, r, state, closed, settled),
         \A q \in closed : room[q] = "WAITING",
         UNCHANGED nativeVars,
         \/ state = "WAITING" /\ UNCHANGED challengeVars
         \/ /\ state = "CHALLENGING"
            /\ stale' = [stale EXCEPT ![r] = FALSE]
            /\ challenge' = [x \in ROOMS |->
                               IF x = r THEN "PENDING"
                               ELSE IF challenge[x] = "PENDING" /\ stale[x] THEN "EXPIRED"
                               ELSE challenge[x]]
            /\ \E v \in USERS \ {u} : challenged' = [challenged EXCEPT ![r] = v]
  PROVE  IInv'
  <1> USE DEF IInv, TypeOK, roomVars, challengeVars, grantVars, nativeVars,
          InsertRoom, MoveRoom, Settle
  <1>1. Bookkeeping'
    <2>1. ASSUME NEW q \in ROOMS, challenge'[q] # "NONE" PROVE challenged'[q] # host'[q]
      <3>1. CASE q = r
        BY <2>1, <3>1 DEF Bookkeeping
      <3>2. CASE q # r
        BY <2>1, <3>2 DEF Bookkeeping
      <3> QED BY <3>1, <3>2
    <2>2. ASSUME NEW q \in ROOMS, room'[q] = "NONE"
          PROVE  /\ attempt'[q] = "NONE" /\ challenge'[q] = "NONE"
                 /\ members'[q] = {} /\ match'[q] = "none"
      <3>1. q # r /\ room[q] = "NONE"
        BY <2>2
      <3> QED BY <2>2, <3>1 DEF Bookkeeping
    <2>3. ASSUME NEW q \in ROOMS
          PROVE  /\ room'[q] # "READY"
                 /\ room'[q] \in {"WAITING", "CHALLENGING"} => launched'[q] = {}
                 /\ room'[q] \in {"WAITING", "CHALLENGING", "CONNECTING"} => match'[q] = "none"
                 /\ room'[q] = "PLAYING" => match'[q] = "open"
      BY DEF Bookkeeping, MatchNeedsBothProcesses
    <2> QED BY <2>1, <2>2, <2>3 DEF Bookkeeping
  <1>2. MatchNeedsBothProcesses'
    BY DEF MatchNeedsBothProcesses, Bookkeeping, EarlyExitPreventsMatch, TwoSeats
  <1>3. TwoSeats'
    BY DEF TwoSeats, Bookkeeping, MatchNeedsBothProcesses, EarlyExitPreventsMatch
  <1>4. OpenRoomIsTracked'
    BY DEF OpenRoomIsTracked, Open
  <1>5. OutcomeMatchesPlay'
    BY DEF OutcomeMatchesPlay, OpenRoomIsTracked, Open, Bookkeeping,
           MatchNeedsBothProcesses
  <1>6. EarlyExitPreventsMatch'
    BY DEF EarlyExitPreventsMatch, Bookkeeping, MatchNeedsBothProcesses
  <1>7. ChallengingRoomAwaitsAnswer'
    BY DEF ChallengingRoomAwaitsAnswer, PendingAndFresh, Bookkeeping
  <1>8. AcceptedChallengeIsSeated'
    BY DEF AcceptedChallengeIsSeated, TwoSeats, Bookkeeping
  <1> QED BY <1>1, <1>2, <1>3, <1>4, <1>5, <1>6, <1>7, <1>8

\* Declining or cancelling a challenge.
LEMMA InvResolveChallenge ==
  ASSUME IInv, TypeOK', NEW u \in USERS, NEW r \in ROOMS,
         NEW resolution \in {"DECLINED", "CANCELLED"}, ResolveChallenge(u, r, resolution)
  PROVE  IInv'
  <1> USE DEF IInv, TypeOK, roomVars, challengeVars, grantVars, nativeVars,
          ResolveChallenge, PendingAndFresh, Settle
  <1>1. Bookkeeping'
    BY DEF Bookkeeping
  <1>2. MatchNeedsBothProcesses'
    BY DEF MatchNeedsBothProcesses, Bookkeeping, EarlyExitPreventsMatch, TwoSeats
  <1>3. TwoSeats'
    BY DEF TwoSeats, Bookkeeping, MatchNeedsBothProcesses, EarlyExitPreventsMatch
  <1>4. OpenRoomIsTracked'
    BY DEF OpenRoomIsTracked, Open
  <1>5. OutcomeMatchesPlay'
    BY DEF OutcomeMatchesPlay, OpenRoomIsTracked, Open, Bookkeeping,
           MatchNeedsBothProcesses
  <1>6. EarlyExitPreventsMatch'
    BY DEF EarlyExitPreventsMatch, Bookkeeping, MatchNeedsBothProcesses
  <1>7. ChallengingRoomAwaitsAnswer'
    BY DEF ChallengingRoomAwaitsAnswer, PendingAndFresh, Bookkeeping
  <1>8. AcceptedChallengeIsSeated'
    BY DEF AcceptedChallengeIsSeated, TwoSeats, Bookkeeping
  <1> QED BY <1>1, <1>2, <1>3, <1>4, <1>5, <1>6, <1>7, <1>8

\* A launch: the one that finds the peer's record starts the match.
LEMMA InvConfirmLaunch ==
  ASSUME IInv, TypeOK', NEW u \in USERS, NEW r \in ROOMS, ConfirmLaunch(u, r)
  PROVE  IInv'
  <1>0. room[r] = "CONNECTING" =>
          (BothMembers(r, launched[r] \union {u}) <=> launched[r] \union {u} = members[r])
    <2>1. launched[r] \union {u} \in SUBSET members[r]
      BY DEF IInv, MatchNeedsBothProcesses, ConfirmLaunch
    <2> QED BY <2>1, SeatedCounts DEF IInv
  <1> USE DEF IInv, TypeOK, roomVars, challengeVars, grantVars, nativeVars,
          ConfirmLaunch
  <1> USE TargetValues
  <1> USE <1>0
  <1>1. Bookkeeping'
    BY DEF Bookkeeping
  <1>2. MatchNeedsBothProcesses'
    BY DEF MatchNeedsBothProcesses, Bookkeeping, EarlyExitPreventsMatch, TwoSeats
  <1>3. TwoSeats'
    BY DEF TwoSeats, Bookkeeping, MatchNeedsBothProcesses, EarlyExitPreventsMatch
  <1>4. OpenRoomIsTracked'
    BY DEF OpenRoomIsTracked, Open
  <1>5. OutcomeMatchesPlay'
    BY DEF OutcomeMatchesPlay, OpenRoomIsTracked, Open, Bookkeeping,
           MatchNeedsBothProcesses
  <1>6. EarlyExitPreventsMatch'
    BY DEF EarlyExitPreventsMatch, Bookkeeping, MatchNeedsBothProcesses
  <1>7. ChallengingRoomAwaitsAnswer'
    BY DEF ChallengingRoomAwaitsAnswer, PendingAndFresh, Bookkeeping
  <1>8. AcceptedChallengeIsSeated'
    BY DEF AcceptedChallengeIsSeated, TwoSeats, Bookkeeping
  <1> QED BY <1>1, <1>2, <1>3, <1>4, <1>5, <1>6, <1>7, <1>8

\* The outcome an exit leaves: FAILED before a match, SUCCEEDED with both exits.
LEMMA ExitOutcome ==
  ASSUME IInv, NEW u \in USERS, NEW r \in ROOMS, ConfirmExit(u, r)
  PROVE  OutcomeMatchesPlay'
  <1> SUFFICES ASSUME NEW x \in ROOMS
               PROVE  /\ attempt'[x] = "SUCCEEDED" =>
                           match'[x] = "ended" /\ ended'[x] = members'[x]
                      /\ attempt'[x] = "FAILED" => match'[x] = "none" /\ ended'[x] # {}
    BY DEF OutcomeMatchesPlay
  <1>1. /\ attempt[x] = "SUCCEEDED" => match[x] = "ended" /\ ended[x] = members[x]
        /\ attempt[x] = "FAILED" => match[x] = "none" /\ ended[x] # {}
    BY DEF IInv, OutcomeMatchesPlay
  <1>2. /\ DOMAIN attempt = ROOMS /\ DOMAIN match = ROOMS /\ DOMAIN ended = ROOMS
    BY DEF IInv, TypeOK
  <1>3. members' = members /\ ended' = [ended EXCEPT ![r] = @ \union {u}]
    BY DEF ConfirmExit
  <1>4. u \in launched[r] /\ launched[r] \subseteq members[r]
    BY DEF ConfirmExit, IInv, MatchNeedsBothProcesses
  <1>5. CASE room[r] = "CONNECTING"
    <2>1. attempt[r] = "ACTIVE" /\ match[r] = "none"
      BY <1>5 DEF IInv, OpenRoomIsTracked, Bookkeeping, Open
    <2>2. attempt' = [attempt EXCEPT ![r] = "FAILED"] /\ match' = match
      BY <1>5, <2>1 DEF ConfirmExit, CloseRoom, Settle, Terminal
    <2> QED BY <1>1, <1>2, <1>3, <2>1, <2>2
  <1>6. CASE room[r] = "PLAYING"
    <2>1. attempt[r] = "ACTIVE" /\ match[r] = "open"
      BY <1>6 DEF IInv, OpenRoomIsTracked, Bookkeeping, Open
    <2>2. CASE BothMembers(r, ended[r] \union {u})
      <3>1. ended[r] \union {u} \in SUBSET members[r]
        BY <1>4 DEF IInv, MatchNeedsBothProcesses
      <3>2. ended[r] \union {u} = members[r]
        BY <1>6, <2>2, <3>1, SeatedCounts DEF IInv
      <3>3. /\ attempt' = [attempt EXCEPT ![r] = "SUCCEEDED"]
            /\ match' = [match EXCEPT ![r] = "ended"]
        BY <1>6, <2>1, <2>2 DEF ConfirmExit, CloseRoom, Settle, EndMatch, Terminal
      <3> QED BY <1>1, <1>2, <1>3, <3>2, <3>3
    <2>3. CASE ~BothMembers(r, ended[r] \union {u})
      <3>1. attempt' = attempt /\ match' = match
        BY <1>6, <2>3 DEF ConfirmExit, Terminal
      <3> QED BY <1>1, <1>2, <1>3, <2>1, <3>1
    <2> QED BY <2>2, <2>3
  <1>7. CASE room[r] \in Terminal
    <2>1. attempt' = attempt /\ match' = match
      BY <1>7 DEF ConfirmExit, Terminal
    <2>2. x = r /\ attempt[r] = "SUCCEEDED" => ended[r] \union {u} = members[r]
      BY <1>1, <1>4
    <2> QED BY <1>1, <1>2, <1>3, <2>1, <2>2
  <1> QED BY <1>5, <1>6, <1>7 DEF ConfirmExit, Terminal

\* An exit: the one that finds the peer's exit finishes the match.
LEMMA InvConfirmExit ==
  ASSUME IInv, TypeOK', NEW u \in USERS, NEW r \in ROOMS, ConfirmExit(u, r)
  PROVE  IInv'
  <1>0. room[r] = "PLAYING" =>
          (BothMembers(r, ended[r] \union {u}) <=> ended[r] \union {u} = members[r])
    <2>1. ended[r] \union {u} \in SUBSET members[r]
      BY DEF IInv, MatchNeedsBothProcesses, ConfirmExit
    <2> QED BY <2>1, SeatedCounts DEF IInv
  <1> USE DEF IInv, TypeOK, roomVars, challengeVars, grantVars, nativeVars,
          ConfirmExit, CloseRoom, Settle, EndMatch, Terminal
  <1> USE TargetValues
  <1> USE <1>0
  <1>1. Bookkeeping'
    BY DEF Bookkeeping
  <1>2. MatchNeedsBothProcesses'
    BY DEF MatchNeedsBothProcesses, Bookkeeping, EarlyExitPreventsMatch, TwoSeats
  <1>3. TwoSeats'
    BY DEF TwoSeats, Bookkeeping, MatchNeedsBothProcesses, EarlyExitPreventsMatch
  <1>4. OpenRoomIsTracked'
    BY DEF OpenRoomIsTracked, Open
  <1>5. OutcomeMatchesPlay'
    BY ExitOutcome
  <1>6. EarlyExitPreventsMatch'
    BY DEF EarlyExitPreventsMatch, Bookkeeping, MatchNeedsBothProcesses
  <1>7. ChallengingRoomAwaitsAnswer'
    BY DEF ChallengingRoomAwaitsAnswer, PendingAndFresh, Bookkeeping
  <1>8. AcceptedChallengeIsSeated'
    BY DEF AcceptedChallengeIsSeated, TwoSeats, Bookkeeping
  <1> QED BY <1>1, <1>2, <1>3, <1>4, <1>5, <1>6, <1>7, <1>8

\* Leaving through cancel_room or decline_room.
LEMMA InvLeaveRoom ==
  ASSUME IInv, TypeOK', NEW u \in USERS, NEW r \in ROOMS,
         NEW event \in {"Cancel", "Decline"}, LeaveRoom(u, r, event)
  PROVE  IInv'
  <1> USE DEF IInv, TypeOK, roomVars, challengeVars, grantVars, nativeVars,
          LeaveRoom, CloseRoom, Settle, EndMatch
  <1> USE TargetValues, AcceptedValues
  <1>1. Bookkeeping'
    BY DEF Bookkeeping
  <1>2. MatchNeedsBothProcesses'
    BY DEF MatchNeedsBothProcesses, Bookkeeping, EarlyExitPreventsMatch, TwoSeats
  <1>3. TwoSeats'
    BY DEF TwoSeats, Bookkeeping, MatchNeedsBothProcesses, EarlyExitPreventsMatch
  <1>4. OpenRoomIsTracked'
    BY DEF OpenRoomIsTracked, Open
  <1>5. OutcomeMatchesPlay'
    BY DEF OutcomeMatchesPlay, OpenRoomIsTracked, Open, Bookkeeping,
           MatchNeedsBothProcesses
  <1>6. EarlyExitPreventsMatch'
    BY DEF EarlyExitPreventsMatch, Bookkeeping, MatchNeedsBothProcesses
  <1>7. ChallengingRoomAwaitsAnswer'
    BY DEF ChallengingRoomAwaitsAnswer, PendingAndFresh, Bookkeeping
  <1>8. AcceptedChallengeIsSeated'
    BY DEF AcceptedChallengeIsSeated, TwoSeats, Bookkeeping
  <1> QED BY <1>1, <1>2, <1>3, <1>4, <1>5, <1>6, <1>7, <1>8

\* The clock reaches a room's deadline.
LEMMA InvRoomDeadlinePasses ==
  ASSUME IInv, TypeOK', NEW r \in ROOMS, RoomDeadlinePasses(r)
  PROVE  IInv'
  <1> USE DEF IInv, TypeOK, roomVars, challengeVars, grantVars, nativeVars,
          RoomDeadlinePasses, Open
  <1>1. Bookkeeping'
    BY DEF Bookkeeping
  <1>2. MatchNeedsBothProcesses'
    BY DEF MatchNeedsBothProcesses, Bookkeeping, EarlyExitPreventsMatch, TwoSeats
  <1>3. TwoSeats'
    BY DEF TwoSeats, Bookkeeping, MatchNeedsBothProcesses, EarlyExitPreventsMatch
  <1>4. OpenRoomIsTracked'
    BY DEF OpenRoomIsTracked, Open
  <1>5. OutcomeMatchesPlay'
    BY DEF OutcomeMatchesPlay, OpenRoomIsTracked, Open, Bookkeeping,
           MatchNeedsBothProcesses
  <1>6. EarlyExitPreventsMatch'
    BY DEF EarlyExitPreventsMatch, Bookkeeping, MatchNeedsBothProcesses
  <1>7. ChallengingRoomAwaitsAnswer'
    <2>1. stale' = [stale EXCEPT ![r] = (stale[r] \/ room[r] = "CHALLENGING")]
      OBVIOUS
    <2>2. CASE room[r] = "CHALLENGING"
      <3>1. stale' = [stale EXCEPT ![r] = TRUE]
        BY <2>1, <2>2
      <3> QED BY <2>2, <3>1 DEF ChallengingRoomAwaitsAnswer, PendingAndFresh
    <2>3. CASE room[r] # "CHALLENGING"
      <3>1. stale' = stale
        BY <2>1, <2>3
      <3> QED BY <2>3, <3>1 DEF ChallengingRoomAwaitsAnswer, PendingAndFresh
    <2> QED BY <2>2, <2>3
  <1>8. AcceptedChallengeIsSeated'
    BY DEF AcceptedChallengeIsSeated, TwoSeats, Bookkeeping
  <1> QED BY <1>1, <1>2, <1>3, <1>4, <1>5, <1>6, <1>7, <1>8

\* The clock reaches a challenge's expiry.
LEMMA InvChallengeExpires ==
  ASSUME IInv, TypeOK', NEW r \in ROOMS, ChallengeExpires(r)
  PROVE  IInv'
  <1> USE DEF IInv, TypeOK, roomVars, challengeVars, grantVars, nativeVars,
          ChallengeExpires, PendingAndFresh
  <1>1. Bookkeeping'
    BY DEF Bookkeeping
  <1>2. MatchNeedsBothProcesses'
    BY DEF MatchNeedsBothProcesses, Bookkeeping, EarlyExitPreventsMatch, TwoSeats
  <1>3. TwoSeats'
    BY DEF TwoSeats, Bookkeeping, MatchNeedsBothProcesses, EarlyExitPreventsMatch
  <1>4. OpenRoomIsTracked'
    BY DEF OpenRoomIsTracked, Open
  <1>5. OutcomeMatchesPlay'
    BY DEF OutcomeMatchesPlay, OpenRoomIsTracked, Open, Bookkeeping,
           MatchNeedsBothProcesses
  <1>6. EarlyExitPreventsMatch'
    BY DEF EarlyExitPreventsMatch, Bookkeeping, MatchNeedsBothProcesses
  <1>7. ChallengingRoomAwaitsAnswer'
    BY DEF ChallengingRoomAwaitsAnswer, PendingAndFresh, Bookkeeping
  <1>8. AcceptedChallengeIsSeated'
    BY DEF AcceptedChallengeIsSeated, TwoSeats, Bookkeeping
  <1> QED BY <1>1, <1>2, <1>3, <1>4, <1>5, <1>6, <1>7, <1>8

\* A pass of the reconciler.
LEMMA InvReconcile ==
  ASSUME IInv, TypeOK', NEW cs \in SUBSET StaleChallenges,
         NEW rs \in SUBSET Overdue, Reconcile(cs, rs)
  PROVE  IInv'
  <1> USE DEF IInv, TypeOK, roomVars, challengeVars, grantVars, nativeVars,
          Reconcile, StaleChallenges, Overdue, Open, Settle, EndMatch
  <1>1. Bookkeeping'
    BY DEF Bookkeeping
  <1>2. MatchNeedsBothProcesses'
    BY DEF MatchNeedsBothProcesses, Bookkeeping, EarlyExitPreventsMatch, TwoSeats
  <1>3. TwoSeats'
    BY DEF TwoSeats, Bookkeeping, MatchNeedsBothProcesses, EarlyExitPreventsMatch
  <1>4. OpenRoomIsTracked'
    BY DEF OpenRoomIsTracked, Open
  <1>5. OutcomeMatchesPlay'
    BY DEF OutcomeMatchesPlay, OpenRoomIsTracked, Open, Bookkeeping,
           MatchNeedsBothProcesses
  <1>6. EarlyExitPreventsMatch'
    BY DEF EarlyExitPreventsMatch, Bookkeeping, MatchNeedsBothProcesses
  <1>7. ChallengingRoomAwaitsAnswer'
    BY DEF ChallengingRoomAwaitsAnswer, PendingAndFresh, Bookkeeping
  <1>8. AcceptedChallengeIsSeated'
    BY DEF AcceptedChallengeIsSeated, TwoSeats, Bookkeeping
  <1> QED BY <1>1, <1>2, <1>3, <1>4, <1>5, <1>6, <1>7, <1>8

\* Steps that touch only invites, grants and receipts, or nothing.
LEMMA InvFrame ==
  ASSUME IInv, TypeOK', UNCHANGED <<roomVars, challengeVars, nativeVars>>
  PROVE  IInv'
  <1> USE DEF IInv, TypeOK, roomVars, challengeVars, grantVars, nativeVars
  <1>1. Bookkeeping'
    BY DEF Bookkeeping
  <1>2. MatchNeedsBothProcesses'
    BY DEF MatchNeedsBothProcesses, Bookkeeping, EarlyExitPreventsMatch, TwoSeats
  <1>3. TwoSeats'
    BY DEF TwoSeats, Bookkeeping, MatchNeedsBothProcesses, EarlyExitPreventsMatch
  <1>4. OpenRoomIsTracked'
    BY DEF OpenRoomIsTracked, Open
  <1>5. OutcomeMatchesPlay'
    BY DEF OutcomeMatchesPlay, OpenRoomIsTracked, Open, Bookkeeping,
           MatchNeedsBothProcesses
  <1>6. EarlyExitPreventsMatch'
    BY DEF EarlyExitPreventsMatch, Bookkeeping, MatchNeedsBothProcesses
  <1>7. ChallengingRoomAwaitsAnswer'
    BY DEF ChallengingRoomAwaitsAnswer, PendingAndFresh, Bookkeeping
  <1>8. AcceptedChallengeIsSeated'
    BY DEF AcceptedChallengeIsSeated, TwoSeats, Bookkeeping
  <1> QED BY <1>1, <1>2, <1>3, <1>4, <1>5, <1>6, <1>7, <1>8

\* Every action preserves the invariant.
LEMMA InvStep == IInv /\ [Next]_vars => IInv'
  <1> SUFFICES ASSUME IInv, [Next]_vars PROVE IInv'
    OBVIOUS
  <1>0. TypeOK'
    BY TypeStep DEF IInv
  <1> USE <1>0
  <1>1. ASSUME NEW u \in USERS, NEW r \in ROOMS, NEW g \in GAMES, CreateRoom(u, g, r)
        PROVE  IInv'
    BY <1>1, InvInsertRoom DEF CreateRoom
  <1>2. ASSUME NEW u \in USERS, NEW r \in ROOMS, NEW src \in ROOMS,
               CreateMatchReceipt(u, src, r)
        PROVE  IInv'
    <2> DEFINE closed == WaitingRooms(u, game[src])
    <2>1. closed \in SUBSET ROOMS /\ \A q \in closed : room[q] = "WAITING"
      BY DEF WaitingRooms
    <2>2. InsertRoom(u, game[src], r, "WAITING", closed, {})
      BY <1>2 DEF CreateMatchReceipt
    <2>3. UNCHANGED <<challengeVars, nativeVars>>
      BY <1>2 DEF CreateMatchReceipt
    <2> HIDE DEF closed
    <2> QED BY <2>1, <2>2, <2>3, InvInsertRoom
  <1>3. ASSUME NEW u \in USERS, NEW r \in ROOMS, AcceptRoom(u, r)
        PROVE  IInv'
    <2>1. SeatGuest(u, r, {}, {}) /\ UNCHANGED <<challengeVars, nativeVars>>
      BY <1>3 DEF AcceptRoom
    <2>2. host[r] # u /\ room[r] \in {"WAITING", "CHALLENGING"}
      BY <1>3, AcceptedValues DEF AcceptRoom, MayJoin
    <2> QED BY <2>1, <2>2, InvSeatGuest DEF challengeVars
  <1>4. ASSUME NEW u \in USERS, NEW r \in ROOMS, JoinInvite(u, r)
        PROVE  IInv'
    <2> DEFINE closed == WaitingRooms(u, game[r])
    <2>1. SeatGuest(u, r, closed, closed) /\ UNCHANGED <<challengeVars, nativeVars>>
      BY <1>4 DEF JoinInvite
    <2>2. host[r] # u /\ room[r] \in {"WAITING", "CHALLENGING"}
      BY <1>4, AcceptedValues DEF JoinInvite, MayJoin
    <2>3. closed \in SUBSET ROOMS /\ r \notin closed /\ \A q \in closed : room[q] = "WAITING"
      BY <2>2 DEF WaitingRooms
    <2> HIDE DEF closed
    <2> QED BY <2>1, <2>2, <2>3, InvSeatGuest DEF challengeVars
  <1>5. ASSUME NEW u \in USERS, NEW r \in ROOMS, NEW event \in {"Cancel", "Decline"},
               LeaveRoom(u, r, event)
        PROVE  IInv'
    BY <1>5, InvLeaveRoom
  <1>6. ASSUME NEW u \in USERS, NEW r \in ROOMS, NEW v \in USERS, NEW g \in GAMES,
               CreateChallenge(u, v, g, r)
        PROVE  IInv'
    <2> DEFINE closed == WaitingRooms(u, g)
    <2>1. closed \in SUBSET ROOMS /\ \A q \in closed : room[q] = "WAITING"
      BY DEF WaitingRooms
    <2>2. InsertRoom(u, g, r, "CHALLENGING", closed, closed) /\ UNCHANGED nativeVars
      BY <1>6 DEF CreateChallenge
    <2>3. /\ stale' = [stale EXCEPT ![r] = FALSE]
          /\ challenge' = [x \in ROOMS |->
                             IF x = r THEN "PENDING"
                             ELSE IF challenge[x] = "PENDING" /\ stale[x] THEN "EXPIRED"
                             ELSE challenge[x]]
          /\ v \in USERS \ {u} /\ challenged' = [challenged EXCEPT ![r] = v]
      BY <1>6 DEF CreateChallenge
    <2> HIDE DEF closed
    <2> QED BY <2>1, <2>2, <2>3, InvInsertRoom
  <1>7. ASSUME NEW u \in USERS, NEW r \in ROOMS, AcceptChallenge(u, r)
        PROVE  IInv'
    <2> DEFINE closed == WaitingRooms(u, game[r])
    <2>1. SeatGuest(u, r, closed, {}) /\ UNCHANGED nativeVars
      BY <1>7 DEF AcceptChallenge
    <2>2. /\ challenged[r] = u /\ room[r] = "CHALLENGING"
          /\ UNCHANGED <<challenged, stale>>
          /\ challenge' = [challenge EXCEPT ![r] = "ACCEPTED"]
      BY <1>7 DEF AcceptChallenge, Answerable
    <2>3. host[r] # u
      BY <1>7, <2>2 DEF AcceptChallenge, Answerable, PendingAndFresh, IInv, Bookkeeping
    <2>4. closed \in SUBSET ROOMS /\ r \notin closed /\ \A q \in closed : room[q] = "WAITING"
      BY <2>2 DEF WaitingRooms
    <2> HIDE DEF closed
    <2>5. {} \in SUBSET closed /\ room[r] \in {"WAITING", "CHALLENGING"}
      BY <2>2
    <2> QED BY <2>1, <2>2, <2>3, <2>4, <2>5, InvSeatGuest
  <1>8. ASSUME NEW u \in USERS, NEW r \in ROOMS,
               NEW resolution \in {"DECLINED", "CANCELLED"}, ResolveChallenge(u, r, resolution)
        PROVE  IInv'
    BY <1>8, InvResolveChallenge
  <1>9. ASSUME NEW u \in USERS, NEW r \in ROOMS,
               IssueGrant(u, r) \/ ConsumeGrant(u, r) \/ GrantExpires(u, r)
        PROVE  IInv'
    BY <1>9, InvFrame DEF IssueGrant, ConsumeGrant, GrantExpires
  <1>10. ASSUME NEW u \in USERS, NEW r \in ROOMS, ConfirmLaunch(u, r)
         PROVE  IInv'
    BY <1>10, InvConfirmLaunch
  <1>11. ASSUME NEW u \in USERS, NEW r \in ROOMS, ConfirmExit(u, r)
         PROVE  IInv'
    BY <1>11, InvConfirmExit
  <1>12. ASSUME NEW r \in ROOMS, CreateInvite(r) \/ InviteExpires(r)
         PROVE  IInv'
    BY <1>12, InvFrame DEF CreateInvite, InviteExpires
  <1>13. ASSUME NEW r \in ROOMS, RoomDeadlinePasses(r) \/ ChallengeExpires(r)
         PROVE  IInv'
    BY <1>13, InvRoomDeadlinePasses, InvChallengeExpires
  <1>14. ASSUME NEW cs \in SUBSET StaleChallenges, NEW rs \in SUBSET Overdue, Reconcile(cs, rs)
         PROVE  IInv'
    BY <1>14, InvReconcile
  <1>15. CASE UNCHANGED vars
    BY <1>15, InvFrame DEF vars
  <1> QED BY <1>1, <1>2, <1>3, <1>4, <1>5, <1>6, <1>7, <1>8, <1>9, <1>10, <1>11, <1>12, <1>13,
             <1>14, <1>15
          DEF Next, RoomRequest, ChallengeRequest, LaunchRequest, TimePasses, ReconcilePass

-----------------------------------------------------------------------------
(* Safety *)

LEMMA InvariantHolds == Spec => []IInv
  BY InvInit, InvStep, PTL DEF Spec

\* No match starts or finishes without the native processes of both members.
THEOREM MatchesAreReal == Spec => []MatchNeedsBothProcesses
  <1>1. IInv => MatchNeedsBothProcesses
    BY DEF IInv
  <1> QED BY <1>1, InvariantHolds, PTL

\* However many users race for it, the second seat goes to one user, not the host.
THEOREM SecondSeatIsUnique == Spec => []TwoSeats
  <1>1. IInv => TwoSeats
    BY DEF IInv
  <1> QED BY <1>1, InvariantHolds, PTL

\* No open room escapes the reconciler or its attempt's outcome.
THEOREM OpenRoomsAreTracked == Spec => []OpenRoomIsTracked
  <1>1. IInv => OpenRoomIsTracked
    BY DEF IInv
  <1> QED BY <1>1, InvariantHolds, PTL

\* SUCCEEDED is only recorded for a match that both processes ended.
THEOREM OutcomesAreTrue == Spec => []OutcomeMatchesPlay
  <1>1. IInv => OutcomeMatchesPlay
    BY DEF IInv
  <1> QED BY <1>1, InvariantHolds, PTL

\* A process that exited before the start never becomes part of a match.
THEOREM EarlyExitIsFinal == Spec => []EarlyExitPreventsMatch
  <1>1. IInv => EarlyExitPreventsMatch
    BY DEF IInv
  <1> QED BY <1>1, InvariantHolds, PTL

\* A room waiting for the answer to a challenge can still get it, or is overdue.
THEOREM ChallengesAreAnswerable == Spec => []ChallengingRoomAwaitsAnswer
  <1>1. IInv => ChallengingRoomAwaitsAnswer
    BY DEF IInv
  <1> QED BY <1>1, InvariantHolds, PTL

\* An accepted challenge has its challenged user in the second seat.
THEOREM AcceptedIsSeated == Spec => []AcceptedChallengeIsSeated
  <1>1. IInv => AcceptedChallengeIsSeated
    BY DEF IInv
  <1> QED BY <1>1, InvariantHolds, PTL

-----------------------------------------------------------------------------
(* Several rooms *)

\* A receipt is of a room that exists, so that ids of later rooms do not meet it.
ReceiptsAreOfRooms == \A r \in ROOMS : room[r] = "NONE" => receipts[r] = {}

RoomsInv == OneOfEach /\ ClosedRoomIsSettled /\ ReceiptsAreOfRooms

\* What every step but the insertion of a room does: no room becomes WAITING, no
\* challenge becomes answerable, and whoever closes a room settles its attempt.
RoomsStay ==
  /\ UNCHANGED <<host, game, challenged, receipts>>
  /\ \A x \in ROOMS :
       /\ room'[x] = "NONE" => room[x] = "NONE"
       /\ room'[x] = "WAITING" => room[x] = "WAITING"
       /\ challenge'[x] = "PENDING" /\ ~stale'[x] => challenge[x] = "PENDING" /\ ~stale[x]
       /\ room'[x] \in Terminal /\ attempt'[x] = "ACTIVE" =>
            /\ room[x] \in Terminal /\ attempt[x] = "ACTIVE"
            /\ members'[x] = members[x] /\ match'[x] = match[x]

LEMMA RoomsStayKeeps == RoomsInv /\ RoomsStay => RoomsInv'
  <1> SUFFICES ASSUME RoomsInv, RoomsStay PROVE RoomsInv'
    OBVIOUS
  <1>1. OneOfEach'
    BY DEF RoomsInv, RoomsStay, OneOfEach, PendingAndFresh
  <1>2. ClosedRoomIsSettled'
    BY DEF RoomsInv, RoomsStay, ClosedRoomIsSettled
  <1>3. ReceiptsAreOfRooms'
    BY DEF RoomsInv, RoomsStay, ReceiptsAreOfRooms
  <1> QED BY <1>1, <1>2, <1>3 DEF RoomsInv

LEMMA SeatGuestStays ==
  ASSUME IInv, NEW u \in USERS, NEW r \in ROOMS, NEW closed, NEW undated,
         SeatGuest(u, r, closed, undated), \A x \in closed : room[x] = "WAITING",
         UNCHANGED <<challenged, stale, nativeVars, receipts>>,
         challenge' = challenge \/ challenge' = [challenge EXCEPT ![r] = "ACCEPTED"]
  PROVE  RoomsStay
  <1>1. ASSUME NEW x \in ROOMS
        PROVE  /\ room'[x] \in {"CONNECTING", "CANCELLED", room[x]}
               /\ room'[x] \in Terminal /\ attempt'[x] = "ACTIVE" =>
                    /\ x # r /\ room[x] \in Terminal /\ attempt[x] = "ACTIVE"
    BY TargetValues DEF SeatGuest, MoveRoom, Settle, Terminal
  <1>2. \A x \in ROOMS : x # r => members'[x] = members[x]
    BY DEF IInv, TypeOK, SeatGuest
  <1>3. \A x \in ROOMS : challenge'[x] = "PENDING" => challenge[x] = "PENDING"
    BY DEF IInv, TypeOK
  <1> QED BY <1>1, <1>2, <1>3 DEF RoomsStay, SeatGuest, nativeVars

\* Closing one room, or a batch of rooms, with its attempt.
LEMMA CloseStays ==
  ASSUME IInv, UNCHANGED <<host, game, challenged, receipts, stale, members>>,
         \A x \in ROOMS : challenge'[x] = "PENDING" => challenge[x] = "PENDING",
         \A x \in ROOMS :
           \/ room'[x] = room[x] /\ attempt'[x] = attempt[x] /\ match'[x] = match[x]
           \/ room'[x] \in Terminal /\ attempt'[x] # "ACTIVE"
  PROVE  RoomsStay
  BY DEF RoomsStay, Terminal

LEMMA InsertKeepsRooms ==
  ASSUME IInv, RoomsInv, NEW u \in USERS, NEW r \in ROOMS, NEW g,
         NEW state \in {"WAITING", "CHALLENGING"},
         NEW closed \in SUBSET WaitingRooms(u, g), NEW settled \in SUBSET closed,
         InsertRoom(u, g, r, state, closed, settled), UNCHANGED match,
         state = "WAITING" => closed = WaitingRooms(u, g),
         \A x \in ROOMS : receipts[x] \subseteq receipts'[x],
         \A x \in ROOMS : room[x] = "NONE" => receipts'[x] = receipts[x],
         \A q \in closed \ settled : \E src \in ROOMS \ {q} :
           u \in receipts'[src] /\ src # r /\ game[src] = g,
         \/ state = "WAITING" /\ UNCHANGED challengeVars
         \/ \E v \in USERS :
              /\ ~ \E x \in ROOMS : PendingAndFresh(x) /\ host[x] = u /\ challenged[x] = v
              /\ challenge' = [x \in ROOMS |->
                                 IF x = r THEN "PENDING"
                                 ELSE IF challenge[x] = "PENDING" /\ stale[x] THEN "EXPIRED"
                                 ELSE challenge[x]]
              /\ challenged' = [challenged EXCEPT ![r] = v]
              /\ stale' = [stale EXCEPT ![r] = FALSE]
  PROVE  RoomsInv'
  <1>1. /\ room[r] = "NONE" /\ challenge[r] = "NONE" /\ receipts[r] = {}
        /\ room'[r] = state /\ host'[r] = u /\ game'[r] = g
    BY DEF IInv, TypeOK, Bookkeeping, RoomsInv, ReceiptsAreOfRooms, InsertRoom, MoveRoom
  <1>2. ASSUME NEW x \in ROOMS, x # r
        PROVE  /\ host'[x] = host[x] /\ game'[x] = game[x] /\ members'[x] = members[x]
               /\ room'[x] = IF x \in closed THEN "CANCELLED" ELSE room[x]
               /\ attempt'[x] = IF x \in settled THEN Settle(attempt[x], "CANCELLED")
                                ELSE attempt[x]
    BY <1>2 DEF IInv, TypeOK, InsertRoom, MoveRoom
  <1>3. ASSUME NEW x \in ROOMS, NEW y \in ROOMS, x # y, host'[x] = host'[y], game'[x] = game'[y],
               room'[x] = "WAITING", room'[y] = "WAITING"
        PROVE  FALSE
    <2>1. ASSUME NEW z \in ROOMS, z # r, room'[z] = "WAITING", host'[z] = u, game'[z] = g,
                 state = "WAITING"
          PROVE  FALSE
      BY <1>2, <2>1 DEF WaitingRooms
    <2>2. CASE x = r
      BY <1>1, <1>3, <2>1, <2>2
    <2>3. CASE y = r
      BY <1>1, <1>3, <2>1, <2>3
    <2>4. CASE x # r /\ y # r
      BY <1>2, <1>3, <2>4 DEF RoomsInv, OneOfEach
    <2> QED BY <2>2, <2>3, <2>4
  <1>4. ASSUME NEW x \in ROOMS, NEW y \in ROOMS, x # y, host'[x] = host'[y],
               challenged'[x] = challenged'[y], PendingAndFresh(x)', PendingAndFresh(y)'
        PROVE  FALSE
    <2>1. ASSUME NEW z \in ROOMS, z # r, PendingAndFresh(z)'
          PROVE  PendingAndFresh(z) /\ challenged'[z] = challenged[z]
      BY <1>1, <2>1 DEF PendingAndFresh, challengeVars, IInv, TypeOK
    <2>2. ASSUME NEW z \in ROOMS, z # r, PendingAndFresh(r)', PendingAndFresh(z)',
                 host'[z] = u, challenged'[z] = challenged'[r]
          PROVE  FALSE
      <3>1. CASE UNCHANGED challengeVars
        BY <1>1, <2>2, <3>1 DEF PendingAndFresh, challengeVars
      <3>2. CASE ~UNCHANGED challengeVars
        BY <1>2, <2>1, <2>2, <3>2 DEF IInv, TypeOK
      <3> QED BY <3>1, <3>2
    <2>3. CASE x = r \/ y = r
      BY <1>1, <1>4, <2>2, <2>3
    <2>4. CASE x # r /\ y # r
      BY <1>2, <1>4, <2>1, <2>4 DEF RoomsInv, OneOfEach
    <2> QED BY <2>3, <2>4
  <1>5. OneOfEach'
    BY <1>3, <1>4 DEF OneOfEach
  <1>6. ASSUME NEW x \in ROOMS, room'[x] \in Terminal, attempt'[x] = "ACTIVE"
        PROVE  /\ members'[x] = {host'[x]} /\ match'[x] = "none"
               /\ \E src \in ROOMS \ {x} : host'[x] \in receipts'[src] /\ game'[src] = game'[x]
    <2>1. x # r
      BY <1>1, <1>6 DEF Terminal
    <2>2. CASE x \in closed
      <3>1. x \notin settled
        BY <1>2, <1>6, <2>1, <2>2 DEF Settle
      <3>2. room[x] = "WAITING" /\ host[x] = u /\ game[x] = g
        BY <2>2 DEF WaitingRooms
      <3>3. members[x] = {host[x]} /\ match[x] = "none"
        BY <3>2 DEF IInv, TwoSeats, Bookkeeping
      <3>4. PICK src \in ROOMS \ {x} : u \in receipts'[src] /\ src # r /\ game[src] = g
        BY <2>2, <3>1
      <3>5. game'[src] = g
        BY <1>2, <3>4
      <3> QED BY <1>2, <2>1, <3>2, <3>3, <3>4, <3>5
    <2>3. CASE x \notin closed
      <3>1. room[x] \in Terminal /\ attempt[x] = "ACTIVE"
        BY <1>2, <1>6, <2>1, <2>3
      <3>2. /\ members[x] = {host[x]} /\ match[x] = "none"
            /\ \E src \in ROOMS \ {x} : host[x] \in receipts[src] /\ game[src] = game[x]
        BY <3>1 DEF RoomsInv, ClosedRoomIsSettled
      <3>3. PICK src \in ROOMS \ {x} : host[x] \in receipts[src] /\ game[src] = game[x]
        BY <3>2
      <3>4. src # r
        BY <1>1, <3>3
      <3> QED BY <1>2, <2>1, <3>2, <3>3, <3>4
    <2> QED BY <2>2, <2>3
  <1>7. ClosedRoomIsSettled'
    BY <1>6 DEF ClosedRoomIsSettled
  <1>8. ReceiptsAreOfRooms'
    BY <1>1, <1>2 DEF ReceiptsAreOfRooms, RoomsInv
  <1> QED BY <1>5, <1>7, <1>8 DEF RoomsInv

LEMMA RoomsStep == IInv /\ RoomsInv /\ [Next]_vars => RoomsInv'
  <1> SUFFICES ASSUME IInv, RoomsInv, [Next]_vars PROVE RoomsInv'
    OBVIOUS
  <1>0. \A u, g : WaitingRooms(u, g) \in SUBSET ROOMS
                  /\ \A x \in WaitingRooms(u, g) : room[x] = "WAITING"
    BY DEF WaitingRooms
  <1>1. ASSUME NEW u \in USERS, NEW r \in ROOMS, NEW g \in GAMES, CreateRoom(u, g, r)
        PROVE  RoomsInv'
    BY <1>1, InsertKeepsRooms DEF CreateRoom, nativeVars
  <1>2. ASSUME NEW u \in USERS, NEW r \in ROOMS, NEW src \in ROOMS,
               CreateMatchReceipt(u, src, r)
        PROVE  RoomsInv'
    <2>1. PICK closed : closed = WaitingRooms(u, game[src])
      OBVIOUS
    <2>2. /\ InsertRoom(u, game[src], r, "WAITING", closed, {})
          /\ UNCHANGED challengeVars /\ UNCHANGED match
          /\ room[src] = "FINISHED" /\ receipts' = [receipts EXCEPT ![src] = @ \union {u}]
      BY <1>2, <2>1 DEF CreateMatchReceipt, nativeVars
    <2>3. /\ \A x \in ROOMS : receipts[x] \subseteq receipts'[x]
          /\ \A x \in ROOMS : room[x] = "NONE" => receipts'[x] = receipts[x]
          /\ u \in receipts'[src]
      BY <2>2 DEF IInv, TypeOK
    <2>4. \A q \in closed : q # src
      BY <1>0, <2>1, <2>2
    <2>5. src # r
      BY <2>2 DEF InsertRoom
    <2>6. \A q \in closed \ {} : \E s \in ROOMS \ {q} :
            u \in receipts'[s] /\ s # r /\ game[s] = game[src]
      BY <2>3, <2>4, <2>5
    <2> QED BY <2>1, <2>2, <2>3, <2>6, InsertKeepsRooms
  <1>3. ASSUME NEW u \in USERS, NEW r \in ROOMS, NEW v \in USERS, NEW g \in GAMES,
               CreateChallenge(u, v, g, r)
        PROVE  RoomsInv'
    <2>1. PICK closed : closed = WaitingRooms(u, g)
      OBVIOUS
    <2>2. /\ InsertRoom(u, g, r, "CHALLENGING", closed, closed)
          /\ UNCHANGED <<match, receipts>>
          /\ ~ \E x \in ROOMS : PendingAndFresh(x) /\ host[x] = u /\ challenged[x] = v
          /\ challenge' = [x \in ROOMS |->
                             IF x = r THEN "PENDING"
                             ELSE IF challenge[x] = "PENDING" /\ stale[x] THEN "EXPIRED"
                             ELSE challenge[x]]
          /\ challenged' = [challenged EXCEPT ![r] = v]
          /\ stale' = [stale EXCEPT ![r] = FALSE]
      BY <1>3, <2>1 DEF CreateChallenge, nativeVars
    <2> QED BY <2>1, <2>2, InsertKeepsRooms
  <1>4. ASSUME NEW u \in USERS, NEW r \in ROOMS, AcceptRoom(u, r) PROVE RoomsStay
    BY <1>4, SeatGuestStays DEF AcceptRoom, challengeVars
  <1>5. ASSUME NEW u \in USERS, NEW r \in ROOMS, JoinInvite(u, r) PROVE RoomsStay
    BY <1>5, <1>0, SeatGuestStays DEF JoinInvite, challengeVars
  <1>6. ASSUME NEW u \in USERS, NEW r \in ROOMS, AcceptChallenge(u, r) PROVE RoomsStay
    BY <1>6, <1>0, SeatGuestStays DEF AcceptChallenge
  <1>7. ASSUME NEW u \in USERS, NEW r \in ROOMS, NEW event \in {"Cancel", "Decline"},
               LeaveRoom(u, r, event)
        PROVE  RoomsStay
    BY <1>7, CloseStays, TargetValues DEF LeaveRoom, CloseRoom, Settle, Terminal, IInv, TypeOK
  <1>8. ASSUME NEW u \in USERS, NEW r \in ROOMS,
               NEW resolution \in {"DECLINED", "CANCELLED"}, ResolveChallenge(u, r, resolution)
        PROVE  RoomsStay
    BY <1>8, CloseStays DEF ResolveChallenge, Settle, Terminal, IInv, TypeOK, nativeVars
  <1>9. ASSUME NEW u \in USERS, NEW r \in ROOMS, ConfirmExit(u, r) PROVE RoomsStay
    BY <1>9, CloseStays, TargetValues
       DEF ConfirmExit, CloseRoom, Settle, Terminal, IInv, TypeOK, challengeVars
  <1>10. ASSUME NEW u \in USERS, NEW r \in ROOMS, ConfirmLaunch(u, r) PROVE RoomsStay
    BY <1>10, TargetValues DEF ConfirmLaunch, RoomsStay, Terminal, IInv, TypeOK, challengeVars
  <1>11. ASSUME NEW cs \in SUBSET StaleChallenges, NEW rs \in SUBSET Overdue, Reconcile(cs, rs)
         PROVE  RoomsStay
    BY <1>11, CloseStays DEF Reconcile, Settle, Terminal, EndMatch
  <1>12. ASSUME NEW u \in USERS, NEW r \in ROOMS,
                IssueGrant(u, r) \/ ConsumeGrant(u, r) \/ GrantExpires(u, r)
         PROVE  RoomsStay
    BY <1>12 DEF IssueGrant, ConsumeGrant, GrantExpires, RoomsStay, roomVars, challengeVars,
                 nativeVars
  <1>13. ASSUME NEW r \in ROOMS, CreateInvite(r) \/ InviteExpires(r) PROVE RoomsStay
    BY <1>13 DEF CreateInvite, InviteExpires, RoomsStay, roomVars, challengeVars, nativeVars
  <1>14. ASSUME NEW r \in ROOMS, RoomDeadlinePasses(r) \/ ChallengeExpires(r) PROVE RoomsStay
    BY <1>14 DEF RoomDeadlinePasses, ChallengeExpires, RoomsStay, roomVars, nativeVars,
                 IInv, TypeOK
  <1>15. CASE UNCHANGED vars
    BY <1>15, RoomsStayKeeps DEF vars, RoomsStay, roomVars, challengeVars, nativeVars
  <1> QED BY <1>1, <1>2, <1>3, <1>4, <1>5, <1>6, <1>7, <1>8, <1>9, <1>10, <1>11, <1>12, <1>13,
             <1>14, <1>15, RoomsStayKeeps
          DEF Next, RoomRequest, ChallengeRequest, LaunchRequest, TimePasses, ReconcilePass

LEMMA RoomsInvHolds == Spec => [](IInv /\ RoomsInv)
  <1>1. Init => RoomsInv
    BY DEF Init, RoomsInv, OneOfEach, ClosedRoomIsSettled, ReceiptsAreOfRooms, PendingAndFresh,
           Terminal
  <1> QED BY <1>1, InvInit, InvStep, RoomsStep, PTL DEF Spec

\* The partial unique indexes hold without the database's help: no handler makes a second
\* waiting room of a host and game, or a second unexpired pending challenge of a pair.
THEOREM IndexesAreSafe == Spec => []OneOfEach
  <1>1. RoomsInv => OneOfEach
    BY DEF RoomsInv
  <1> QED BY <1>1, RoomsInvHolds, PTL

\* A closed room has a settled attempt, but for the waiting rooms that the
\* continuation receipt of their host has cancelled.
THEOREM ClosedRoomsAreSettled == Spec => []ClosedRoomIsSettled
  <1>1. RoomsInv => ClosedRoomIsSettled
    BY DEF RoomsInv
  <1> QED BY <1>1, RoomsInvHolds, PTL

-----------------------------------------------------------------------------
(* Action properties *)

\* The reachable effects of a step on the state and the attempt of a room.
LEMMA RoomStep ==
  ASSUME IInv, Next, NEW q \in ROOMS
  PROVE  /\ room'[q] # room[q] =>
              \/ room[q] = "NONE"
              \/ \E event \in RoomEvents : Transition(room[q], event, room'[q])
              \/ challenge[q] = "PENDING" /\ challenge'[q] \in {"DECLINED", "CANCELLED"}
         /\ attempt[q] \in AttemptStates \ {"ACTIVE"} => attempt'[q] = attempt[q]
  <1> DEFINE Allowed == \/ room'[q] = room[q]
                        \/ room[q] = "NONE"
                        \/ \E event \in RoomEvents : Transition(room[q], event, room'[q])
                        \/ challenge[q] = "PENDING" /\ challenge'[q] \in {"DECLINED", "CANCELLED"}
             Kept    == attempt[q] # "ACTIVE" /\ attempt[q] # "NONE" => attempt'[q] = attempt[q]
  <1> SUFFICES Allowed /\ Kept
    BY DEF AttemptStates
  <1>1. /\ "Cancel" \in RoomEvents /\ "Decline" \in RoomEvents /\ "Accept" \in RoomEvents
        /\ "Start" \in RoomEvents /\ "Finish" \in RoomEvents
    BY DEF RoomEvents
  <1>2. ASSUME room[q] \in Open, room'[q] = "CANCELLED" PROVE Allowed
    BY <1>1, <1>2, AcceptedValues, TargetValues DEF Transition, Open
  <1>3. ASSUME room[q] \in {"WAITING", "CHALLENGING"}, room'[q] = "CONNECTING" PROVE Allowed
    BY <1>1, <1>3, AcceptedValues, TargetValues DEF Transition
  <1>4. ASSUME NEW u, NEW g, NEW r \in ROOMS, NEW state, NEW closed, NEW settled,
               InsertRoom(u, g, r, state, closed, settled),
               \A x \in closed : room[x] = "WAITING"
        PROVE  Allowed /\ Kept
    <2>1. Allowed
      BY <1>4, <1>2 DEF InsertRoom, MoveRoom, Open
    <2>2. Kept
      BY <1>4 DEF InsertRoom, Settle, IInv, TypeOK, Bookkeeping
    <2> QED BY <2>1, <2>2
  <1>5. ASSUME NEW u \in USERS, NEW r \in ROOMS, NEW closed, NEW undated,
               SeatGuest(u, r, closed, undated),
               room[r] \in AcceptedIn("Accept"), \A x \in closed : room[x] = "WAITING"
        PROVE  Allowed /\ Kept
    <2>1. Allowed
      BY <1>5, <1>2, <1>3, TargetValues, AcceptedValues DEF SeatGuest, MoveRoom, Open
    <2>2. Kept
      BY <1>5 DEF SeatGuest, Settle
    <2> QED BY <2>1, <2>2
  <1>6. \A u, g : \A x \in WaitingRooms(u, g) : room[x] = "WAITING"
    BY DEF WaitingRooms
  <1>7. ASSUME NEW u \in USERS, NEW r \in ROOMS, RoomRequest(u, r)
        PROVE  Allowed /\ Kept
    <2>1. CASE \E g \in GAMES : CreateRoom(u, g, r)
      BY <2>1, <1>4 DEF CreateRoom
    <2>2. CASE \E src \in ROOMS : CreateMatchReceipt(u, src, r)
      BY <2>2, <1>4, <1>6 DEF CreateMatchReceipt
    <2>3. CASE AcceptRoom(u, r)
      BY <2>3, <1>5 DEF AcceptRoom, MayJoin
    <2>4. CASE JoinInvite(u, r)
      BY <2>4, <1>5, <1>6 DEF JoinInvite, MayJoin
    <2>5. ASSUME NEW event \in {"Cancel", "Decline"}, LeaveRoom(u, r, event)
          PROVE  Allowed /\ Kept
      <3>1. Allowed
        BY <2>5, <1>1 DEF LeaveRoom, CloseRoom, Transition, IInv, TypeOK
      <3>2. Kept
        BY <2>5 DEF LeaveRoom, CloseRoom, Settle, IInv, TypeOK
      <3> QED BY <3>1, <3>2
    <2> QED BY <1>7, <2>1, <2>2, <2>3, <2>4, <2>5 DEF RoomRequest
  <1>8. ASSUME NEW u \in USERS, NEW r \in ROOMS, ChallengeRequest(u, r)
        PROVE  Allowed /\ Kept
    <2>1. CASE \E v \in USERS, g \in GAMES : CreateChallenge(u, v, g, r)
      BY <2>1, <1>4, <1>6 DEF CreateChallenge
    <2>2. CASE AcceptChallenge(u, r)
      BY <2>2, <1>5, <1>6, AcceptedValues DEF AcceptChallenge, Answerable
    <2>3. CASE \E resolution \in {"DECLINED", "CANCELLED"} : ResolveChallenge(u, r, resolution)
      <3>1. Allowed
        BY <2>3 DEF ResolveChallenge, PendingAndFresh, IInv, TypeOK
      <3>2. Kept
        BY <2>3 DEF ResolveChallenge, Settle, IInv, TypeOK
      <3> QED BY <3>1, <3>2
    <2> QED BY <1>8, <2>1, <2>2, <2>3 DEF ChallengeRequest
  <1>9. ASSUME NEW u \in USERS, NEW r \in ROOMS, LaunchRequest(u, r)
        PROVE  Allowed /\ Kept
    <2>1. CASE IssueGrant(u, r) \/ ConsumeGrant(u, r)
      BY <2>1 DEF IssueGrant, ConsumeGrant, roomVars
    <2>2. CASE ConfirmLaunch(u, r)
      <3>1. AcceptedIn("Start") = {"CONNECTING"}
        BY DEF AcceptedIn
      <3> QED BY <2>2, <3>1, <1>1 DEF ConfirmLaunch, Transition, IInv, TypeOK
    <2>3. CASE ConfirmExit(u, r)
      <3>1. AcceptedIn("Finish") = {"PLAYING"}
        BY DEF AcceptedIn
      <3>2. Allowed
        BY <2>3, <3>1, <1>1, <1>2, TargetValues
           DEF ConfirmExit, CloseRoom, Transition, Open, IInv, TypeOK
      <3>3. Kept
        BY <2>3 DEF ConfirmExit, CloseRoom, Settle, IInv, TypeOK
      <3> QED BY <3>2, <3>3
    <2> QED BY <1>9, <2>1, <2>2, <2>3 DEF LaunchRequest
  <1>10. CASE (\E r \in ROOMS : CreateInvite(r)) \/ TimePasses
    BY <1>10 DEF CreateInvite, TimePasses, InviteExpires, RoomDeadlinePasses, ChallengeExpires,
                 GrantExpires, roomVars
  <1>11. CASE ReconcilePass
    <2>1. Allowed
      BY <1>11, <1>2 DEF ReconcilePass, Reconcile, Overdue
    <2>2. Kept
      BY <1>11 DEF ReconcilePass, Reconcile, Settle
    <2> QED BY <2>1, <2>2
  <1> HIDE DEF Allowed, Kept
  <1> QED BY <1>7, <1>8, <1>9, <1>10, <1>11 DEF Next

\* The stored state of a room only moves as transition() allows, apart from the
\* answer to a challenge that was left pending.
THEOREM OnlyTransitions == Spec => ChangesAreTransitions
  <1>1. IInv /\ [Next]_vars =>
          [\A r \in ROOMS : room'[r] # room[r] =>
             \/ room[r] = "NONE"
             \/ \E event \in RoomEvents : Transition(room[r], event, room'[r])
             \/ challenge[r] = "PENDING" /\ challenge'[r] \in {"DECLINED", "CANCELLED"}]_vars
    BY RoomStep DEF vars
  <1> QED BY <1>1, InvariantHolds, PTL DEF Spec, ChangesAreTransitions

\* The first outcome of an attempt is its last.
THEOREM OutcomesAreFinal == Spec => OutcomeIsFinal
  <1>1. IInv /\ [Next]_vars =>
          [\A r \in ROOMS : attempt[r] \in AttemptStates \ {"ACTIVE"} =>
                              attempt'[r] = attempt[r]]_vars
    BY RoomStep DEF vars
  <1> QED BY <1>1, InvariantHolds, PTL DEF Spec, OutcomeIsFinal
=============================================================================
