------------------------- MODULE MatchSetup_proofs -------------------------
(* Theorems about MatchSetup, for every set of users, rooms and            *)
(* fingerprints, and about Snapshot, by which the members of a room follow *)
(* it, for every number of requests and reconnections.                     *)
EXTENDS Snapshot, RoomLifecycle_proofs

-----------------------------------------------------------------------------
(* What match setup needs to know about the rooms *)

\* Rooms whose second seat is still open, or that do not exist.
Unseated == {"NONE", "WAITING", "CHALLENGING"}

\* Every step of match setup is a step of RoomLifecycle, or leaves it alone.
LEMMA SetupRefinesLifecycle == [SetupNext]_allVars => [Next]_vars
  BY DEF SetupNext, allVars, vars, Next, LaunchRequest, SubmitPreflight, ReadyToLaunch,
         LaunchTimeComes, IssueCampaignGrant

\* Once a room has left the unseated states, nobody joins it and its host stays.
LEMMA SeatsAreFixed ==
  ASSUME IInv, [Next]_vars, NEW r \in ROOMS, room[r] \notin Unseated
  PROVE  members'[r] = members[r] /\ host'[r] = host[r] /\ room'[r] \notin Unseated
  <1> USE DEF Unseated, roomVars, IInv, TypeOK
  <1> DEFINE Fixed == members'[r] = members[r] /\ host'[r] = host[r] /\ room'[r] \notin Unseated
  <1>1. ASSUME NEW u, NEW g, NEW q \in ROOMS, NEW state, NEW closed, NEW settled,
               InsertRoom(u, g, q, state, closed, settled)
        PROVE  Fixed
    BY <1>1 DEF InsertRoom, MoveRoom
  <1>2. ASSUME NEW u, NEW q \in ROOMS, NEW closed, NEW undated,
               SeatGuest(u, q, closed, undated), room[q] \in AcceptedIn("Accept")
        PROVE  Fixed
    BY <1>2, AcceptedValues, TargetValues DEF SeatGuest, MoveRoom
  <1>3. ASSUME NEW q \in ROOMS, NEW state \in Terminal, NEW outcome,
               CloseRoom(q, state, outcome), UNCHANGED <<host, members>>
        PROVE  Fixed
    BY <1>3 DEF CloseRoom, Terminal
  <1>4. ASSUME NEW u \in USERS, NEW q \in ROOMS, RoomRequest(u, q)
        PROVE  Fixed
    <2>1. CASE \E g \in GAMES : CreateRoom(u, g, q)
      BY <2>1, <1>1 DEF CreateRoom
    <2>2. CASE \E src \in ROOMS : CreateMatchReceipt(u, src, q)
      BY <2>2, <1>1 DEF CreateMatchReceipt
    <2>3. CASE AcceptRoom(u, q)
      BY <2>3, <1>2 DEF AcceptRoom, MayJoin
    <2>4. CASE JoinInvite(u, q)
      BY <2>4, <1>2 DEF JoinInvite, MayJoin
    <2>5. CASE \E event \in {"Cancel", "Decline"} : LeaveRoom(u, q, event)
      BY <2>5, <1>3, TargetValues DEF LeaveRoom, Terminal
    <2> QED BY <1>4, <2>1, <2>2, <2>3, <2>4, <2>5 DEF RoomRequest
  <1>5. ASSUME NEW u \in USERS, NEW q \in ROOMS, ChallengeRequest(u, q)
        PROVE  Fixed
    <2>1. CASE \E v \in USERS, g \in GAMES : CreateChallenge(u, v, g, q)
      BY <2>1, <1>1 DEF CreateChallenge
    <2>2. CASE AcceptChallenge(u, q)
      BY <2>2, <1>2, AcceptedValues DEF AcceptChallenge, Answerable
    <2>3. CASE \E resolution \in {"DECLINED", "CANCELLED"} : ResolveChallenge(u, q, resolution)
      BY <2>3 DEF ResolveChallenge
    <2> QED BY <1>5, <2>1, <2>2, <2>3 DEF ChallengeRequest
  <1>6. ASSUME NEW u \in USERS, NEW q \in ROOMS, LaunchRequest(u, q)
        PROVE  Fixed
    <2>1. CASE IssueGrant(u, q) \/ ConsumeGrant(u, q)
      BY <2>1 DEF IssueGrant, ConsumeGrant
    <2>2. CASE ConfirmLaunch(u, q)
      BY <2>2, TargetValues DEF ConfirmLaunch
    <2>3. CASE ConfirmExit(u, q)
      BY <2>3, <1>3, TargetValues DEF ConfirmExit, Terminal
    <2> QED BY <1>6, <2>1, <2>2, <2>3 DEF LaunchRequest
  <1>7. CASE (\E q \in ROOMS : CreateInvite(q)) \/ TimePasses
    BY <1>7 DEF CreateInvite, TimePasses, InviteExpires, RoomDeadlinePasses, ChallengeExpires,
                GrantExpires
  <1>8. CASE ReconcilePass
    BY <1>8 DEF ReconcilePass, Reconcile
  <1>9. CASE UNCHANGED vars
    BY <1>9 DEF vars
  <1> HIDE DEF IInv, TypeOK, roomVars, Unseated
  <1>10. CASE Next
    <2>1. CASE \E u \in USERS, q \in ROOMS :
                 RoomRequest(u, q) \/ ChallengeRequest(u, q) \/ LaunchRequest(u, q)
      BY <2>1, <1>4, <1>5, <1>6
    <2> QED BY <1>10, <2>1, <1>7, <1>8 DEF Next
  <1>11. Fixed
    BY <1>9, <1>10
  <1> QED BY <1>11

-----------------------------------------------------------------------------
(* The inductive invariant of match setup *)

SetupTypes ==
  /\ preflight \in [ROOMS -> [USERS -> Preflights \union {NoPreflight}]]
  /\ barrier   \in [ROOMS -> {"none", "armed", "open"}]

\* A preflight is a member's, for the member's own slot.
RowsAreMembers ==
  \A r \in ROOMS, u \in USERS : preflight[r][u] # NoPreflight =>
    u \in members[r] /\ preflight[r][u].slot = ExpectedSlot(u, r)

\* Preflights exist only in rooms whose two seats are taken, for good.
RowsAreSeated ==
  \A r \in ROOMS : Submitted(r) # {} =>
    /\ room[r] \notin Unseated
    /\ \E guest \in USERS \ {host[r]} : members[r] = {host[r], guest}

\* BothReadyConsented alone is not inductive: who may still join, and in whose
\* slot a row counts, decide whether two agreeing rows are the two members' rows.
SetupInv ==
  /\ SetupTypes
  /\ RowsAreMembers
  /\ RowsAreSeated
  /\ BarrierIsConsented
  /\ BothReadyConsented

LEMMA SetupInvInit == SetupInit => IInv /\ SetupInv
  <1> SUFFICES ASSUME SetupInit PROVE IInv /\ SetupInv
    OBVIOUS
  <1>1. IInv
    BY InvInit DEF SetupInit
  <1>2. \A r \in ROOMS : Submitted(r) = {} /\ Ready(r) = {}
    BY DEF SetupInit, Submitted, Ready, NoPreflight
  <1>3. SetupTypes /\ RowsAreMembers
    BY DEF SetupInit, SetupTypes, RowsAreMembers
  <1>4. RowsAreSeated /\ BarrierIsConsented /\ BothReadyConsented
    BY <1>2 DEF SetupInit, RowsAreSeated, BarrierIsConsented, BothReadyConsented
  <1> QED BY <1>1, <1>3, <1>4 DEF SetupInv

\* A ready row is a row.
LEMMA ReadyRowsAreRows ==
  ASSUME SetupTypes, NEW r \in ROOMS
  PROVE  Ready(r) \subseteq Submitted(r)
  BY DEF SetupTypes, Ready, Submitted, NoPreflight

\* Two of the two members are both of them.
LEMMA TwoAreAll ==
  ASSUME NEW h, NEW g, h # g, NEW part \in SUBSET {h, g}, Cardinality(part) = 2
  PROVE  part = {h, g}
  <1>1. IsFiniteSet({h, g}) /\ Cardinality({h, g}) = 2
    <2>1. IsFiniteSet({h}) /\ Cardinality({h}) = 1
      BY FS_Singleton
    <2>2. {h, g} = {h} \union {g} /\ g \notin {h}
      OBVIOUS
    <2> QED BY <2>1, <2>2, FS_AddElement
  <1> QED BY <1>1, FS_Subset

\* What preflight_status calls agreement is the agreement of the two members.
LEMMA AgreedMembers ==
  ASSUME SetupInv, NEW r \in ROOMS, Agreed(r)
  PROVE  /\ Submitted(r) = members[r]
         /\ \E f \in FINGERPRINTS : \A u \in members[r] :
              /\ preflight[r][u].compatibility = f
              /\ preflight[r][u].port /\ preflight[r][u].controller
              /\ preflight[r][u].slot = ExpectedSlot(u, r)
         /\ \E guest \in members[r] : guest # host[r]
  <1>1. Submitted(r) # {}
    <2> SUFFICES ASSUME Submitted(r) = {} PROVE FALSE
      OBVIOUS
    <2> QED BY FS_EmptySet DEF Agreed
  <1>2. PICK guest \in USERS \ {host[r]} : members[r] = {host[r], guest}
    BY <1>1 DEF SetupInv, RowsAreSeated
  <1>3. Submitted(r) \subseteq members[r]
    BY DEF SetupInv, RowsAreMembers, Submitted
  <1>4. Submitted(r) = members[r]
    BY <1>2, <1>3, TwoAreAll DEF Agreed
  <1>5. guest \in USERS /\ preflight[r][guest] # NoPreflight
    BY <1>2, <1>4 DEF Submitted
  <1>6. preflight[r][guest].compatibility \in FINGERPRINTS
    BY <1>5 DEF SetupInv, SetupTypes, Preflights
  <1>7. \A u \in members[r] :
          /\ preflight[r][u].compatibility = preflight[r][guest].compatibility
          /\ preflight[r][u].port /\ preflight[r][u].controller
          /\ preflight[r][u].slot = ExpectedSlot(u, r)
    BY <1>2, <1>4 DEF Agreed, SetupInv, RowsAreMembers, Submitted
  <1> QED BY <1>2, <1>4, <1>6, <1>7

\* A new preflight takes the barrier down and its own readiness back.
LEMMA SetupInvSubmit ==
  ASSUME IInv, SetupInv, NEW u \in USERS, NEW r \in ROOMS, NEW row \in Preflights,
         SubmitPreflight(u, r, row)
  PROVE  SetupInv'
  <1> USE DEF SubmitPreflight, StorePreflight, SetupInv, vars, roomVars
  <1>1. SetupTypes'
    BY DEF SetupTypes
  <1>2. \A q \in ROOMS, v \in USERS :
          preflight'[q][v] = IF q = r /\ v = u THEN row ELSE preflight[q][v]
    BY DEF SetupTypes
  <1>3. UNCHANGED <<room, host, members>>
    OBVIOUS
  <1>4. RowsAreMembers'
    BY <1>2, <1>3 DEF RowsAreMembers, SetupOpen, ExpectedSlot
  <1>5. RowsAreSeated'
    <2> SUFFICES ASSUME NEW q \in ROOMS, Submitted(q)' # {}
                 PROVE  /\ room[q] \notin Unseated
                        /\ \E guest \in USERS \ {host[q]} : members[q] = {host[q], guest}
      BY <1>3 DEF RowsAreSeated
    <2>1. CASE q = r
      BY <2>1 DEF SetupOpen, IInv, TwoSeats, Unseated
    <2>2. CASE q # r
      BY <2>2, <1>2 DEF Submitted, RowsAreSeated
    <2> QED BY <2>1, <2>2
  <1>6. \A q \in ROOMS : q # r => /\ Consented(q)' <=> Consented(q)
                                  /\ Ready(q)' = Ready(q)
    BY <1>2, <1>3 DEF Consented, Ready, Submitted, ExpectedSlot, IInv, TypeOK
  <1>7. u \in members[r] /\ u \notin Ready(r)'
    BY <1>2 DEF SetupOpen, Ready
  <1>8. BarrierIsConsented'
    BY <1>6 DEF BarrierIsConsented, SetupTypes
  <1>9. BothReadyConsented'
    BY <1>3, <1>6, <1>7 DEF BothReadyConsented
  <1> QED BY <1>1, <1>4, <1>5, <1>8, <1>9

\* Readiness is granted, and the barrier armed, only on agreement.
LEMMA SetupInvReady ==
  ASSUME IInv, SetupInv, NEW u \in USERS, NEW r \in ROOMS, ReadyToLaunch(u, r)
  PROVE  SetupInv'
  <1> USE DEF ReadyToLaunch, SetupInv, vars, roomVars
  <1>1. PICK guest \in members[r] : guest # host[r]
    BY AgreedMembers
  <1>2. /\ Submitted(r) = members[r] /\ u \in members[r]
        /\ preflight[r][u] \in Preflights
    BY AgreedMembers DEF SetupOpen, Submitted, SetupTypes
  <1>3. \A q \in ROOMS, v \in USERS :
          preflight'[q][v] = IF q = r /\ v = u THEN [preflight[q][v] EXCEPT !.ready = TRUE]
                             ELSE preflight[q][v]
    BY DEF SetupTypes
  <1>4. SetupTypes'
    BY <1>2 DEF SetupTypes, Preflights
  <1>5. UNCHANGED <<room, host, members>>
    OBVIOUS
  <1>6. \A q \in ROOMS : Submitted(q)' = Submitted(q)
    BY <1>2, <1>3 DEF Submitted, NoPreflight, Preflights
  <1>7. RowsAreMembers'
    BY <1>2, <1>3, <1>5 DEF RowsAreMembers, ExpectedSlot, NoPreflight, Preflights, Submitted
  <1>8. RowsAreSeated'
    BY <1>5, <1>6 DEF RowsAreSeated
  <1>9. Ready(r)' = Ready(r) \union {u} /\ \A q \in ROOMS : q # r => Ready(q)' = Ready(q)
    BY <1>3, <1>2 DEF Ready, Preflights
  <1>10. Ready(r)' = members[r] => Consented(r)'
    <2> SUFFICES ASSUME Ready(r)' = members[r] PROVE Consented(r)'
      OBVIOUS
    <2>1. PICK f \in FINGERPRINTS : \A v \in members[r] :
            /\ preflight[r][v].compatibility = f
            /\ preflight[r][v].port /\ preflight[r][v].controller
            /\ preflight[r][v].slot = ExpectedSlot(v, r)
      BY AgreedMembers
    <2>2. \A v \in members[r] :
            /\ preflight'[r][v].compatibility = f
            /\ preflight'[r][v].port /\ preflight'[r][v].controller
            /\ preflight'[r][v].slot = ExpectedSlot(v, r)'
      BY <2>1, <1>2, <1>3, <1>5 DEF ExpectedSlot, Preflights, IInv, TypeOK
    <2> QED BY <2>2, <1>1, <1>2, <1>5, <1>6 DEF Consented
  <1>11. \A q \in ROOMS : q # r => (Consented(q)' <=> Consented(q))
    BY <1>3, <1>5, <1>6, <1>9 DEF Consented, ExpectedSlot, IInv, TypeOK
  <1>12. BothReadyConsented'
    BY <1>5, <1>9, <1>10, <1>11 DEF BothReadyConsented
  <1>13. BarrierIsConsented'
    <2> SUFFICES ASSUME NEW q \in ROOMS, barrier'[q] # "none" PROVE Consented(q)'
      BY DEF BarrierIsConsented
    <2>1. CASE q # r
      BY <2>1, <1>11 DEF BarrierIsConsented, SetupTypes
    <2>2. CASE q = r /\ barrier[r] # "none"
      <3>1. Ready(r) = members[r]
        BY <2>2 DEF BarrierIsConsented, Consented
      <3> QED BY <2>2, <3>1, <1>2, <1>9, <1>10
    <2>3. CASE q = r /\ barrier[r] = "none"
      <3>1. Cardinality(Ready(r) \union {u}) = 2
        BY <2>3 DEF SetupTypes
      <3>2. Ready(r) \union {u} \subseteq members[r]
        BY <1>2, ReadyRowsAreRows
      <3>3. PICK other \in USERS \ {host[r]} : members[r] = {host[r], other}
        BY <1>2 DEF RowsAreSeated
      <3>4. Ready(r) \union {u} = members[r]
        BY <3>1, <3>2, <3>3, TwoAreAll
      <3> QED BY <2>3, <3>4, <1>9, <1>10
    <2> QED BY <2>1, <2>2, <2>3
  <1> QED BY <1>4, <1>7, <1>8, <1>12, <1>13

\* The rooms' own steps leave a consented setup alone.
LEMMA SetupInvFrame ==
  ASSUME IInv, SetupInv, [Next]_vars, UNCHANGED preflight,
         \/ UNCHANGED barrier
         \/ \E r \in ROOMS : barrier[r] = "armed" /\ barrier' = [barrier EXCEPT ![r] = "open"]
  PROVE  SetupInv'
  <1> USE DEF SetupInv
  <1>1. SetupTypes'
    BY DEF SetupTypes
  <1>2. \A r \in ROOMS : Submitted(r)' = Submitted(r) /\ Ready(r)' = Ready(r)
    BY DEF Submitted, Ready
  <1>3. \A r \in ROOMS : Submitted(r) # {} =>
          members'[r] = members[r] /\ host'[r] = host[r] /\ room'[r] \notin Unseated
    BY SeatsAreFixed DEF RowsAreSeated
  <1>4. RowsAreMembers'
    BY <1>3 DEF RowsAreMembers, ExpectedSlot, Submitted
  <1>5. RowsAreSeated'
    BY <1>2, <1>3 DEF RowsAreSeated
  <1>6. \A r \in ROOMS : Submitted(r) # {} /\ Consented(r) => Consented(r)'
    BY <1>2, <1>3 DEF Consented, ExpectedSlot
  <1>7. \A r \in ROOMS : Consented(r) => Submitted(r) # {}
    BY DEF Consented
  <1>8. BarrierIsConsented'
    BY <1>6, <1>7 DEF BarrierIsConsented, SetupTypes
  <1>9. BothReadyConsented'
    BY <1>2, <1>3, <1>6, ReadyRowsAreRows DEF BothReadyConsented
  <1> QED BY <1>1, <1>4, <1>5, <1>8, <1>9

LEMMA SetupInvStep == IInv /\ SetupInv /\ [SetupNext]_allVars => (IInv /\ SetupInv)'
  <1> SUFFICES ASSUME IInv, SetupInv, [SetupNext]_allVars PROVE IInv' /\ SetupInv'
    OBVIOUS
  <1>1. [Next]_vars
    BY SetupRefinesLifecycle
  <1>2. IInv'
    BY <1>1, InvStep
  <1>3. ASSUME NEW u \in USERS, NEW r \in ROOMS, NEW row \in Preflights,
               SubmitPreflight(u, r, row)
        PROVE  SetupInv'
    BY <1>3, SetupInvSubmit
  <1>4. ASSUME NEW u \in USERS, NEW r \in ROOMS, ReadyToLaunch(u, r)
        PROVE  SetupInv'
    BY <1>4, SetupInvReady
  <1>5. ASSUME NEW r \in ROOMS, LaunchTimeComes(r) PROVE SetupInv'
    BY <1>1, <1>5, SetupInvFrame DEF LaunchTimeComes
  <1>6. ASSUME UNCHANGED setupVars PROVE SetupInv'
    <2>1. UNCHANGED preflight /\ UNCHANGED barrier
      BY <1>6 DEF setupVars
    <2> QED BY <1>1, <2>1, SetupInvFrame
  <1>7. SetupInv'
    BY <1>3, <1>4, <1>5, <1>6 DEF SetupNext, allVars, IssueCampaignGrant
  <1> QED BY <1>2, <1>7

LEMMA SetupInvHolds == SetupSpec => [](IInv /\ SetupInv)
  BY SetupInvInit, SetupInvStep, PTL DEF SetupSpec

-----------------------------------------------------------------------------
(* Theorems *)

\* Match setup implements the room lifecycle: whatever is proved of RoomLifecycle
\* holds of rooms with preflights and barriers too.
THEOREM SetupImplementsLifecycle == SetupSpec => Spec
  <1>1. SetupInit => Init
    BY DEF SetupInit
  <1> QED BY <1>1, SetupRefinesLifecycle, PTL DEF SetupSpec, Spec

\* A launch barrier never outlives the agreement it was armed for.
THEOREM BarriersAreConsented == SetupSpec => []BarrierIsConsented
  <1>1. SetupInv => BarrierIsConsented
    BY DEF SetupInv
  <1> QED BY <1>1, SetupInvHolds, PTL

\* The readiness of both members means that they agree.
THEOREM ReadinessIsConsent == SetupSpec => []BothReadyConsented
  <1>1. SetupInv => BothReadyConsented
    BY DEF SetupInv
  <1> QED BY <1>1, SetupInvHolds, PTL

\* Only a campaign grant adds to the grants of a room.
LEMMA GrantsComeFromCampaigns ==
  ASSUME [SetupNext]_allVars, NEW r \in ROOMS, IInv, ~(issued'[r] \subseteq issued[r])
  PROVE  barrier[r] = "open"
  <1> USE DEF grantVars
  <1>1. ASSUME UNCHANGED issued PROVE FALSE
    BY <1>1
  <1>2. ASSUME NEW u \in USERS, NEW q \in ROOMS,
               issued' \in {issued, [issued EXCEPT ![q] = @ \ {u}]}
        PROVE  FALSE
    BY <1>2 DEF IInv, TypeOK
  <1>3. ASSUME NEW u \in USERS, NEW q \in ROOMS, RoomRequest(u, q) \/ ChallengeRequest(u, q)
        PROVE  FALSE
    BY <1>1, <1>3 DEF RoomRequest, ChallengeRequest, CreateRoom, CreateMatchReceipt, AcceptRoom,
                      JoinInvite, LeaveRoom, CreateChallenge, AcceptChallenge, ResolveChallenge
  <1>4. ASSUME NEW u \in USERS, NEW q \in ROOMS,
               ConsumeGrant(u, q) \/ ConfirmLaunch(u, q) \/ ConfirmExit(u, q) \/ GrantExpires(u, q)
        PROVE  FALSE
    BY <1>1, <1>2, <1>4 DEF ConsumeGrant, ConfirmLaunch, ConfirmExit, GrantExpires
  <1>5. ASSUME NEW q \in ROOMS,
               \/ CreateInvite(q) \/ InviteExpires(q) \/ RoomDeadlinePasses(q)
               \/ ChallengeExpires(q) \/ LaunchTimeComes(q)
        PROVE  FALSE
    BY <1>1, <1>5 DEF CreateInvite, InviteExpires, RoomDeadlinePasses, ChallengeExpires,
                      LaunchTimeComes, vars
  <1>6. ASSUME ReconcilePass PROVE FALSE
    BY <1>1, <1>6 DEF ReconcilePass, Reconcile
  <1>7. ASSUME NEW u \in USERS, NEW q \in ROOMS,
               ReadyToLaunch(u, q) \/ \E row \in Preflights : SubmitPreflight(u, q, row)
        PROVE  FALSE
    BY <1>1, <1>7 DEF ReadyToLaunch, SubmitPreflight, vars
  <1>8. ASSUME NEW u \in USERS, NEW q \in ROOMS, IssueCampaignGrant(u, q)
        PROVE  q = r
    BY <1>8 DEF IssueCampaignGrant, IssueGrant, IInv, TypeOK
  <1>9. ASSUME UNCHANGED allVars PROVE FALSE
    BY <1>1, <1>9 DEF allVars, vars
  <1> QED BY <1>3, <1>4, <1>5, <1>6, <1>7, <1>8, <1>9
          DEF SetupNext, TimePasses, IssueCampaignGrant

\* Every campaign grant is handed out on the consent of both members.
THEOREM GrantsAreConsented == SetupSpec => GrantNeedsConsent
  <1>1. IInv /\ SetupInv /\ [SetupNext]_allVars =>
          [\A r \in ROOMS : ~(issued'[r] \subseteq issued[r]) => Consented(r)]_allVars
    BY GrantsComeFromCampaigns DEF SetupInv, BarrierIsConsented
  <1> QED BY <1>1, SetupInvHolds, PTL DEF SetupSpec, GrantNeedsConsent

-----------------------------------------------------------------------------
(* Match setup under the clients and handlers of Snapshot *)

LEMMA SnapshotsRefineSetup ==
  ASSUME ROOM \in ROOMS, [SnapshotNext]_allSnapshotVars
  PROVE  [SetupNext]_allVars
  <1>1. ASSUME NEW u \in USERS, Client(u) PROVE [SetupNext]_allVars
    <2>1. CASE TakeGrant(u)
      BY <2>1 DEF TakeGrant, SetupNext
    <2>2. CASE \/ QuerySnapshot(u) \/ Resume(u) \/ StartPreflight(u) \/ StartReady(u)
               \/ RetryPreflight(u) \/ ResetCoordinator(u) \/ TakePush(u)
               \/ \E k \in Kinds : TakeReply(u, k) \/ TakeError(u, k)
      BY <2>2 DEF QuerySnapshot, Resume, StartPreflight, StartReady, RetryPreflight,
                  ResetCoordinator, TakePush, TakeReply, TakeError
    <2> QED BY <1>1, <2>1, <2>2 DEF Client
  <1>2. ASSUME NEW u \in USERS, Server(u) PROVE [SetupNext]_allVars
    <2>1. CASE CommitPreflight(u)
      BY <2>1 DEF CommitPreflight, SetupNext
    <2>2. CASE CommitReady(u)
      BY <2>2 DEF CommitReady, SetupNext
    <2>3. CASE \/ AcceptQuery(u)
               \/ \E k \in Kinds : \/ ReadRows(u, k) \/ ReadBarrier(u, k) \/ ReadRevision(u, k)
                                   \/ \E m \in USERS : Notify(u, k, m)
      BY <2>3 DEF AcceptQuery, ReadRows, ReadBarrier, ReadRevision, Notify
    <2> QED BY <1>2, <2>1, <2>2, <2>3 DEF Server
  <1>3. CASE (\E r \in ROOMS : LaunchTimeComes(r)) \/ Elsewhere
    BY <1>3 DEF Elsewhere, SetupNext
  <1>4. CASE UNCHANGED allSnapshotVars
    BY <1>4 DEF allSnapshotVars
  <1> QED BY <1>1, <1>2, <1>3, <1>4 DEF SnapshotNext

\* The requests of two clients that act on snapshots, torn and stale ones too, are
\* requests that match setup knows: all that is proved of it holds here.
THEOREM SnapshotsImplementSetup ==
  ASSUME ROOM \in ROOMS
  PROVE  SnapshotSpec => SetupSpec
  <1>1. SnapshotInit => SetupInit
    BY DEF SnapshotInit
  <1>2. [SnapshotNext]_allSnapshotVars => [SetupNext]_allVars
    BY SnapshotsRefineSetup
  <1> QED BY <1>1, <1>2, PTL DEF SnapshotSpec, SetupSpec

\* GrantNeedsConsent: a client may show the launch button from a stale snapshot, but
\* the grant it gets rests on the consent of both members as it is now.
THEOREM StaleClientsNeedConsent ==
  ASSUME ROOM \in ROOMS
  PROVE  SnapshotSpec => GrantNeedsConsent
  BY SnapshotsImplementSetup, GrantsAreConsented, PTL

-----------------------------------------------------------------------------
(* What snapshots can say *)

Shots ==
  [rows : [matched : BOOLEAN, controllers : Nat, ready : Nat], launch_at : BOOLEAN,
   revision : Nat]

\* A snapshot is of the past, and shows two ready members only with their agreement.
Sound(shot) ==
  /\ shot.revision <= revision
  /\ shot.rows.ready = 2 => shot.rows.matched /\ shot.rows.controllers = 2

SoundShots == {shot \in Shots : Sound(shot)}

Stages == {"idle", "sent", "rows", "barrier", "revision", "notify"}

Requests == [at : Stages, shot : SoundShots, unsent : SUBSET USERS]

\* Wherever a snapshot is: being built, on its way, or held.
ShotsAreSound ==
  /\ revision \in Nat
  /\ request \in [USERS -> [Kinds -> Requests]]
  /\ pushed  \in [USERS -> Seq(SoundShots)]
  /\ held    \in [USERS -> SoundShots]

\* The rows are read in one statement, so that they are of one moment.
LEMMA RowsShowAgreement ==
  ASSUME SetupInv, NEW r \in ROOMS
  PROVE  /\ Rows(r) \in [matched : BOOLEAN, controllers : Nat, ready : Nat]
         /\ Rows(r).ready = 2 => Rows(r).matched /\ Rows(r).controllers = 2
  <1> DEFINE Connected == {u \in Submitted(r) : preflight[r][u].controller}
  <1>1. Ready(r) \subseteq Submitted(r) /\ Submitted(r) \subseteq members[r]
    BY ReadyRowsAreRows DEF SetupInv, RowsAreMembers, Submitted
  <1>2. /\ Rows(r).controllers = Cardinality(Connected) /\ Rows(r).ready = Cardinality(Ready(r))
        /\ Rows(r) = [matched |-> Rows(r).matched, controllers |-> Rows(r).controllers,
                      ready |-> Rows(r).ready]
        /\ Rows(r).matched \in BOOLEAN
    BY DEF Rows
  <1>3. IsFiniteSet(Submitted(r))
    <2>1. CASE Submitted(r) = {}
      BY <2>1, FS_EmptySet
    <2>2. CASE Submitted(r) # {}
      <3>1. PICK guest : members[r] = {host[r]} \union {guest}
        BY <2>2 DEF SetupInv, RowsAreSeated
      <3>2. IsFiniteSet(members[r])
        <4>1. IsFiniteSet({host[r]})
          BY FS_Singleton
        <4>2. IsFiniteSet({host[r]} \union {guest})
          BY <4>1, FS_AddElement
        <4> QED BY <3>1, <4>2
      <3> QED BY <1>1, <3>2, FS_Subset
    <2> QED BY <2>1, <2>2
  <1>4. Cardinality(Connected) \in Nat /\ Cardinality(Ready(r)) \in Nat
    BY <1>1, <1>3, FS_Subset, FS_CardinalityType
  <1>5. Rows(r) \in [matched : BOOLEAN, controllers : Nat, ready : Nat]
    BY <1>2, <1>4
  <1>6. ASSUME Cardinality(Ready(r)) = 2
        PROVE  Rows(r).matched /\ Cardinality(Connected) = 2
    <2>1. Ready(r) # {}
      BY <1>6, FS_EmptySet
    <2>2. PICK guest \in USERS \ {host[r]} : members[r] = {host[r], guest}
      BY <1>1, <2>1 DEF SetupInv, RowsAreSeated
    <2>3. Ready(r) = members[r]
      BY <1>1, <1>6, <2>2, TwoAreAll
    <2>4. Consented(r)
      BY <2>1, <2>3 DEF SetupInv, BothReadyConsented
    <2>5. Submitted(r) = members[r] /\ Connected = members[r]
      BY <2>4 DEF Consented
    <2>6. /\ \A u, v \in Submitted(r) :
               preflight[r][u].compatibility = preflight[r][v].compatibility
          /\ \A u \in Submitted(r) : preflight[r][u].port
      BY <2>4 DEF Consented
    <2> QED BY <1>6, <2>3, <2>5, <2>6 DEF Rows
  <1> QED BY <1>2, <1>5, <1>6

LEMMA SoundInit == SnapshotInit => ShotsAreSound
  <1> SUFFICES ASSUME SnapshotInit PROVE ShotsAreSound
    OBVIOUS
  <1>1. Nothing \in SoundShots
    BY DEF SnapshotInit, SoundShots, Shots, Sound, Nothing, NoRows
  <1>2. Idle \in Requests
    BY <1>1 DEF Idle, Requests, Stages
  <1> QED BY <1>1, <1>2 DEF SnapshotInit, ShotsAreSound

\* A request that goes on, with another snapshot.
LEMMA RequestChanges ==
  ASSUME NEW q \in Requests, NEW a \in Stages, NEW to \in SUBSET USERS
  PROVE  /\ q.shot \in SoundShots
         /\ [q EXCEPT !.at = a] \in Requests /\ [q EXCEPT !.unsent = to] \in Requests
         /\ \A x : [q.shot EXCEPT !.rows = x] \in SoundShots
                    => [q EXCEPT !.at = a, !.shot.rows = x] \in Requests
         /\ \A x : [q.shot EXCEPT !.launch_at = x] \in SoundShots
                    => [q EXCEPT !.at = a, !.shot.launch_at = x] \in Requests
         /\ \A x : [q.shot EXCEPT !.revision = x] \in SoundShots
                    => [q EXCEPT !.at = a, !.shot.revision = x, !.unsent = to] \in Requests
  BY DEF Requests

\* A snapshot with another part in it.
LEMMA ShotChanges ==
  ASSUME NEW shot \in SoundShots, revision \in Nat
  PROVE  /\ \A launch \in BOOLEAN : [shot EXCEPT !.launch_at = launch] \in SoundShots
         /\ [shot EXCEPT !.revision = revision] \in SoundShots
         /\ \A rows \in [matched : BOOLEAN, controllers : Nat, ready : Nat] :
              (rows.ready = 2 => rows.matched /\ rows.controllers = 2)
                => [shot EXCEPT !.rows = rows] \in SoundShots
  BY DEF SoundShots, Shots, Sound

\* A commit leaves every snapshot behind.
LEMMA SoundGrows ==
  ASSUME revision \in Nat, revision' = revision \/ revision' = revision + 1
  PROVE  SoundShots \subseteq SoundShots' /\ Requests \subseteq Requests'
  <1>1. SoundShots \subseteq SoundShots'
    BY DEF SoundShots, Shots, Sound
  <1> QED BY <1>1 DEF Requests

\* The steps by which one request goes on.
LEMMA RequestGoesOn ==
  ASSUME ShotsAreSound, revision' = revision \/ revision' = revision + 1,
         NEW u \in USERS, NEW k \in Kinds, NEW x \in Requests',
         request' = [request EXCEPT ![u][k] = x],
         pushed' \in [USERS -> Seq(SoundShots)], held' \in [USERS -> SoundShots]
  PROVE  ShotsAreSound'
  <1>1. SoundShots \subseteq SoundShots' /\ Requests \subseteq Requests'
    BY SoundGrows DEF ShotsAreSound
  <1>2. revision' \in Nat
    BY DEF ShotsAreSound
  <1>3. request' \in [USERS -> [Kinds -> Requests']]
    BY <1>1 DEF ShotsAreSound
  <1>4. pushed' \in [USERS -> Seq(SoundShots')] /\ held' \in [USERS -> SoundShots']
    <2>1. ASSUME NEW v \in USERS PROVE pushed'[v] \in Seq(SoundShots')
      <3>1. pushed'[v] \in Seq(SoundShots)
        OBVIOUS
      <3> QED BY <1>1, <3>1
    <2> QED BY <1>1, <2>1
  <1> QED BY <1>2, <1>3, <1>4 DEF ShotsAreSound

LEMMA SoundStep ==
  ASSUME ROOM \in ROOMS, IInv, SetupInv, ShotsAreSound, [SnapshotNext]_allSnapshotVars
  PROVE  ShotsAreSound'
  <1> DEFINE Kept == UNCHANGED <<revision, request, pushed, held>>
  <1>1. ASSUME Kept PROVE ShotsAreSound'
    BY <1>1 DEF ShotsAreSound, Requests, SoundShots, Sound
  <1>2. ASSUME UNCHANGED revision PROVE SoundShots' = SoundShots /\ Requests' = Requests
    BY <1>2 DEF Requests, SoundShots, Sound
  <1>3. /\ revision \in Nat /\ pushed \in [USERS -> Seq(SoundShots)]
        /\ held \in [USERS -> SoundShots]
        /\ \A u \in USERS, k \in Kinds : request[u][k] \in Requests
    BY DEF ShotsAreSound
  <1>4. ASSUME NEW u \in USERS, NEW k \in Kinds, Send(u, k), UNCHANGED <<revision, held>>,
               pushed' \in [USERS -> Seq(SoundShots)]
        PROVE  ShotsAreSound'
    <2>1. Nothing \in SoundShots
      BY <1>3 DEF SoundShots, Shots, Sound, Nothing, NoRows
    <2>2. [Idle EXCEPT !.at = "sent"] \in Requests
      BY <2>1 DEF Idle, Requests, Stages
    <2> QED BY <1>2, <1>3, <1>4, <2>2, RequestGoesOn DEF Send
  <1>5. ASSUME NEW u \in USERS, NEW k \in Kinds, Answered(u, k), UNCHANGED <<revision, pushed>>,
               held' \in [USERS -> SoundShots]
        PROVE  ShotsAreSound'
    <2>1. Nothing \in SoundShots
      BY <1>3 DEF SoundShots, Shots, Sound, Nothing, NoRows
    <2>2. Idle \in Requests
      BY <2>1 DEF Idle, Requests, Stages
    <2> QED BY <1>2, <1>3, <1>5, <2>2, RequestGoesOn DEF Answered
  <1>6. ASSUME NEW u \in USERS, Client(u) PROVE ShotsAreSound'
    <2>1. CASE QuerySnapshot(u) \/ StartPreflight(u) \/ StartReady(u) \/ RetryPreflight(u)
      BY <1>3, <1>4, <2>1
         DEF QuerySnapshot, StartPreflight, StartReady, RetryPreflight, Kinds
    <2>2. CASE Resume(u)
      BY <1>3, <1>4, <2>2 DEF Resume, Kinds
    <2>3. CASE ResetCoordinator(u) \/ TakeGrant(u)
      BY <1>1, <2>3 DEF ResetCoordinator, TakeGrant
    <2>4. CASE TakePush(u)
      <3>1. Head(pushed[u]) \in SoundShots /\ Tail(pushed[u]) \in Seq(SoundShots)
        BY <1>3, <2>4 DEF TakePush
      <3>2. Newest(held[u], Head(pushed[u])) \in SoundShots
        BY <1>3, <3>1 DEF Newest
      <3>3. held' \in [USERS -> SoundShots] /\ pushed' \in [USERS -> Seq(SoundShots)]
        BY <1>3, <2>4, <3>1, <3>2 DEF TakePush
      <3> QED BY <1>2, <2>4, <3>3 DEF TakePush, ShotsAreSound
    <2>5. ASSUME NEW k \in Kinds, TakeReply(u, k) PROVE ShotsAreSound'
      <3>1. request[u][k].shot \in SoundShots
        BY <1>3 DEF Requests
      <3>2. held' \in [USERS -> SoundShots]
        BY <1>3, <2>5, <3>1 DEF TakeReply
      <3> QED BY <1>5, <2>5, <3>2 DEF TakeReply
    <2>6. ASSUME NEW k \in Kinds, TakeError(u, k) PROVE ShotsAreSound'
      BY <1>3, <1>5, <2>6 DEF TakeError
    <2> QED BY <1>6, <2>1, <2>2, <2>3, <2>4, <2>5, <2>6 DEF Client
  <1>7. ASSUME NEW u \in USERS, Server(u) PROVE ShotsAreSound'
    <2>1. ASSUME NEW k \in Kinds, Commit(u, k), UNCHANGED <<pushed, held>>
          PROVE  ShotsAreSound'
      <3>1. Requests \subseteq Requests'
        BY <1>3, <2>1, SoundGrows DEF Commit
      <3>2. [request[u][k] EXCEPT !.at = "rows"] \in Requests
        BY <1>3, RequestChanges DEF Stages
      <3>3. request' = [request EXCEPT ![u][k] = [request[u][k] EXCEPT !.at = "rows"]]
        BY <2>1 DEF Commit
      <3> QED BY <1>3, <2>1, <3>1, <3>2, <3>3, RequestGoesOn DEF Commit
    <2>2. CASE CommitPreflight(u) \/ CommitReady(u)
      BY <2>1, <2>2 DEF CommitPreflight, CommitReady, Kinds
    <2>3. CASE AcceptQuery(u)
      <3>1. [request[u]["query"] EXCEPT !.at = "rows"] \in Requests /\ "query" \in Kinds
        BY <1>3, RequestChanges DEF Stages, Kinds
      <3>2. request' = [request EXCEPT ![u]["query"] = [request[u]["query"] EXCEPT !.at = "rows"]]
        BY <2>3 DEF AcceptQuery
      <3> QED BY <1>2, <1>3, <2>3, <3>1, <3>2, RequestGoesOn DEF AcceptQuery
    <2>4. ASSUME NEW k \in Kinds, ReadRows(u, k) PROVE ShotsAreSound'
      <3> DEFINE x == [request[u][k] EXCEPT !.at = "barrier", !.shot.rows = Rows(ROOM)]
      <3>1. request[u][k] \in Requests /\ request[u][k].shot \in SoundShots
        BY <1>3, RequestChanges DEF Stages
      <3>2. [request[u][k].shot EXCEPT !.rows = Rows(ROOM)] \in SoundShots
        BY <1>3, <3>1, RowsShowAgreement, ShotChanges
      <3>3. x \in Requests
        BY <3>1, <3>2, RequestChanges DEF Stages
      <3>4. request' = [request EXCEPT ![u][k] = x] /\ UNCHANGED <<revision, pushed, held>>
        BY <2>4 DEF ReadRows
      <3> HIDE DEF x
      <3> QED BY <1>2, <1>3, <3>3, <3>4, RequestGoesOn
    <2>5. ASSUME NEW k \in Kinds, ReadBarrier(u, k) PROVE ShotsAreSound'
      <3> DEFINE x == [request[u][k] EXCEPT !.at = "revision", !.shot.launch_at = HasLaunchAt(ROOM)]
      <3>1. request[u][k] \in Requests /\ request[u][k].shot \in SoundShots
        BY <1>3, RequestChanges DEF Stages
      <3>2. [request[u][k].shot EXCEPT !.launch_at = HasLaunchAt(ROOM)] \in SoundShots
        BY <1>3, <3>1, ShotChanges DEF HasLaunchAt
      <3>3. x \in Requests
        BY <3>1, <3>2, RequestChanges DEF Stages
      <3>4. request' = [request EXCEPT ![u][k] = x] /\ UNCHANGED <<revision, pushed, held>>
        BY <2>5 DEF ReadBarrier
      <3> HIDE DEF x
      <3> QED BY <1>2, <1>3, <3>3, <3>4, RequestGoesOn
    <2>6. ASSUME NEW k \in Kinds, ReadRevision(u, k) PROVE ShotsAreSound'
      <3> DEFINE to == IF k = "query" THEN {} ELSE members[ROOM]
                 x == [request[u][k] EXCEPT !.at = "notify", !.shot.revision = revision,
                                            !.unsent = to]
      <3>1. request[u][k] \in Requests /\ request[u][k].shot \in SoundShots
        BY <1>3, RequestChanges DEF Stages
      <3>2. [request[u][k].shot EXCEPT !.revision = revision] \in SoundShots
        BY <1>3, <3>1, ShotChanges
      <3>3. to \in SUBSET USERS
        BY DEF IInv, TypeOK
      <3>4. request' = [request EXCEPT ![u][k] = x] /\ UNCHANGED <<revision, pushed, held>>
        BY <2>6 DEF ReadRevision
      <3> HIDE DEF to
      <3>5. x \in Requests
        BY <3>1, <3>2, <3>3, RequestChanges DEF Stages
      <3> HIDE DEF x
      <3> QED BY <1>2, <1>3, <3>4, <3>5, RequestGoesOn
    <2>7. ASSUME NEW k \in Kinds, NEW m \in USERS, Notify(u, k, m) PROVE ShotsAreSound'
      <3> DEFINE x == [request[u][k] EXCEPT !.unsent = @ \ {m}]
      <3>1. request[u][k] \in Requests /\ request[u][k].shot \in SoundShots
        BY <1>3, RequestChanges DEF Stages
      <3>2. request[u][k].unsent \ {m} \in SUBSET USERS
        BY <3>1 DEF Requests
      <3>3. x \in Requests
        BY <3>1, <3>2, RequestChanges DEF Stages
      <3>4. request' = [request EXCEPT ![u][k] = x] /\ UNCHANGED <<revision, held>>
        BY <2>7 DEF Notify
      <3>5. pushed' \in [USERS -> Seq(SoundShots)]
        BY <1>3, <2>7, <3>1 DEF Notify
      <3> HIDE DEF x
      <3> QED BY <1>2, <1>3, <3>3, <3>4, <3>5, RequestGoesOn
    <2> QED BY <1>7, <2>2, <2>3, <2>4, <2>5, <2>6, <2>7 DEF Server
  <1>8. CASE (\E r \in ROOMS : LaunchTimeComes(r) /\ UNCHANGED snapshotVars) \/ Elsewhere
    BY <1>1, <1>8 DEF Elsewhere, snapshotVars
  <1>9. CASE UNCHANGED allSnapshotVars
    BY <1>1, <1>9 DEF allSnapshotVars, snapshotVars
  <1> QED BY <1>6, <1>7, <1>8, <1>9 DEF SnapshotNext

LEMMA SoundHolds ==
  ASSUME ROOM \in ROOMS
  PROVE  SnapshotSpec => []ShotsAreSound
  <1>1. IInv /\ SetupInv /\ ShotsAreSound /\ [SnapshotNext]_allSnapshotVars => ShotsAreSound'
    BY SoundStep
  <1> QED BY <1>1, SoundInit, SetupInvHolds, SnapshotsImplementSetup, PTL DEF SnapshotSpec

\* The launch button asks for two ready members and not for their controllers: it shows
\* only what both had consented to, however late and torn the snapshot is.
THEOREM LaunchButtonShowsAgreement ==
  ASSUME ROOM \in ROOMS
  PROVE  SnapshotSpec => [](\A u \in USERS : CanLaunch(u) => held[u].rows.controllers = 2)
  <1>1. ShotsAreSound => \A u \in USERS : CanLaunch(u) => held[u].rows.controllers = 2
    BY DEF ShotsAreSound, SoundShots, Sound, CanLaunch
  <1> QED BY <1>1, SoundHolds, PTL

\* What a client holds is never ahead of the server, so that newestSnapshot takes every
\* snapshot that carries the server's present revision.
THEOREM PresentRevisionIsTaken ==
  ASSUME ROOM \in ROOMS
  PROVE  SnapshotSpec => [](\A u \in USERS, shot \in Shots :
                              shot.revision = revision => Newest(held[u], shot) = shot)
  <1>1. ShotsAreSound => \A u \in USERS, shot \in Shots :
                           shot.revision = revision => Newest(held[u], shot) = shot
    BY DEF ShotsAreSound, SoundShots, Shots, Sound, Newest
  <1> QED BY <1>1, SoundHolds, PTL
=============================================================================
