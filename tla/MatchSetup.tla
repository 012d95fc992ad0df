----------------------------- MODULE MatchSetup -----------------------------
(***************************************************************************)
(* Match setup on top of RoomLifecycle: the compatibility preflights of a  *)
(* room's members, the ready handshake, the launch barrier it arms, and    *)
(* the launch grants that are handed out only behind an open barrier.      *)
(*                                                                         *)
(* The desktop client always asks for its grant with campaign_mode         *)
(* (apps/client/src/lib/api.ts), so IssueCampaignGrant takes the place of  *)
(* RoomLifecycle's IssueGrant.  Every handler locks the room row first.    *)
(***************************************************************************)
EXTENDS RoomLifecycle

CONSTANT FINGERPRINTS   \* values of the compatibility column

VARIABLES
  preflight,   \* match_preflights: per room and user, a row or NoPreflight
  barrier      \* room_launch_barriers: "none", "armed" (launch_at ahead) or "open"

setupVars == <<preflight, barrier>>
allVars   == <<vars, setupVars>>

NoPreflight == [ready |-> FALSE, slot |-> 0]

Preflights == [compatibility : FINGERPRINTS, port : BOOLEAN, controller : BOOLEAN,
               slot : 1..2, ready : BOOLEAN]

SetupTypeOK ==
  /\ TypeOK
  /\ preflight \in [ROOMS -> [USERS -> Preflights \union {NoPreflight}]]
  /\ barrier   \in [ROOMS -> {"none", "armed", "open"}]

SetupInit ==
  /\ Init
  /\ preflight = [r \in ROOMS |-> [u \in USERS |-> NoPreflight]]
  /\ barrier   = [r \in ROOMS |-> "none"]

-----------------------------------------------------------------------------
\* lock_active_attempt: the member's room is active and not overdue.
SetupOpen(u, r) ==
  /\ u \in members[r]
  /\ room[r] \in {"CONNECTING", "PLAYING"}
  /\ due[r] # "past"

\* expected_player_slot
ExpectedSlot(u, r) == IF host[r] = u THEN 1 ELSE 2

Submitted(r) == {u \in USERS : preflight[r][u] # NoPreflight}
Ready(r)     == {u \in USERS : preflight[r][u].ready}

\* preflight_status: two rows, one fingerprint, free ports, both controllers in
\* the two slots.  Mutant: the controllers are not asked for.
Agreed_NoControllers(r) ==
  /\ Cardinality(Submitted(r)) = 2
  /\ \A u \in Submitted(r) : preflight[r][u].port
  /\ \A u, v \in Submitted(r) : preflight[r][u].compatibility = preflight[r][v].compatibility

Agreed(r) ==
  /\ Cardinality(Submitted(r)) = 2
  /\ \A u \in Submitted(r) : preflight[r][u].port /\ preflight[r][u].controller
  /\ \A u, v \in Submitted(r) : preflight[r][u].compatibility = preflight[r][v].compatibility
  /\ {preflight[r][u].slot : u \in Submitted(r)} = {1, 2}

\* DELETE FROM room_launch_barriers, and ready = FALSE in the new row.
\* Mutant: the barrier is kept.
StorePreflight_KeepBarrier(u, r, row) ==
  /\ preflight' = [preflight EXCEPT ![r][u] = row]
  /\ UNCHANGED barrier

StorePreflight(u, r, row) ==
  /\ preflight' = [preflight EXCEPT ![r][u] = row]
  /\ barrier'   = [barrier EXCEPT ![r] = "none"]

\* submit_preflight; a row for another slot is refused.
SubmitPreflight(u, r, row) ==
  /\ SetupOpen(u, r)
  /\ row.slot = ExpectedSlot(u, r) /\ ~row.ready
  /\ StorePreflight(u, r, row)
  /\ UNCHANGED vars

\* ready_to_launch: the second ready member arms the barrier.  A barrier that is
\* still ahead keeps its time, one that has passed gets a new one.
ReadyToLaunch(u, r) ==
  /\ SetupOpen(u, r)
  /\ Agreed(r)
  /\ preflight' = [preflight EXCEPT ![r][u].ready = TRUE]
  /\ barrier'   = [barrier EXCEPT ![r] =
                     IF Cardinality(Ready(r) \union {u}) = 2 THEN "armed" ELSE @]
  /\ UNCHANGED vars

\* Five seconds pass.
LaunchTimeComes(r) ==
  /\ barrier[r] = "armed"
  /\ barrier' = [barrier EXCEPT ![r] = "open"]
  /\ UNCHANGED <<vars, preflight>>

\* create_launch_grant with campaign_mode.
IssueCampaignGrant(u, r) ==
  /\ barrier[r] = "open"
  /\ Cardinality(Ready(r)) = 2
  /\ IssueGrant(u, r)
  /\ UNCHANGED setupVars

SetupNext ==
  \/ \E u \in USERS, r \in ROOMS :
       \/ \E row \in Preflights : SubmitPreflight(u, r, row)
       \/ ReadyToLaunch(u, r)
       \/ IssueCampaignGrant(u, r)
  \/ \E r \in ROOMS : LaunchTimeComes(r)
  \/ /\ \/ \E u \in USERS, r \in ROOMS :
             \/ RoomRequest(u, r)
             \/ ChallengeRequest(u, r)
             \/ ConsumeGrant(u, r)
             \/ ConfirmLaunch(u, r)
             \/ ConfirmExit(u, r)
        \/ \E r \in ROOMS : CreateInvite(r)
        \/ TimePasses
        \/ ReconcilePass
     /\ UNCHANGED setupVars

SetupSpec == SetupInit /\ [][SetupNext]_allVars

-----------------------------------------------------------------------------
\* Both members have submitted, declared themselves ready, and agree: one
\* fingerprint, free ports, connected controllers, host in slot 1 and guest in 2.
Consented(r) ==
  /\ Submitted(r) = members[r] /\ Ready(r) = members[r]
  /\ \E f \in FINGERPRINTS : \A u \in members[r] :
       /\ preflight[r][u].compatibility = f
       /\ preflight[r][u].port /\ preflight[r][u].controller
       /\ preflight[r][u].slot = ExpectedSlot(u, r)
  /\ \E guest \in members[r] : guest # host[r]

\* A launch barrier stands only for the preflights as they are now.  Readiness is
\* declared, and the barrier armed, in requests of different users, with
\* resubmissions, a third user's requests and the deadline in between.
BarrierIsConsented == \A r \in ROOMS : barrier[r] # "none" => Consented(r)

\* Readiness of both members means agreement also when no barrier stands: neither
\* can have resubmitted since the later of the two ready requests.
BothReadyConsented == \A r \in ROOMS : Ready(r) # {} /\ Ready(r) = members[r] => Consented(r)

\* docs/adr/0005: "Both members must submit matching executable, core, and content
\* fingerprints and confirm their native port before the server issues a campaign
\* launch grant"; docs/adr/0006 adds the controllers.  The grant handler itself
\* only counts ready rows and looks at the barrier's time.
GrantNeedsConsent ==
  [][\A r \in ROOMS : ~(issued'[r] \subseteq issued[r]) => Consented(r)]_allVars
=============================================================================
