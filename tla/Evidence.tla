------------------------------ MODULE Evidence ------------------------------
(***************************************************************************)
(* What becomes of a match: the probe's transcripts and the match's end    *)
(* turn into reports that both members upload, the server pairs, verifies  *)
(* and counts, and a verified pair entitles each member to a receipt and   *)
(* an invite for the next match.                                           *)
(*                                                                         *)
(* Composed with MatchProbe, whose runs give the reports their contents.   *)
(* The room's way from CONNECTING to its end is RoomLifecycle's, and only  *)
(* its results are taken from there.  Requests and replies can be lost;    *)
(* every report is built at a new time, so no two have the same digest.    *)
(***************************************************************************)
EXTENDS MatchProbe, FiniteSets

CONSTANTS
  REPEATS,   \* how often the probe is run again, at most
  LOSSES,    \* requests or replies lost, at most
  MINIMUM,   \* tunnel attempts the route policy asks for
  NONE

ASSUME EvidenceAssumption == REPEATS \in Nat /\ LOSSES \in Nat /\ MINIMUM \in Nat

VARIABLES
  repeats,   \* runs of the probe so far, but for the first
  room,      \* rooms.state: CONNECTING, FINISHED or CANCELLED
  launch,    \* per member: the launch mutation's result, or NONE
  evidence,  \* alpha_evidence: per member and kind, a report or NONE
  upload,    \* per member: the evidence upload mutation
  failure,   \* per member: the failure report in flight, NONE, or Accepted
  receipt,   \* match_receipts and command_results: per member, a payload or NONE
  shown,     \* the receipt a member's page shows, or NONE
  page,      \* members whose match page is open
  losses     \* requests and replies lost so far

evidenceVars == <<repeats, room, launch, evidence, upload, failure, receipt, shown, page, losses>>
allVars      == <<vars, evidenceVars>>

Routes    == {"direct_lan", "tcp_tunnel"}
Kinds     == {"match", "attempt_failure"}
Transport == IF route = "direct" THEN "direct_udp" ELSE "relay"

EvidenceInit ==
  /\ Init
  /\ repeats  = 0
  /\ room     = "CONNECTING"
  /\ launch   = [p \in Peers |-> NONE]
  /\ evidence = [p \in Peers |-> [k \in Kinds |-> NONE]]
  /\ upload   = [p \in Peers |-> [status |-> "idle", failures |-> 0]]
  /\ failure  = [p \in Peers |-> NONE]
  /\ receipt  = [p \in Peers |-> NONE]
  /\ shown    = [p \in Peers |-> NONE]
  /\ page     = Peers
  /\ losses   = 0

-----------------------------------------------------------------------------
(* Reports, and what is concluded from those of one room *)

\* buildMatchReport, of a finished room, a probe report and a launch.
MatchReport(p) ==
  [role |-> p, frames |-> frame[p], checksum |-> transcript[p], transport |-> Transport,
   native |-> launch[p].native]

\* failureEvidence: a failed launch, or else the last failure of the probe.
Failing(p) == IF launch[p] # NONE THEN ~launch[p].ok ELSE phase[p] = "failed"

\* buildAlphaFailureReport
FailureReport(p) ==
  IF launch[p] # NONE
    THEN [stage |-> "native_launch", native |-> launch[p].native]
    ELSE [stage |-> "probe", native |-> "none"]

\* uploadedFailure stays set.
Accepted == [stage |-> "accepted", native |-> "none"]

OfKind(ev, k) == {ev[p][k] : p \in {q \in Peers : ev[q][k] # NONE}}

\* validate_report, of the fields that can differ.
Valid(report) == report.frames = FRAMES /\ Len(report.checksum) = FRAMES

\* verify_match_reports.  Rooms and games are the server's, and both launches need
\* the one compatibility that match setup agreed on.
VerifyPair(first, second) ==
  /\ Valid(first) /\ Valid(second)
  /\ first.role # second.role
  /\ first.checksum = second.checksum
  /\ first.transport = second.transport

\* failure_result
FailureResult(matches) == IF matches # {} THEN "evidence_conflict" ELSE "attempt_failed"

\* summarize_campaign_evidence, for one room: any failure report decides.
Verdict(ev) ==
  LET matches == OfKind(ev, "match")
  IN  CASE OfKind(ev, "attempt_failure") # {} -> FailureResult(matches)
        [] OfKind(ev, "attempt_failure") = {} /\ Cardinality(matches) = 2
             /\ (\A a, b \in matches : a # b => VerifyPair(a, b)) -> "verified"
        [] OTHER -> "report_pair_invalid"

\* The aggregates of the public page and of the route policy compute their own
\* verdicts in SQL: one value of each column over the room's match reports.
OnePair(matches) ==
  /\ Cardinality(matches) = 2
  /\ Cardinality({m.role : m \in matches}) = 2
  /\ Cardinality({m.checksum : m \in matches}) = 1
  /\ \A m \in matches : m.frames = FRAMES

\* public_compatibility.  Mutant: failures are not counted.
PubliclyVerified_Failures(ev) ==
  LET matches == OfKind(ev, "match")
  IN  OnePair(matches) /\ Cardinality({m.native : m \in matches}) = 1

PubliclyVerified(ev) ==
  LET matches == OfKind(ev, "match")
  IN  /\ OnePair(matches) /\ Cardinality({m.native : m \in matches}) = 1
      /\ OfKind(ev, "attempt_failure") = {}

\* tcp_tunnel_evidence looks only at reports of the tunnel, of either kind.
Tunnelled(ev, k) == {m \in OfKind(ev, k) : m.native = "tcp_tunnel"}

TunnelVerified(ev) ==
  OnePair(Tunnelled(ev, "match")) /\ Tunnelled(ev, "attempt_failure") = {}

\* decide_native_route, with the tunnel enabled by the operator.
NativeRoute(attempts, verified) ==
  IF attempts >= MINIMUM /\ attempts > 0 /\ verified * 100 >= attempts * 80
    THEN "tcp_tunnel" ELSE "direct_lan"

-----------------------------------------------------------------------------
(* The probe, and the match *)

ProbeStep == Next /\ UNCHANGED evidenceVars

\* Both runs have returned: the sockets are gone with what is in flight.
Ended == \A p \in Peers : phase[p] \in {"done", "failed"}

Closed ==
  /\ Ended
  /\ \A p \in Peers : tries[p] = 0 /\ wire[p] = {} /\ p \notin punched

CloseSockets ==
  /\ Ended /\ ~Closed
  /\ tries'   = [p \in Peers |-> 0]
  /\ punched' = {}
  /\ wire'    = [p \in Peers |-> {}]
  /\ UNCHANGED <<route, phase, frame, transcript, evidenceVars>>

\* MatchProbeConfig::new and the loop's variables.
\* Mutant: the checksum of the last run is folded on.
FreshRun_OldTranscript ==
  /\ frame' = [p \in Peers |-> 0]
  /\ UNCHANGED transcript

FreshRun ==
  /\ frame'      = [p \in Peers |-> 0]
  /\ transcript' = [p \in Peers |-> << >>]

\* The fallback to the relay after a failed direct probe, "Retry LAN probe", and
\* "Retry direct UDP" after one that does not let the members play (over the relay,
\* or with reflexive candidates): new sockets and a new session, so that nothing in
\* flight is received.
RepeatProbe ==
  /\ repeats < REPEATS /\ repeats' = repeats + 1
  /\ room = "CONNECTING"
  /\ Closed /\ \A p \in Peers : launch[p] = NONE
  /\ route' \in {"direct", "relay"}
  /\ phase' = [p \in Peers |-> "starting"]
  /\ FreshRun
  /\ UNCHANGED <<tries, punched, wire, room, launch, evidence, upload, failure, receipt, shown, page, losses>>

\* A member launches over the route its snapshot has, once both completed a direct
\* probe with one transcript.  The policy is asked anew for each snapshot, and the
\* evidence of other rooms arrives in between.
Launch(p) ==
  /\ room = "CONNECTING" /\ launch[p] = NONE /\ p \in page
  /\ route = "direct" /\ \A q \in Peers : phase[q] = "done"
  /\ transcript[p] = transcript[Other(p)]
  /\ \E attempts \in {0, MINIMUM}, ok \in BOOLEAN :
       launch' = [launch EXCEPT ![p] = [native |-> NativeRoute(attempts, attempts), ok |-> ok]]
  /\ UNCHANGED <<vars, repeats, room, evidence, upload, failure, receipt, shown, page, losses>>

\* A room both have launched in finishes, also if a launch was undone after it was
\* recorded.  It is cancelled when a member leaves, or at its deadline; a probe that
\* still runs is then cancelled first.
RoomEnds ==
  /\ room = "CONNECTING" /\ Ended
  /\ \/ (\A p \in Peers : launch[p] # NONE) /\ room' = "FINISHED"
     \/ room' = "CANCELLED"
  /\ UNCHANGED <<vars, repeats, launch, evidence, upload, failure, receipt, shown, page, losses>>

\* "Return to games"; mutations that run go on.
Leave(p) ==
  /\ p \in page /\ room # "CONNECTING"
  /\ page' = page \ {p}
  /\ UNCHANGED <<vars, repeats, room, launch, evidence, upload, failure, receipt, shown, losses>>

-----------------------------------------------------------------------------
(* Uploading evidence *)

\* evidence_room_context: the role is the member's, and a match is over.
InContext(k) == k = "match" => room = "FINISHED"

\* reject_conflicting_duplicate: no other report of the member and kind is there.
NoConflict(p, k) == evidence[p][k] = NONE

Accepts(p, k) == InContext(k) /\ NoConflict(p, k)

\* submit_evidence: the first report stays.
SubmitEvidence(p, k, report) ==
  IF Accepts(p, k) THEN [evidence EXCEPT ![p][k] = report] ELSE evidence

\* One request: its effect takes place or not, and it is answered or not.
\* Without an answer, something was lost.
Delivery(effect, answered) ==
  /\ answered => effect
  /\ losses' = IF answered THEN losses ELSE losses + 1
  /\ losses' <= LOSSES

\* completedRoom, probeReport and playableMatch.data are there.
Reportable(p) ==
  /\ room = "FINISHED" /\ phase[p] = "done" /\ launch[p] # NONE /\ launch[p].ok

StartUpload(p) ==
  /\ p \in page /\ Reportable(p) /\ upload[p].status = "idle"
  /\ upload' = [upload EXCEPT ![p] = [status |-> "pending", failures |-> 0]]
  /\ UNCHANGED <<vars, repeats, room, launch, evidence, failure, receipt, shown, page, losses>>

\* retry: 2.  Mutant: no retry.
GivesUp_AtOnce(failures) == TRUE

GivesUp(failures) == failures = 2

\* One try of the mutation.  Another report on record is an error as well, also if
\* an earlier try of this mutation put it there.
TryUpload(p) ==
  /\ upload[p].status = "pending"
  /\ \E effect, answered \in BOOLEAN :
       /\ Delivery(effect, answered)
       /\ evidence' = IF effect THEN SubmitEvidence(p, "match", MatchReport(p)) ELSE evidence
       /\ upload' = [upload EXCEPT ![p] =
            IF answered /\ Accepts(p, "match") THEN [@ EXCEPT !.status = "success"]
            ELSE IF GivesUp(@.failures) THEN [@ EXCEPT !.status = "error"]
            ELSE [status |-> "pending", failures |-> @.failures + 1]]
  /\ UNCHANGED <<vars, repeats, room, launch, failure, receipt, shown, page>>

\* "Retry evidence upload"
ResetUpload(p) ==
  /\ p \in page /\ upload[p].status = "error"
  /\ upload' = [upload EXCEPT ![p].status = "idle"]
  /\ UNCHANGED <<vars, repeats, room, launch, evidence, failure, receipt, shown, page, losses>>

\* Failure evidence is sent at the first failure the page shows.  The report is on
\* its way while the member goes on, perhaps with another try.
SendFailure(p) ==
  /\ p \in page /\ failure[p] = NONE /\ Failing(p)
  /\ failure' = [failure EXCEPT ![p] = FailureReport(p)]
  /\ UNCHANGED <<vars, repeats, room, launch, evidence, upload, receipt, shown, page, losses>>

\* The reply sets or clears uploadedFailure.
TakeFailure(p) ==
  /\ failure[p] \notin {NONE, Accepted}
  /\ \E effect, answered \in BOOLEAN :
       /\ Delivery(effect, answered)
       /\ evidence' =
            IF effect THEN SubmitEvidence(p, "attempt_failure", failure[p]) ELSE evidence
       /\ failure' = [failure EXCEPT ![p] =
            IF answered /\ Accepts(p, "attempt_failure") THEN Accepted ELSE NONE]
  /\ UNCHANGED <<vars, repeats, room, launch, upload, receipt, shown, page>>

-----------------------------------------------------------------------------
(* Receipts *)

\* command_results has the key of this page's receipt.  Mutant: it is not asked.
Answered_Never(p) == FALSE

Answered(p) == receipt[p] # NONE

\* create_match_receipt asks for a verified pair over one route.
\* Mutant: failure reports are not counted.
Receivable_Failures(p) ==
  LET matches == OfKind(evidence, "match")
  IN  /\ Cardinality(matches) = 2
      /\ \A a, b \in matches : a # b => VerifyPair(a, b) /\ a.native = b.native
      /\ receipt[p] = NONE

Receivable(p) ==
  LET matches == OfKind(evidence, "match")
  IN  /\ OfKind(evidence, "attempt_failure") = {}
      /\ Cardinality(matches) = 2
      /\ \A a, b \in matches : a # b => VerifyPair(a, b) /\ a.native = b.native
      /\ receipt[p] = NONE

\* create_match_receipt, all of it: one transaction that locks the finished room,
\* looks for the key again, makes the next room and stores the answer.
CreateMatchReceipt(p) ==
  IF room = "FINISHED" /\ ~Answered(p) /\ Receivable(p)
    THEN [receipt EXCEPT ![p] = launch[p].native] ELSE receipt

\* "Create next-match invite", which needs the upload to have succeeded.  The key
\* is kept by the page, so that a click after a lost reply asks for the same receipt.
ClickReceipt(p) ==
  /\ p \in page /\ shown[p] = NONE
  /\ Reportable(p) /\ upload[p].status = "success"
  /\ \E effect, answered \in BOOLEAN :
       /\ Delivery(effect, answered)
       /\ receipt' = IF effect THEN CreateMatchReceipt(p) ELSE receipt
       /\ shown' = IF answered /\ (Answered(p) \/ Receivable(p))
                     THEN [shown EXCEPT ![p] = receipt'[p]] ELSE shown
  /\ UNCHANGED <<vars, repeats, room, launch, evidence, upload, failure, page>>

-----------------------------------------------------------------------------
EvidenceNext ==
  \/ ProbeStep
  \/ CloseSockets
  \/ RepeatProbe
  \/ RoomEnds
  \/ \E p \in Peers :
       \/ Launch(p) \/ Leave(p)
       \/ StartUpload(p) \/ TryUpload(p) \/ ResetUpload(p)
       \/ SendFailure(p) \/ TakeFailure(p)
       \/ ClickReceipt(p)

EvidenceSpec == EvidenceInit /\ [][EvidenceNext]_allVars

\* Effects run and mutations are tried again; a member who can click for the
\* invite does, as long as it is not there.
EvidenceFairSpec ==
  /\ EvidenceSpec /\ ProbeFairness
  /\ \A p \in Peers :
       /\ WF_allVars(StartUpload(p))
       /\ WF_allVars(TryUpload(p))
       /\ WF_allVars(ClickReceipt(p))

-----------------------------------------------------------------------------
\* Two honest reports on record always verify: what the probes computed over a
\* lossy network, in whichever of several runs, ends up as one verifiable pair.
RecordedPairVerifies ==
  \A a, b \in OfKind(evidence, "match") : a # b => VerifyPair(a, b)

\* A receipt is given out only for a match that the campaign summary counts as
\* verified at that moment, whatever failure reports are still on their way.
ReceiptIsVerified ==
  [][receipt' # receipt => Verdict(evidence) = "verified"]_allVars

\* The three verdicts on a room agree as far as they can: what the public page or
\* the route policy counts as verified is verified for the campaign summary, unless,
\* for the policy, a failure report without a native route is on record.
AggregatesFollowSummary ==
  /\ PubliclyVerified(evidence) => Verdict(evidence) = "verified"
  /\ TunnelVerified(evidence) =>
       \/ Verdict(evidence) = "verified"
       \/ \E m \in OfKind(evidence, "attempt_failure") : m.native = "none"

\* The evidence of a finished match is recorded, with two requests or replies lost,
\* if the member stays on the page.
EvidenceArrives ==
  \A p \in Peers : Reportable(p) ~> (evidence[p]["match"] # NONE \/ p \notin page)

\* A member whose upload was answered gets its invite, also after a lost reply:
\* asked again, the server returns the receipt it has made.
ReceiptArrives ==
  \A p \in Peers :
    (/\ upload[p].status = "success"
     /\ [](p \in page /\ (Receivable(p) \/ receipt[p] # NONE))) ~> (shown[p] # NONE)
=============================================================================
