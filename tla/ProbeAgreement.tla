--------------------------- MODULE ProbeAgreement ---------------------------
(***************************************************************************)
(* What the readiness probe promises: each peer's run ends once, with a    *)
(* report or without one, and reports of one probe have one checksum.      *)
(* MatchProbe implements it over UDP and over the relay; Evidence relies   *)
(* on it when the reports of both peers meet on the server.                *)
(***************************************************************************)
CONSTANTS
  Peers,
  Checksums  \* the checksums a report can have

VARIABLES
  ended,     \* "running", "done" (with a report) or "failed", per peer
  checksum   \* of the report, once there is one

probeVars == <<ended, checksum>>

ProbeStart(e, c) ==
  /\ e = [p \in Peers |-> "running"]
  /\ c = [p \in Peers |-> << >>]

ProbeInit == ProbeStart(ended, checksum)

Complete(p, c) ==
  /\ ended[p] = "running"
  /\ \A q \in Peers : ended[q] = "done" => checksum[q] = c
  /\ ended'    = [ended EXCEPT ![p] = "done"]
  /\ checksum' = [checksum EXCEPT ![p] = c]

GiveUp(p) ==
  /\ ended[p] = "running"
  /\ ended' = [ended EXCEPT ![p] = "failed"]
  /\ UNCHANGED checksum

\* A further probe, after the runs of the last one.
Repeat ==
  /\ \A p \in Peers : ended[p] # "running"
  /\ ProbeStart(ended', checksum')

\* checksum'[p] is a checksum: one step completes with one.
ProbeNext ==
  \/ \E p \in Peers :
       \/ GiveUp(p)
       \/ checksum'[p] \in Checksums /\ Complete(p, checksum'[p])
  \/ Repeat

ProbeSpec == ProbeInit /\ [][ProbeNext]_probeVars
=============================================================================
