----------------------------- MODULE MatchProbe -----------------------------
(***************************************************************************)
(* The readiness probe of two peers (packages/networking: punch_hole and   *)
(* run_match_probe_with): after a bounded UDP hole punch, or over the      *)
(* relay without one, the peers exchange numbered deterministic frames in  *)
(* lockstep and each folds the pairs into a transcript checksum.           *)
(*                                                                         *)
(* The network holds the packets in flight.  UDP loses, duplicates and     *)
(* reorders them; the relay loses those sent to a full queue or to a peer  *)
(* that has not connected.  A packet is identified by its frame number:    *)
(* its input is a function of the number and of the sender's role.         *)
(***************************************************************************)
EXTENDS Integers, Sequences

CONSTANTS
  FRAMES,    \* frame_count
  ATTEMPTS   \* attempts of the hole punch

ASSUME FramesAssumption == FRAMES \in Nat \ {0} /\ ATTEMPTS \in Nat \ {0}

Peers    == {"host", "guest"}
Other(p) == IF p = "host" THEN "guest" ELSE "host"
Numbers  == 0 .. FRAMES - 1

VARIABLES
  route,       \* "direct" (UDP) or "relay"
  phase,       \* where each peer's run_reserved_match_probe is
  tries,       \* hole punch attempts made
  punched,     \* peers with a hole punch packet in flight
  frame,       \* frame_number of the lockstep loop, FRAMES once it is over
  transcript,  \* <<host input, guest input>> pairs folded into the checksum
  wire         \* per sender: the numbers of its frames in flight

vars == <<route, phase, tries, punched, frame, transcript, wire>>

\* deterministic_frame
Input(role, n) == (IF role = "host" THEN n ELSE n + 2) % 4

\* The checksum takes the host's input first, on both sides.
\* Mutant: the local input first.
Folded_LocalFirst(p, local, remote) == <<Input(p, local), Input(Other(p), remote)>>

Folded(p, local, remote) ==
  IF p = "host" THEN <<Input("host", local), Input("guest", remote)>>
                ELSE <<Input("host", remote), Input("guest", local)>>

TypeOK ==
  /\ route      \in {"direct", "relay"}
  /\ phase      \in [Peers -> {"starting", "probing", "lingering", "done", "failed"}]
  /\ tries      \in [Peers -> 0 .. ATTEMPTS]
  /\ punched    \subseteq Peers
  /\ frame      \in [Peers -> 0 .. FRAMES]
  /\ transcript \in [Peers -> Seq((0..3) \X (0..3))]
  /\ wire       \in [Peers -> SUBSET Numbers]

Init ==
  /\ route \in {"direct", "relay"}
  /\ phase      = [p \in Peers |-> "starting"]
  /\ tries      = [p \in Peers |-> 0]
  /\ punched    = {}
  /\ frame      = [p \in Peers |-> 0]
  /\ transcript = [p \in Peers |-> << >>]
  /\ wire       = [p \in Peers |-> {}]

-----------------------------------------------------------------------------
(* Finding the peer *)

\* The lockstep loop starts by sending frame 0.
StartProbe(p) ==
  /\ phase' = [phase EXCEPT ![p] = "probing"]
  /\ wire'  = [wire EXCEPT ![p] = @ \union {0}]
  /\ UNCHANGED <<route, tries, frame, transcript>>

\* RelayPeer::connect
ConnectRelay(p) ==
  /\ route = "relay" /\ phase[p] = "starting"
  /\ StartProbe(p)
  /\ UNCHANGED punched

\* One attempt of punch_hole: packets to all candidates, then a bounded wait.
Punch(p) ==
  /\ route = "direct" /\ phase[p] = "starting" /\ tries[p] < ATTEMPTS
  /\ tries'   = [tries EXCEPT ![p] = @ + 1]
  /\ punched' = punched \union {p}
  /\ UNCHANGED <<route, phase, frame, transcript, wire>>

\* The first packet of the peer is answered once, and ends the punch.
ReceivePunch(p) ==
  /\ route = "direct" /\ phase[p] = "starting" /\ tries[p] > 0
  /\ Other(p) \in punched
  /\ punched' \in {punched \union {p}, (punched \ {Other(p)}) \union {p}}
  /\ StartProbe(p)

\* HolePunchTimeout
PunchTimesOut(p) ==
  /\ route = "direct" /\ phase[p] = "starting" /\ tries[p] = ATTEMPTS
  /\ phase' = [phase EXCEPT ![p] = "failed"]
  /\ UNCHANGED <<route, tries, punched, frame, transcript, wire>>

-----------------------------------------------------------------------------
(* The lockstep loop *)

\* Whether a received number answers the frame the loop waits for.
Answers(n, k) == n = k

\* for frame_number in 0..frame_count.
LastFrame(k) == k + 1 = FRAMES

\* The frame sent in answer to one that is not the awaited one: the same number
\* again for an older one, the current frame for a newer one.
\* Mutant: always the current frame.
Reply_Current(p, n) == frame[p]

Reply(p, n) == IF n < frame[p] THEN n ELSE frame[p]

\* Frame n of p's peer arrives, perhaps not for the last time, and p sends the
\* frames in reply.
Exchange(p, n, reply) ==
  \E rest \in {wire[Other(p)], wire[Other(p)] \ {n}} :
    wire' = [wire EXCEPT ![Other(p)] = rest, ![p] = @ \union reply]

ReceiveAnswer(p, n) ==
  /\ phase[p] = "probing" /\ n \in wire[Other(p)]
  /\ Answers(n, frame[p])
  /\ transcript' = [transcript EXCEPT ![p] = Append(@, Folded(p, frame[p], n))]
  /\ frame'      = [frame EXCEPT ![p] = @ + 1]
  /\ \/ /\ LastFrame(frame[p])
        /\ phase' = [phase EXCEPT ![p] = "lingering"]
        /\ Exchange(p, n, {})
     \/ /\ ~LastFrame(frame[p])
        /\ Exchange(p, n, {frame[p] + 1})
        /\ UNCHANGED phase
  /\ UNCHANGED <<route, tries, punched>>

ReceiveOther(p, n) ==
  /\ phase[p] = "probing" /\ n \in wire[Other(p)]
  /\ ~Answers(n, frame[p])
  /\ Exchange(p, n, {Reply(p, n)})
  /\ UNCHANGED <<route, phase, tries, punched, frame, transcript>>

\* linger_for_peer answers what a lagging peer still sends.
ReceiveLingering(p, n) ==
  /\ phase[p] = "lingering" /\ n \in wire[Other(p)]
  /\ Exchange(p, n, {IF n < FRAMES THEN n ELSE FRAMES - 1})
  /\ UNCHANGED <<route, phase, tries, punched, frame, transcript>>

Receive(p, n) == ReceiveAnswer(p, n) \/ ReceiveOther(p, n) \/ ReceiveLingering(p, n)

\* RETRY_INTERVAL passes without a packet, or the peer's port is unreachable.
Retransmit(p) ==
  /\ phase[p] \in {"probing", "lingering"}
  /\ wire' = [wire EXCEPT ![p] = @ \union {IF phase[p] = "probing" THEN frame[p]
                                           ELSE FRAMES - 1}]
  /\ UNCHANGED <<route, phase, tries, punched, frame, transcript>>

\* COMPLETION_GRACE passes.
LingerEnds(p) ==
  /\ phase[p] = "lingering"
  /\ phase' = [phase EXCEPT ![p] = "done"]
  /\ UNCHANGED <<route, tries, punched, frame, transcript, wire>>

\* The run is cancelled, the transport fails, or a packet of another match or
\* session arrives (PeerMismatch); while probing, also the deadline.  A transport
\* error or a foreign packet fails a lingering probe too.
Fail(p) ==
  /\ phase[p] \in {"starting", "probing", "lingering"}
  /\ phase' = [phase EXCEPT ![p] = "failed"]
  /\ UNCHANGED <<route, tries, punched, frame, transcript, wire>>

\* The network loses a packet, or the receiver's socket is gone or still punching.
Lose(p) ==
  /\ \/ \E n \in wire[p] : wire' = [wire EXCEPT ![p] = @ \ {n}] /\ UNCHANGED punched
     \/ p \in punched /\ punched' = punched \ {p} /\ UNCHANGED wire
  /\ UNCHANGED <<route, phase, tries, frame, transcript>>

-----------------------------------------------------------------------------
Work(p) ==
  \/ ConnectRelay(p)
  \/ Punch(p)
  \/ ReceivePunch(p)
  \/ PunchTimesOut(p)
  \/ \E n \in Numbers : Receive(p, n)
  \/ Retransmit(p)
  \/ Lose(p)

Next == \E p \in Peers : Work(p) \/ LingerEnds(p) \/ Fail(p)

Spec == Init /\ [][Next]_vars

\* The retry timer runs, and the network does not lose one frame for ever.
ProbeFairness ==
  \A p \in Peers :
    /\ WF_vars(Retransmit(p))
    /\ \A n \in Numbers : SF_vars(Receive(p, n))

FairSpec == Spec /\ ProbeFairness

-----------------------------------------------------------------------------
\* The peers are never more than one frame apart, whatever the network does: a
\* probe that completed proves that its peer has received all but the last frame.
LockStep == \A p \in Peers : frame[p] <= frame[Other(p)] + 1

\* The checksums fold the same pairs: one transcript is a prefix of the other, and
\* two completed probes report equal checksums.
TranscriptsAgree ==
  \A p \in Peers : \A i \in 1 .. frame[p] :
    i <= frame[Other(p)] => transcript[p][i] = transcript[Other(p)][i]

\* The probe keeps its promise to those who use its reports: a run ends once, and
\* all reports of one probe carry the same complete checksum.
Promise == INSTANCE ProbeAgreement WITH
  Checksums <- [1 .. FRAMES -> (0..3) \X (0..3)],
  ended     <- [p \in Peers |-> IF phase[p] \in {"done", "failed"} THEN phase[p] ELSE "running"],
  checksum  <- [p \in Peers |-> IF phase[p] = "done" THEN transcript[p] ELSE << >>]

KeepsPromise == Promise!ProbeSpec

\* Neither run fails, and the second of grace outlasts the peer's last retries, as
\* the comment on COMPLETION_GRACE says it does.
Calm == \A p \in Peers : phase[p] # "failed" /\ (phase[p] = "done" => frame[Other(p)] = FRAMES)

\* "Receiving an older frame causes the matching local frame to be retransmitted,
\* allowing either process to start first" (probe.rs): two running probes complete,
\* if both stay calm.
ProbesFinish ==
  []Calm => ((\A p \in Peers : phase[p] = "probing") ~> (\A p \in Peers : frame[p] = FRAMES))
=============================================================================
