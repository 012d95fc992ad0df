-------------------------- MODULE Evidence_proofs --------------------------
(* Theorems about MatchProbe and about Evidence, which runs it: for any    *)
(* number of frames, punch attempts, repeated probes and lost requests,    *)
(* and whatever the policy asks for.                                       *)
EXTENDS Evidence, FiniteSetTheorems, TLAPS

-----------------------------------------------------------------------------
(* The probe: its peers stay in step and fold the same transcript *)

\* The transcript entry of frame n, whoever folds it.
Entry(n) == <<Input("host", n), Input("guest", n)>>

\* A peer has folded exactly the entries of its finished frames.
FoldsEntries ==
  \A p \in Peers : /\ Len(transcript[p]) = frame[p]
                   /\ \A i \in 1 .. frame[p] : transcript[p][i] = Entry(i - 1)

\* Nobody sends a frame it has not reached, and the loop counter fits the phase.
SendsReached ==
  \A p \in Peers : /\ \A n \in wire[p] : n <= frame[p]
                   /\ phase[p] = "starting" => frame[p] = 0
                   /\ phase[p] = "probing" => frame[p] < FRAMES
                   /\ phase[p] \in {"lingering", "done"} => frame[p] = FRAMES

\* LockStep is kept by a receipt because the frame received was sent by a peer that
\* had reached it (SendsReached); TranscriptsAgree because both fold the same entry.
IInv == TypeOK /\ LockStep /\ SendsReached /\ FoldsEntries

LEMMA OtherIsPeer == \A p \in Peers : Other(p) \in Peers /\ Other(p) # p /\ Other(Other(p)) = p
  BY DEF Peers, Other

LEMMA InputRange == \A role, n : n \in Nat => Input(role, n) \in 0..3
  BY FramesAssumption DEF Input

\* Both sides fold a frame into the same entry.
LEMMA FoldedEntry == \A p \in Peers : \A n \in Nat : Folded(p, n, n) = Entry(n)
  BY DEF Folded, Entry

LEMMA EntryType == \A n \in Nat : Entry(n) \in (0..3) \X (0..3)
  BY InputRange DEF Entry

LEMMA InvInit == Init => IInv
  <1> SUFFICES ASSUME Init PROVE IInv
    OBVIOUS
  <1> USE FramesAssumption
  <1>1. TypeOK
    BY DEF Init, TypeOK, Peers, Numbers
  <1>2. LockStep /\ SendsReached
    BY OtherIsPeer DEF Init, LockStep, SendsReached
  <1>3. FoldsEntries
    BY DEF Init, FoldsEntries
  <1> QED BY <1>1, <1>2, <1>3 DEF IInv

\* Steps that advance no frame, fold nothing and send only frames already reached.
Quiet ==
  /\ frame' = frame /\ transcript' = transcript
  /\ \A q \in Peers : \A n \in wire'[q] : n <= frame[q]
  /\ \A q \in Peers : \/ phase'[q] \in {phase[q], "failed"}
                      \/ phase[q] = "starting" /\ phase'[q] = "probing"
                      \/ phase[q] = "lingering" /\ phase'[q] = "done"

LEMMA InvQuiet == IInv /\ TypeOK' /\ Quiet => IInv'
  <1> SUFFICES ASSUME IInv, TypeOK', Quiet PROVE IInv'
    OBVIOUS
  <1> USE FramesAssumption DEF IInv, Quiet
  <1>1. LockStep'
    BY OtherIsPeer DEF LockStep
  <1>2. SendsReached'
    BY DEF SendsReached, TypeOK
  <1>3. FoldsEntries'
    BY DEF FoldsEntries
  <1> QED BY <1>1, <1>2, <1>3

\* The receipt of the awaited frame.
LEMMA InvReceiveAnswer ==
  ASSUME IInv, NEW p \in Peers, NEW n \in Numbers, ReceiveAnswer(p, n)
  PROVE  IInv'
  <1> DEFINE q == Other(p)
             k == frame[p]
  <1> USE FramesAssumption DEF IInv
  <1>1. /\ q \in Peers /\ q # p /\ Other(q) = p
        /\ phase[p] = "probing" /\ n = k /\ k \in Numbers /\ k \in Nat /\ k + 1 \in 0 .. FRAMES
    BY OtherIsPeer DEF ReceiveAnswer, Answers, SendsReached, TypeOK, Numbers
  <1>peer. frame[q] \in 0 .. FRAMES /\ frame[q] \in Nat
    BY <1>1 DEF TypeOK
  <1>nat. k \in Nat /\ k + 1 \in Nat
    BY <1>1
  <1>2. k <= frame[q]
    BY <1>1 DEF ReceiveAnswer, SendsReached
  <1>3. /\ frame' = [frame EXCEPT ![p] = k + 1]
        /\ transcript' = [transcript EXCEPT ![p] = Append(transcript[p], Entry(k))]
    BY <1>1, FoldedEntry DEF ReceiveAnswer
  <1>4. /\ frame'[p] = k + 1 /\ frame'[q] = frame[q] /\ frame' \in [Peers -> 0 .. FRAMES]
        /\ transcript'[q] = transcript[q]
        /\ transcript'[p] = Append(transcript[p], Entry(k))
    BY <1>1, <1>3 DEF TypeOK
  <1>5. Peers = {p, q}
    BY <1>1 DEF Peers
  <1>6. PICK rest \in {wire[q], wire[q] \ {n}},
             reply \in {{}, {k + 1}} :
          /\ wire' = [wire EXCEPT ![q] = rest, ![p] = @ \union reply]
          /\ \/ k + 1 = FRAMES /\ reply = {} /\ phase' = [phase EXCEPT ![p] = "lingering"]
             \/ k + 1 # FRAMES /\ reply = {k + 1} /\ phase' = phase
    BY DEF ReceiveAnswer, Exchange, LastFrame
  <1>7. /\ wire'[q] \subseteq wire[q] /\ wire'[p] = wire[p] \union reply
        /\ wire' \in [Peers -> SUBSET Numbers]
    <2>1. wire \in [Peers -> SUBSET Numbers]
      BY DEF TypeOK
    <2>2. reply \subseteq Numbers
      BY <1>1, <1>6 DEF Numbers
    <2>3. wire'[q] = rest /\ wire'[p] = wire[p] \union reply
      BY <1>1, <1>6, <2>1
    <2>4. rest \subseteq wire[q]
      BY <1>6
    <2> QED BY <1>1, <1>6, <2>1, <2>2, <2>3, <2>4
  <1>8. TypeOK'
    <2>1. transcript' \in [Peers -> Seq((0..3) \X (0..3))]
      BY <1>1, <1>3, EntryType DEF TypeOK
    <2>2. phase' \in [Peers -> {"starting", "probing", "lingering", "done", "failed"}]
      BY <1>6 DEF TypeOK
    <2> QED BY <1>4, <1>7, <2>1, <2>2 DEF TypeOK, ReceiveAnswer
  <1>9. LockStep'
    <2>1. frame'[p] <= frame'[q] + 1
      BY <1>2, <1>4, <1>peer, <1>nat
    <2>2. frame'[q] <= frame'[p] + 1
      BY <1>1, <1>4 DEF LockStep, TypeOK
    <2> QED BY <2>1, <2>2, <1>1, <1>5 DEF LockStep
  <1>10. SendsReached'
    <2>1. \A m \in wire'[q] : m <= frame'[q]
      BY <1>1, <1>4, <1>7 DEF SendsReached
    <2>2. \A m \in wire'[p] : m <= frame'[p]
      <3>1. \A m \in wire[p] : m \in Nat /\ m <= k
        BY <1>1 DEF SendsReached, TypeOK, Numbers
      <3> QED BY <3>1, <1>1, <1>4, <1>6, <1>7
    <2>3. /\ phase'[p] = "probing" => frame'[p] < FRAMES
          /\ phase'[p] \in {"lingering", "done"} => frame'[p] = FRAMES
          /\ phase'[p] # "starting"
      BY <1>1, <1>4, <1>6 DEF TypeOK
    <2>4. phase'[q] = phase[q]
      BY <1>1, <1>6 DEF TypeOK
    <2>5. phase'[q] = "probing" => frame'[q] < FRAMES
      BY <1>1, <1>4, <2>4 DEF SendsReached
    <2>6. /\ phase'[q] = "starting" => frame'[q] = 0
          /\ phase'[q] \in {"lingering", "done"} => frame'[q] = FRAMES
      BY <1>1, <1>4, <2>4 DEF SendsReached
    <2> QED BY <1>5, <2>1, <2>2, <2>3, <2>5, <2>6 DEF SendsReached
  <1>11. FoldsEntries'
    <2>1. Len(transcript[p]) = k /\ transcript[p] \in Seq((0..3) \X (0..3))
      BY <1>1 DEF FoldsEntries, TypeOK
    <2>2. Len(transcript'[p]) = frame'[p]
      BY <1>4, <2>1, EntryType, <1>1
    <2>3. ASSUME NEW i \in 1 .. frame'[p] PROVE transcript'[p][i] = Entry(i - 1)
      <3>0. i = k + 1 \/ i \in 1 .. k
        BY <1>nat, <1>4
      <3>1. CASE i = k + 1
        <4>1. transcript'[p][i] = Entry(k) /\ i - 1 = k
          BY <3>1, <1>nat, <1>4, <2>1
        <4> QED BY <4>1
      <3>2. CASE i \in 1 .. k
        <4>1. transcript'[p][i] = transcript[p][i]
          BY <3>2, <1>nat, <1>4, <2>1
        <4> QED BY <3>2, <4>1 DEF FoldsEntries
      <3> QED BY <3>0, <3>1, <3>2
    <2>4. /\ Len(transcript'[q]) = frame'[q]
          /\ \A i \in 1 .. frame'[q] : transcript'[q][i] = Entry(i - 1)
      BY <1>1, <1>4 DEF FoldsEntries
    <2> QED BY <1>5, <2>2, <2>3, <2>4 DEF FoldsEntries
  <1> QED BY <1>8, <1>9, <1>10, <1>11

\* A packet taken from the wire and a reply with a frame the sender has reached.
LEMMA InvExchange ==
  ASSUME IInv, NEW p \in Peers, NEW n \in Numbers, NEW m \in Numbers, m <= frame[p],
         Exchange(p, n, {m}), UNCHANGED <<route, phase, tries, punched, frame, transcript>>
  PROVE  IInv'
  <1> USE FramesAssumption
  <1>1. PICK rest \in {wire[Other(p)], wire[Other(p)] \ {n}} :
          wire' = [wire EXCEPT ![Other(p)] = rest, ![p] = @ \union {m}]
    BY DEF Exchange
  <1>2. TypeOK'
    BY <1>1, OtherIsPeer DEF IInv, TypeOK
  <1>3. \A q \in Peers : wire'[q] \subseteq wire[q] \union (IF q = p THEN {m} ELSE {})
    BY <1>1, OtherIsPeer DEF IInv, TypeOK
  <1>4. \A q \in Peers : \A x \in wire'[q] : x <= frame[q]
    BY <1>3 DEF IInv, SendsReached
  <1>5. Quiet
    BY <1>4 DEF Quiet
  <1> QED BY <1>2, <1>5, InvQuiet

LEMMA InvStep == IInv /\ [Next]_vars => IInv'
  <1> SUFFICES ASSUME IInv, [Next]_vars PROVE IInv'
    OBVIOUS
  <1> USE FramesAssumption
  <1>0. /\ 0 \in Numbers /\ FRAMES - 1 \in Numbers
        /\ \A q \in Peers : frame[q] \in 0 .. FRAMES /\ \A n \in wire[q] : n <= frame[q]
    BY DEF IInv, TypeOK, SendsReached, Numbers
  <1>1. ASSUME NEW p \in Peers, NEW n \in Numbers, Receive(p, n) PROVE IInv'
    <2>1. CASE ReceiveAnswer(p, n)
      BY <2>1, InvReceiveAnswer
    <2>2. CASE ReceiveOther(p, n)
      <3>1. Reply(p, n) \in Numbers /\ Reply(p, n) <= frame[p]
        BY <2>2, <1>0 DEF ReceiveOther, Reply, IInv, SendsReached, Numbers
      <3> QED BY <2>2, <3>1, InvExchange DEF ReceiveOther
    <2>3. CASE ReceiveLingering(p, n)
      <3> DEFINE m == IF n < FRAMES THEN n ELSE FRAMES - 1
      <3>1. n \in wire[Other(p)] /\ n <= frame[Other(p)] /\ m = n /\ m \in Numbers
        BY <2>3, <1>0, OtherIsPeer DEF ReceiveLingering, Numbers
      <3>2. IInv'
        <4>1. \E rest \in {wire[Other(p)], wire[Other(p)] \ {n}} :
                wire' = [wire EXCEPT ![Other(p)] = rest, ![p] = @ \union {m}]
          BY <2>3 DEF ReceiveLingering, Exchange
        <4>2. m <= frame[p]
          BY <2>3, <3>1, <1>0
             DEF ReceiveLingering, IInv, LockStep, TypeOK, SendsReached, Numbers
        <4>3. Exchange(p, n, {m})
          BY <4>1 DEF Exchange
        <4> HIDE DEF m
        <4> QED BY <2>3, <3>1, <4>2, <4>3, InvExchange DEF ReceiveLingering
      <3> QED BY <3>2
    <2> QED BY <1>1, <2>1, <2>2, <2>3 DEF Receive
  <1>2. ASSUME NEW p \in Peers, ConnectRelay(p) \/ ReceivePunch(p) PROVE IInv'
    <2>1. phase[p] = "starting" /\ StartProbe(p)
      BY <1>2 DEF ConnectRelay, ReceivePunch
    <2>2. TypeOK'
      BY <1>0, <1>2, <2>1, OtherIsPeer DEF StartProbe, ConnectRelay, ReceivePunch, IInv, TypeOK
    <2>3. \A q \in Peers : \A n \in wire'[q] : n <= frame[q]
      BY <1>0, <2>1 DEF StartProbe, IInv, TypeOK
    <2>4. Quiet
      BY <2>1, <2>3 DEF Quiet, StartProbe, IInv, TypeOK
    <2> QED BY <2>4, InvQuiet, <2>2
  <1>3. ASSUME NEW p \in Peers, Punch(p) PROVE IInv'
    <2>1. TypeOK'
      BY <1>3 DEF Punch, IInv, TypeOK
    <2>3. Quiet
      BY <1>0, <1>3 DEF Quiet, Punch
    <2> QED BY <2>3, InvQuiet, <2>1
  <1>4. ASSUME NEW p \in Peers, PunchTimesOut(p) \/ LingerEnds(p) \/ Fail(p) PROVE IInv'
    <2>1. TypeOK'
      BY <1>4 DEF PunchTimesOut, LingerEnds, Fail, IInv, TypeOK
    <2>t. phase \in [Peers -> {"starting", "probing", "lingering", "done", "failed"}]
      BY DEF IInv, TypeOK
    <2>2. \A q \in Peers :
            \/ phase'[q] \in {phase[q], "failed"}
            \/ phase[q] = "lingering" /\ phase'[q] = "done"
      <3>1. CASE PunchTimesOut(p)
        BY <2>t, <3>1 DEF PunchTimesOut
      <3>2. CASE LingerEnds(p)
        BY <2>t, <3>2 DEF LingerEnds
      <3>3. CASE Fail(p)
        BY <2>t, <3>3 DEF Fail
      <3> QED BY <1>4, <3>1, <3>2, <3>3
    <2>3. Quiet
      BY <1>0, <1>4, <2>2 DEF Quiet, PunchTimesOut, LingerEnds, Fail
    <2> QED BY <2>3, InvQuiet, <2>1
  <1>5. ASSUME NEW p \in Peers, Retransmit(p) PROVE IInv'
    <2>1. IF phase[p] = "probing" THEN frame[p] \in Numbers ELSE frame[p] = FRAMES
      BY <1>5 DEF Retransmit, IInv, SendsReached, TypeOK, Numbers
    <2>2. TypeOK'
      BY <1>0, <1>5, <2>1 DEF Retransmit, IInv, TypeOK
    <2>3. \A q \in Peers : \A n \in wire'[q] : n <= frame[q]
      BY <1>0, <1>5, <2>1 DEF Retransmit, IInv, TypeOK
    <2>4. Quiet
      BY <1>5, <2>3 DEF Quiet, Retransmit
    <2> QED BY <2>4, InvQuiet, <2>2
  <1>6. ASSUME NEW p \in Peers, Lose(p) PROVE IInv'
    <2>1. TypeOK'
      BY <1>6 DEF Lose, IInv, TypeOK
    <2>2. \A q \in Peers : wire'[q] \subseteq wire[q]
      BY <1>6 DEF Lose, IInv, TypeOK
    <2>3. Quiet
      BY <1>0, <1>6, <2>2 DEF Quiet, Lose
    <2> QED BY <2>3, InvQuiet, <2>1
  <1>7. CASE UNCHANGED vars
    <2>1. TypeOK'
      BY <1>7 DEF vars, IInv, TypeOK
    <2>3. Quiet
      BY <1>0, <1>7 DEF Quiet, vars
    <2> QED BY <2>3, InvQuiet, <2>1
  <1> QED BY <1>1, <1>2, <1>3, <1>4, <1>5, <1>6, <1>7 DEF Next, Work

LEMMA InvHolds == Spec => []IInv
  BY InvInit, InvStep, PTL DEF Spec

\* Whatever the network does, the peers stay within one frame of each other.
THEOREM ProbesAreInLockStep == Spec => []LockStep
  <1>1. IInv => LockStep
    BY DEF IInv
  <1> QED BY <1>1, InvHolds, PTL

\* The transcripts of the two peers agree wherever both have an entry.
THEOREM TranscriptsAreEqual == Spec => []TranscriptsAgree
  <1>1. IInv => TranscriptsAgree
    <2> SUFFICES ASSUME IInv, NEW p \in Peers, NEW i \in 1 .. frame[p], i <= frame[Other(p)]
                 PROVE  transcript[p][i] = transcript[Other(p)][i]
      BY DEF TranscriptsAgree
    <2>1. i \in 1 .. frame[Other(p)]
      BY OtherIsPeer DEF IInv, TypeOK
    <2> QED BY <2>1, OtherIsPeer DEF IInv, FoldsEntries
  <1> QED BY <1>1, InvHolds, PTL

-----------------------------------------------------------------------------
(* MatchProbe implements ProbeAgreement. *)

\* What a caller sees of the runs.
RunEnds  == [p \in Peers |-> IF phase[p] \in {"done", "failed"} THEN phase[p] ELSE "running"]
Reported == [p \in Peers |-> IF phase[p] = "done" THEN transcript[p] ELSE << >>]

Complete == [i \in 1 .. FRAMES |-> Entry(i - 1)]

LEMMA CompleteTranscript ==
  ASSUME IInv, NEW p \in Peers, phase[p] \in {"lingering", "done"}
  PROVE  transcript[p] = Complete
  <1> USE FramesAssumption
  <1>1. /\ transcript[p] \in Seq((0..3) \X (0..3))
        /\ Len(transcript[p]) = FRAMES
        /\ \A i \in 1 .. FRAMES : transcript[p][i] = Entry(i - 1)
    BY DEF IInv, TypeOK, FoldsEntries, SendsReached
  <1>2. transcript[p] = [i \in 1 .. FRAMES |-> transcript[p][i]]
    BY <1>1
  <1> QED BY <1>1, <1>2 DEF Complete

LEMMA CompleteIsAChecksum == Complete \in [1 .. FRAMES -> (0..3) \X (0..3)]
  <1>1. \A i \in 1 .. FRAMES : i - 1 \in Nat
    BY FramesAssumption
  <1> QED BY <1>1, EntryType DEF Complete

\* A step that ends nobody's run changes nothing a caller sees.
LEMMA RunsGoOn ==
  ASSUME IInv, TypeOK',
         \A q \in Peers : \/ phase'[q] = phase[q]
                          \/ /\ phase[q] \in {"starting", "probing"}
                             /\ phase'[q] \in {"probing", "lingering"},
         \A q \in Peers : phase[q] = "done" => transcript'[q] = transcript[q]
  PROVE  RunEnds' = RunEnds /\ Reported' = Reported
  BY DEF RunEnds, Reported

LEMMA PromiseStep ==
  ASSUME IInv, [Next]_vars
  PROVE  [Promise!ProbeNext]_(Promise!probeVars)
  <1> USE FramesAssumption
  <1>t. TypeOK'
    BY InvStep DEF IInv
  <1>f. /\ phase \in [Peers -> {"starting", "probing", "lingering", "done", "failed"}]
        /\ transcript \in [Peers -> Seq((0..3) \X (0..3))]
    BY DEF IInv, TypeOK
  <1>1. ASSUME NEW p \in Peers, LingerEnds(p)
        PROVE  /\ Promise!Complete(p, Reported'[p])
               /\ Reported'[p] \in [1 .. FRAMES -> (0..3) \X (0..3)]
    <2>1. Reported'[p] = Complete
      BY <1>1, <1>f, CompleteTranscript DEF LingerEnds, Reported
    <2>2. \A q \in Peers : phase[q] = "done" => Reported[q] = Complete
      BY CompleteTranscript DEF Reported
    <2>3. RunEnds' = [RunEnds EXCEPT ![p] = "done"] /\ RunEnds[p] = "running"
      BY <1>1, <1>f DEF LingerEnds, RunEnds
    <2>4. Reported' = [Reported EXCEPT ![p] = Reported'[p]]
      BY <1>1, <1>f DEF LingerEnds, Reported
    <2>5. \A q \in Peers : RunEnds[q] = "done" => Reported[q] = Reported'[p]
      BY <2>1, <2>2 DEF RunEnds
    <2> QED BY <2>1, <2>3, <2>4, <2>5, CompleteIsAChecksum
            DEF Promise!Complete, RunEnds, Reported
  <1>2. ASSUME NEW p \in Peers, PunchTimesOut(p) \/ Fail(p) PROVE Promise!GiveUp(p)
    <2>1. RunEnds' = [RunEnds EXCEPT ![p] = "failed"] /\ RunEnds[p] = "running"
      BY <1>2, <1>f DEF PunchTimesOut, Fail, RunEnds
    <2>2. Reported' = Reported
      BY <1>2, <1>f DEF PunchTimesOut, Fail, Reported
    <2> QED BY <2>1, <2>2 DEF Promise!GiveUp, RunEnds, Reported
  <1>3. ASSUME NEW p \in Peers,
               ConnectRelay(p) \/ ReceivePunch(p) \/ Punch(p) \/ Retransmit(p) \/ Lose(p)
        PROVE  RunEnds' = RunEnds /\ Reported' = Reported
    BY <1>3, <1>f, <1>t, RunsGoOn
       DEF ConnectRelay, ReceivePunch, StartProbe, Punch, Retransmit, Lose
  <1>4. ASSUME NEW p \in Peers, NEW n \in Numbers, Receive(p, n)
        PROVE  RunEnds' = RunEnds /\ Reported' = Reported
    <2>1. CASE ReceiveAnswer(p, n)
      BY <2>1, <1>f, <1>t, RunsGoOn DEF ReceiveAnswer
    <2>2. CASE ReceiveOther(p, n) \/ ReceiveLingering(p, n)
      BY <2>2, <1>f, <1>t, RunsGoOn DEF ReceiveOther, ReceiveLingering
    <2> QED BY <1>4, <2>1, <2>2 DEF Receive
  <1>5. CASE UNCHANGED vars
    BY <1>5 DEF vars, Promise!probeVars
  <1>6. RunEnds' = RunEnds /\ Reported' = Reported => UNCHANGED Promise!probeVars
    BY DEF Promise!probeVars, RunEnds, Reported
  <1>7. ASSUME NEW p \in Peers, LingerEnds(p) PROVE Promise!ProbeNext
    BY <1>1, <1>7 DEF Promise!ProbeNext, Reported
  <1>8. ASSUME NEW p \in Peers, PunchTimesOut(p) \/ Fail(p) PROVE Promise!ProbeNext
    BY <1>2, <1>8 DEF Promise!ProbeNext
  <1> QED BY <1>3, <1>4, <1>5, <1>6, <1>7, <1>8 DEF Next, Work

\* Whatever the network does, a run of the probe ends once, and the reports of one
\* probe carry one complete checksum: the summaries of evidence may rely on it.
THEOREM ProbeKeepsItsPromise == Spec => KeepsPromise
  <1>1. Init => Promise!ProbeInit
    BY DEF Init, Promise!ProbeInit, Promise!ProbeStart
  <1>2. IInv /\ [Next]_vars => [Promise!ProbeNext]_(Promise!probeVars)
    BY PromiseStep
  <1> QED BY <1>1, <1>2, InvHolds, PTL DEF Spec, KeepsPromise, Promise!ProbeSpec

-----------------------------------------------------------------------------
(* The invariant of the evidence *)

Entries  == (0..3) \X (0..3)
Launches == {NONE} \union [native : Routes, ok : BOOLEAN]
Matches  == {NONE} \union [role : Peers, frames : 0 .. FRAMES, checksum : Seq(Entries),
                           transport : {"direct_udp", "relay"}, native : Routes]
Failures == {NONE} \union [stage : {"native_launch", "probe", "accepted"},
                           native : Routes \union {"none"}]

EvidenceTypeOK ==
  /\ room \in {"CONNECTING", "FINISHED", "CANCELLED"}
  /\ launch \in [Peers -> Launches]
  /\ upload \in [Peers -> [status : {"idle", "pending", "success", "error"}, failures : Nat]]
  /\ failure \in [Peers -> Failures]
  /\ evidence \in [Peers -> [Kinds -> Matches \union Failures]]

\* A member has launched only after both completed a direct probe, which is not run
\* again while a launch is on record.
LaunchIsProbed ==
  \A p \in Peers : launch[p] # NONE =>
    route = "direct" /\ \A q \in Peers : phase[q] = "done"

\* What a match report says stays true: it is built of a finished probe and launch.
ReportsAreBuilt ==
  \A p \in Peers :
    /\ upload[p].status \in {"pending", "success"} => Reportable(p)
    /\ evidence[p]["match"] # NONE => Reportable(p) /\ evidence[p]["match"] = MatchReport(p)

\* A failure report with a native route is of a launch that failed.
Truthful(p, report) ==
  report # NONE /\ report.native # "none" => launch[p] # NONE /\ ~launch[p].ok

FailuresAreTrue ==
  \A p \in Peers : Truthful(p, failure[p]) /\ Truthful(p, evidence[p]["attempt_failure"])

\* RecordedPairVerifies needs the transcripts' invariant of the probe, at the moment
\* of each upload; the two uploads see the same probe because of LaunchIsProbed.
EvidenceInv ==
  /\ IInv /\ EvidenceTypeOK
  /\ LaunchIsProbed /\ ReportsAreBuilt /\ FailuresAreTrue

LEMMA EvidenceInvInit == EvidenceInit => EvidenceInv
  <1> SUFFICES ASSUME EvidenceInit PROVE EvidenceInv
    OBVIOUS
  <1>1. IInv
    BY InvInit DEF EvidenceInit
  <1>2. EvidenceTypeOK
    BY DEF EvidenceInit, EvidenceTypeOK, Launches, Matches, Failures
  <1>3. LaunchIsProbed /\ ReportsAreBuilt /\ FailuresAreTrue
    BY DEF EvidenceInit, LaunchIsProbed, ReportsAreBuilt, FailuresAreTrue, Truthful, Kinds
  <1> QED BY <1>1, <1>2, <1>3 DEF EvidenceInv

-----------------------------------------------------------------------------
(* What a step leaves *)

\* Once both runs are done, the network can only lose what is still in flight.
LEMMA DoneIsQuiet ==
  ASSUME Next, \A q \in Peers : phase[q] = "done"
  PROVE  UNCHANGED <<route, phase, frame, transcript>>
  BY DEF Next, Work, ConnectRelay, Punch, ReceivePunch, PunchTimesOut, Receive,
         ReceiveAnswer, ReceiveOther, ReceiveLingering, Retransmit, LingerEnds, Fail, Lose

\* Nothing takes back a launch, the probe it rests on, or the end of the match.
Settled ==
  /\ \A p \in Peers : launch[p] # NONE =>
       launch'[p] = launch[p] /\ UNCHANGED <<route, phase, frame, transcript>>
  /\ room = "FINISHED" => room' = "FINISHED"

LEMMA SettledKeepsReports ==
  ASSUME Settled, NEW p \in Peers, Reportable(p)
  PROVE  Reportable(p)' /\ MatchReport(p)' = MatchReport(p)
  BY DEF Settled, Reportable, MatchReport, Transport

LEMMA SettledKeepsFailures ==
  ASSUME Settled, NEW p \in Peers, NEW report, Truthful(p, report)
  PROVE  report # NONE /\ report.native # "none" => launch'[p] # NONE /\ ~launch'[p].ok
  BY DEF Settled, Truthful

\* A step that records nothing keeps the invariant, if it settles.
LEMMA SettledKeepsInv ==
  ASSUME EvidenceInv, Settled, IInv', EvidenceTypeOK', LaunchIsProbed', evidence' = evidence,
         \A p \in Peers : upload'[p].status \in {"pending", "success"} =>
                            upload[p].status \in {"pending", "success"} \/ Reportable(p),
         \A p \in Peers : failure'[p] = failure[p] \/ Truthful(p, failure'[p])
  PROVE  EvidenceInv'
  <1>1. ReportsAreBuilt'
    <2> SUFFICES ASSUME NEW p \in Peers
                 PROVE  /\ upload'[p].status \in {"pending", "success"} => Reportable(p)'
                        /\ evidence[p]["match"] # NONE =>
                             Reportable(p)' /\ evidence[p]["match"] = MatchReport(p)'
      BY DEF ReportsAreBuilt
    <2> QED BY SettledKeepsReports DEF EvidenceInv, ReportsAreBuilt
  <1>2. FailuresAreTrue'
    <2> SUFFICES ASSUME NEW p \in Peers
                 PROVE  Truthful(p, failure[p])' /\ Truthful(p, evidence[p]["attempt_failure"])'
      BY DEF FailuresAreTrue
    <2>1. Truthful(p, failure'[p]) /\ Truthful(p, evidence[p]["attempt_failure"])
      BY DEF EvidenceInv, FailuresAreTrue
    <2> QED BY <2>1, SettledKeepsFailures DEF Truthful
  <1> QED BY <1>1, <1>2 DEF EvidenceInv

-----------------------------------------------------------------------------
(* The probe and the match *)

\* Sockets that close take what is in flight with them.
LEMMA CloseKeepsProbe == ASSUME IInv, CloseSockets PROVE IInv'
  <1>1. TypeOK'
    BY FramesAssumption DEF IInv, TypeOK, CloseSockets
  <1>2. Quiet
    BY DEF CloseSockets, Quiet
  <1> QED BY <1>1, <1>2, InvQuiet

\* A fresh run starts as the first one did.
LEMMA RepeatKeepsProbe == ASSUME IInv, RepeatProbe PROVE IInv'
  <1> USE FramesAssumption
  <1>1. TypeOK'
    BY DEF IInv, TypeOK, RepeatProbe, FreshRun
  <1>2. LockStep'
    BY OtherIsPeer DEF LockStep, RepeatProbe, FreshRun
  <1>3. SendsReached'
    BY DEF SendsReached, RepeatProbe, FreshRun, Closed
  <1>4. FoldsEntries'
    BY DEF FoldsEntries, RepeatProbe, FreshRun
  <1> QED BY <1>1, <1>2, <1>3, <1>4 DEF IInv

LEMMA ProbeKeepsInv ==
  ASSUME EvidenceInv, ProbeStep \/ CloseSockets \/ RepeatProbe
  PROVE  EvidenceInv'
  <1>1. IInv'
    BY InvStep, CloseKeepsProbe, RepeatKeepsProbe DEF EvidenceInv, ProbeStep
  <1>2. /\ UNCHANGED <<room, launch, evidence, upload, failure>>
        /\ \A p \in Peers : launch[p] # NONE => UNCHANGED <<route, phase, frame, transcript>>
    <2>1. CASE ProbeStep
      BY <2>1, DoneIsQuiet DEF ProbeStep, evidenceVars, EvidenceInv, LaunchIsProbed
    <2>2. CASE CloseSockets
      BY <2>2 DEF CloseSockets, evidenceVars
    <2>3. CASE RepeatProbe
      BY <2>3 DEF RepeatProbe
    <2> QED BY <2>1, <2>2, <2>3
  <1>3. Settled /\ EvidenceTypeOK' /\ LaunchIsProbed'
    BY <1>2 DEF Settled, EvidenceInv, EvidenceTypeOK, LaunchIsProbed
  <1> QED BY <1>1, <1>2, <1>3, SettledKeepsInv

LEMMA LaunchKeepsInv == ASSUME EvidenceInv, NEW p \in Peers, Launch(p) PROVE EvidenceInv'
  <1>1. IInv'
    BY InvStep DEF EvidenceInv, Launch
  <1>2. PICK l \in [native : Routes, ok : BOOLEAN] : launch' = [launch EXCEPT ![p] = l]
    BY DEF Launch, NativeRoute, Routes
  <1>3. /\ launch[p] = NONE /\ route' = "direct" /\ \A q \in Peers : phase'[q] = "done"
        /\ UNCHANGED <<route, phase, frame, transcript, room, evidence, upload, failure>>
    BY DEF Launch, vars
  <1>4. EvidenceTypeOK'
    BY <1>2, <1>3 DEF EvidenceInv, EvidenceTypeOK, Launches
  <1>5. Settled /\ LaunchIsProbed'
    BY <1>2, <1>3 DEF Settled, LaunchIsProbed, EvidenceInv, EvidenceTypeOK
  <1> QED BY <1>1, <1>3, <1>4, <1>5, SettledKeepsInv

LEMMA OthersKeepInv ==
  ASSUME EvidenceInv,
         \/ RoomEnds
         \/ \E p \in Peers : Leave(p) \/ StartUpload(p) \/ ResetUpload(p) \/ SendFailure(p)
         \/ \E p \in Peers : ClickReceipt(p)
         \/ UNCHANGED allVars
  PROVE  EvidenceInv'
  <1>1. UNCHANGED <<vars, launch, evidence>>
    BY DEF RoomEnds, Leave, StartUpload, ResetUpload, SendFailure, ClickReceipt, allVars,
           evidenceVars
  <1>2. room' = room \/ (room = "CONNECTING" /\ room' \in {"FINISHED", "CANCELLED"})
    BY DEF RoomEnds, Leave, StartUpload, ResetUpload, SendFailure, ClickReceipt, allVars,
           evidenceVars
  <1>3. IInv'
    BY <1>1, InvStep DEF EvidenceInv
  <1>4. Settled /\ LaunchIsProbed'
    BY <1>1, <1>2 DEF Settled, EvidenceInv, LaunchIsProbed, vars
  <1>5. /\ upload' \in [Peers -> [status : {"idle", "pending", "success", "error"}, failures : Nat]]
        /\ \A p \in Peers : upload'[p].status \in {"pending", "success"} =>
                            upload[p].status \in {"pending", "success"} \/ Reportable(p)
    <2>1. ASSUME NEW p \in Peers, StartUpload(p) PROVE <1>5
      BY <2>1 DEF StartUpload, EvidenceInv, EvidenceTypeOK
    <2>2. ASSUME NEW p \in Peers, ResetUpload(p) PROVE <1>5
      BY <2>2 DEF ResetUpload, EvidenceInv, EvidenceTypeOK
    <2>3. CASE upload' = upload
      BY <2>3 DEF EvidenceInv, EvidenceTypeOK
    <2> QED BY <2>1, <2>2, <2>3
            DEF RoomEnds, Leave, SendFailure, ClickReceipt, allVars, evidenceVars
  <1>6. /\ failure' \in [Peers -> Failures]
        /\ \A p \in Peers : failure'[p] = failure[p] \/ Truthful(p, failure'[p])
    <2>1. ASSUME NEW p \in Peers, SendFailure(p) PROVE <1>6
      <3>1. failure' = [failure EXCEPT ![p] = FailureReport(p)]
        BY <2>1 DEF SendFailure
      <3>2. FailureReport(p) \in Failures /\ Truthful(p, FailureReport(p))
        BY <2>1 DEF SendFailure, Failing, FailureReport, Failures, Truthful, EvidenceInv,
                    EvidenceTypeOK, Launches
      <3> QED BY <3>1, <3>2 DEF EvidenceInv, EvidenceTypeOK
    <2>2. CASE failure' = failure
      BY <2>2 DEF EvidenceInv, EvidenceTypeOK
    <2> QED BY <2>1, <2>2
            DEF RoomEnds, Leave, StartUpload, ResetUpload, ClickReceipt, allVars, evidenceVars
  <1>7. EvidenceTypeOK'
    BY <1>1, <1>2, <1>5, <1>6 DEF EvidenceInv, EvidenceTypeOK
  <1> QED BY <1>1, <1>3, <1>4, <1>5, <1>6, <1>7, SettledKeepsInv

-----------------------------------------------------------------------------
(* The uploads *)

LEMMA MatchReportType ==
  ASSUME EvidenceInv, NEW p \in Peers, Reportable(p)
  PROVE  MatchReport(p) \in Matches
  BY DEF EvidenceInv, IInv, TypeOK, EvidenceTypeOK, Launches, Matches, Entries, Reportable,
         MatchReport, Transport

LEMMA UploadKeepsInv == ASSUME EvidenceInv, NEW p \in Peers, TryUpload(p) PROVE EvidenceInv'
  <1>0. /\ UNCHANGED <<vars, room, launch, failure>> /\ Reportable(p)
        /\ upload[p].status = "pending"
    BY DEF TryUpload, EvidenceInv, ReportsAreBuilt
  <1>1. IInv' /\ Settled /\ LaunchIsProbed'
    BY <1>0, InvStep DEF EvidenceInv, Settled, LaunchIsProbed, vars
  <1>2. \/ evidence' = evidence
        \/ evidence' = [evidence EXCEPT ![p]["match"] = MatchReport(p)]
    BY DEF TryUpload, SubmitEvidence
  <1>3. /\ evidence' \in [Peers -> [Kinds -> Matches \union Failures]]
        /\ \A q \in Peers :
             /\ evidence'[q]["attempt_failure"] = evidence[q]["attempt_failure"]
             /\ \/ evidence'[q]["match"] = evidence[q]["match"]
                \/ q = p /\ evidence'[q]["match"] = MatchReport(p)
    <2>1. MatchReport(p) \in Matches \union Failures
      BY <1>0, MatchReportType
    <2>2. evidence \in [Peers -> [Kinds -> Matches \union Failures]]
      BY DEF EvidenceInv, EvidenceTypeOK
    <2> QED BY <1>2, <2>1, <2>2 DEF Kinds
  <1>4. /\ upload' \in [Peers -> [status : {"idle", "pending", "success", "error"}, failures : Nat]]
        /\ \A q \in Peers \ {p} : upload'[q] = upload[q]
    <2> DEFINE Uploads == [status : {"idle", "pending", "success", "error"}, failures : Nat]
    <2>t. upload \in [Peers -> Uploads]
      BY DEF EvidenceInv, EvidenceTypeOK
    <2>1. /\ [upload[p] EXCEPT !.status = "success"] \in Uploads
          /\ [upload[p] EXCEPT !.status = "error"] \in Uploads
          /\ [status |-> "pending", failures |-> upload[p].failures + 1] \in Uploads
      BY <2>t
    <2>2. \E u \in {[upload[p] EXCEPT !.status = "success"], [upload[p] EXCEPT !.status = "error"],
                    [status |-> "pending", failures |-> upload[p].failures + 1]} :
            upload' = [upload EXCEPT ![p] = u]
      BY DEF TryUpload
    <2>3. PICK u \in Uploads : upload' = [upload EXCEPT ![p] = u]
      BY <2>1, <2>2
    <2> HIDE DEF Uploads
    <2>4. upload' \in [Peers -> Uploads] /\ \A q \in Peers \ {p} : upload'[q] = upload[q]
      BY <2>t, <2>3
    <2> QED BY <2>4 DEF Uploads
  <1>5. EvidenceTypeOK'
    BY <1>0, <1>3, <1>4 DEF EvidenceInv, EvidenceTypeOK
  <1>6. ReportsAreBuilt'
    <2>1. \A q \in Peers : Reportable(q) => Reportable(q)' /\ MatchReport(q)' = MatchReport(q)
      BY <1>1, SettledKeepsReports
    <2> SUFFICES ASSUME NEW q \in Peers
                 PROVE  /\ upload'[q].status \in {"pending", "success"} => Reportable(q)'
                        /\ evidence'[q]["match"] # NONE =>
                             Reportable(q)' /\ evidence'[q]["match"] = MatchReport(q)'
      BY DEF ReportsAreBuilt
    <2> QED BY <1>0, <1>3, <1>4, <2>1 DEF EvidenceInv, ReportsAreBuilt
  <1>7. FailuresAreTrue'
    BY <1>0, <1>3 DEF EvidenceInv, FailuresAreTrue, Truthful
  <1> QED BY <1>1, <1>5, <1>6, <1>7 DEF EvidenceInv

LEMMA FailureKeepsInv == ASSUME EvidenceInv, NEW p \in Peers, TakeFailure(p) PROVE EvidenceInv'
  <1>0. UNCHANGED <<vars, room, launch, upload>>
    BY DEF TakeFailure
  <1>1. IInv' /\ Settled /\ LaunchIsProbed'
    BY <1>0, InvStep DEF EvidenceInv, Settled, LaunchIsProbed, vars
  <1>2. /\ evidence' \in [Peers -> [Kinds -> Matches \union Failures]]
        /\ \A q \in Peers :
             /\ evidence'[q]["match"] = evidence[q]["match"]
             /\ \/ evidence'[q]["attempt_failure"] = evidence[q]["attempt_failure"]
                \/ q = p /\ evidence'[q]["attempt_failure"] = failure[p]
    <2>1. \/ evidence' = evidence
          \/ evidence' = [evidence EXCEPT ![p]["attempt_failure"] = failure[p]]
      BY DEF TakeFailure, SubmitEvidence
    <2>2. /\ evidence \in [Peers -> [Kinds -> Matches \union Failures]]
          /\ failure[p] \in Matches \union Failures
      BY DEF EvidenceInv, EvidenceTypeOK
    <2> QED BY <2>1, <2>2 DEF Kinds
  <1>3. /\ failure' \in [Peers -> Failures]
        /\ \A q \in Peers : failure'[q] \in {failure[q], NONE, Accepted}
    <2>1. Accepted \in Failures /\ NONE \in Failures
      BY DEF Accepted, Failures
    <2>2. \E f \in {NONE, Accepted} : failure' = [failure EXCEPT ![p] = f]
      BY DEF TakeFailure
    <2> QED BY <2>1, <2>2 DEF EvidenceInv, EvidenceTypeOK
  <1>4. EvidenceTypeOK'
    BY <1>0, <1>2, <1>3 DEF EvidenceInv, EvidenceTypeOK
  <1>5. ReportsAreBuilt'
    <2> SUFFICES ASSUME NEW q \in Peers
                 PROVE  /\ upload[q].status \in {"pending", "success"} => Reportable(q)'
                        /\ evidence'[q]["match"] # NONE =>
                             Reportable(q)' /\ evidence'[q]["match"] = MatchReport(q)'
      BY <1>0 DEF ReportsAreBuilt
    <2> QED BY <1>1, <1>2, SettledKeepsReports DEF EvidenceInv, ReportsAreBuilt
  <1>6. FailuresAreTrue'
    BY <1>0, <1>2, <1>3 DEF EvidenceInv, FailuresAreTrue, Truthful, Accepted
  <1> QED BY <1>1, <1>4, <1>5, <1>6 DEF EvidenceInv

LEMMA EvidenceInvStep == EvidenceInv /\ [EvidenceNext]_allVars => EvidenceInv'
  BY ProbeKeepsInv, LaunchKeepsInv, OthersKeepInv, UploadKeepsInv, FailureKeepsInv
     DEF EvidenceNext

LEMMA EvidenceInvHolds == EvidenceSpec => []EvidenceInv
  BY EvidenceInvInit, EvidenceInvStep, PTL DEF EvidenceSpec

-----------------------------------------------------------------------------
(* Pairs that verify *)

\* A report on record is of a complete transcript, and of a launch that succeeded.
LEMMA RecordedReport ==
  ASSUME EvidenceInv, NEW p \in Peers, evidence[p]["match"] # NONE
  PROVE  /\ evidence[p]["match"] =
              [role |-> p, frames |-> FRAMES, checksum |-> Complete,
               transport |-> Transport, native |-> launch[p].native]
         /\ launch[p] # NONE /\ launch[p].ok
         /\ Len(Complete) = FRAMES
  <1>1. /\ Reportable(p) /\ evidence[p]["match"] = MatchReport(p)
        /\ phase[p] = "done"
    BY DEF EvidenceInv, ReportsAreBuilt, Reportable
  <1>2. transcript[p] = Complete /\ frame[p] = FRAMES /\ Len(transcript[p]) = frame[p]
    BY <1>1, CompleteTranscript DEF EvidenceInv, IInv, SendsReached, FoldsEntries
  <1> QED BY <1>1, <1>2 DEF Reportable, MatchReport

LEMMA InvVerifiesPairs == EvidenceInv => RecordedPairVerifies
  <1> SUFFICES ASSUME EvidenceInv,
                      NEW a \in OfKind(evidence, "match"), NEW b \in OfKind(evidence, "match"),
                      a # b
               PROVE  VerifyPair(a, b)
    BY DEF RecordedPairVerifies
  <1>1. PICK p \in Peers, q \in Peers :
          /\ a = evidence[p]["match"] /\ evidence[p]["match"] # NONE
          /\ b = evidence[q]["match"] /\ evidence[q]["match"] # NONE
    BY DEF OfKind
  <1>2. p # q
    BY <1>1
  <1>3. /\ a.role = p /\ a.frames = FRAMES /\ a.checksum = Complete /\ a.transport = Transport
        /\ Len(Complete) = FRAMES
    <2>1. a = [role |-> p, frames |-> FRAMES, checksum |-> Complete,
               transport |-> Transport, native |-> launch[p].native]
      BY <1>1, RecordedReport
    <2>2. Len(Complete) = FRAMES
      BY <1>1, RecordedReport
    <2> QED BY <2>1, <2>2
  <1>4. b.role = q /\ b.frames = FRAMES /\ b.checksum = Complete /\ b.transport = Transport
    <2>1. b = [role |-> q, frames |-> FRAMES, checksum |-> Complete,
               transport |-> Transport, native |-> launch[q].native]
      BY <1>1, RecordedReport
    <2> QED BY <2>1
  <1> HIDE DEF Complete
  <1> QED BY <1>2, <1>3, <1>4 DEF VerifyPair, Valid

\* RecordedPairVerifies: any two reports on record verify as a pair, for any number of
\* frames, whatever the network lost and however often the probe was run.
THEOREM PairsOnRecordVerify == EvidenceSpec => []RecordedPairVerifies
  BY EvidenceInvHolds, InvVerifiesPairs, PTL

\* Reports of one kind are at most two.
LEMMA AtMostTwo ==
  ASSUME NEW k, NEW S \in SUBSET OfKind(evidence, k)
  PROVE  /\ IsFiniteSet(S) /\ IsFiniteSet(OfKind(evidence, k))
         /\ Cardinality(S) = 2 =>
              /\ S = OfKind(evidence, k)
              /\ \A p \in Peers : evidence[p][k] # NONE
  <1> DEFINE x == evidence["host"][k]
             y == evidence["guest"][k]
  <1>1. S \subseteq OfKind(evidence, k) /\ OfKind(evidence, k) \subseteq {x, y}
    BY DEF OfKind, Peers
  <1>2. /\ IsFiniteSet({x, y}) /\ Cardinality({x}) = 1 /\ Cardinality({y}) = 1
        /\ IsFiniteSet({x}) /\ IsFiniteSet({y})
        /\ Cardinality({x, y}) \in Nat /\ Cardinality({x, y}) <= 2
    <2>1. IsFiniteSet({x}) /\ Cardinality({x}) = 1 /\ IsFiniteSet({y}) /\ Cardinality({y}) = 1
      BY FS_Singleton
    <2>2. /\ IsFiniteSet({x} \union {y})
          /\ Cardinality({x} \union {y}) =
               IF y \in {x} THEN Cardinality({x}) ELSE Cardinality({x}) + 1
      BY <2>1, FS_AddElement
    <2>3. {x} \union {y} = {x, y}
      OBVIOUS
    <2> QED BY <2>1, <2>2, <2>3
  <1>3. IsFiniteSet(S) /\ IsFiniteSet(OfKind(evidence, k))
    BY <1>1, <1>2, FS_Subset
  <1>4. ASSUME Cardinality(S) = 2
        PROVE  S = OfKind(evidence, k) /\ x # NONE /\ y # NONE
    <2>1. Cardinality(S) <= Cardinality({x, y}) /\ (Cardinality(S) = Cardinality({x, y}) => S = {x, y})
      BY <1>1, <1>2, FS_Subset
    <2>2. S = {x, y}
      BY <1>2, <1>4, <2>1
    <2>3. S = OfKind(evidence, k)
      BY <1>1, <2>2
    <2>4. x \in OfKind(evidence, k) /\ y \in OfKind(evidence, k)
      BY <2>2, <2>3
    <2> QED BY <2>3, <2>4 DEF OfKind
  <1> QED BY <1>3, <1>4 DEF Peers

LEMMA InvAggregates == EvidenceInv => AggregatesFollowSummary
  <1> SUFFICES ASSUME EvidenceInv PROVE AggregatesFollowSummary
    OBVIOUS
  <1>0. \A a, b \in OfKind(evidence, "match") : a # b => VerifyPair(a, b)
    BY InvVerifiesPairs DEF RecordedPairVerifies
  <1>1. ASSUME PubliclyVerified(evidence) PROVE Verdict(evidence) = "verified"
    BY <1>0, <1>1 DEF PubliclyVerified, OnePair, Verdict
  <1>2. ASSUME TunnelVerified(evidence),
               \A m \in OfKind(evidence, "attempt_failure") : m.native # "none"
        PROVE  Verdict(evidence) = "verified"
    <2>1. /\ Cardinality(OfKind(evidence, "match")) = 2
          /\ \A p \in Peers : evidence[p]["match"] # NONE
      <3>1. Tunnelled(evidence, "match") \in SUBSET OfKind(evidence, "match")
        BY DEF Tunnelled
      <3>2. Cardinality(Tunnelled(evidence, "match")) = 2
        BY <1>2 DEF TunnelVerified, OnePair
      <3> QED BY <3>1, <3>2, AtMostTwo
    <2>2. OfKind(evidence, "attempt_failure") = {}
      <3> SUFFICES ASSUME NEW p \in Peers, evidence[p]["attempt_failure"] # NONE PROVE FALSE
        BY DEF OfKind
      <3>1. evidence[p]["attempt_failure"].native # "none"
        BY <1>2 DEF OfKind
      <3>2. ~launch[p].ok
        BY <3>1 DEF EvidenceInv, FailuresAreTrue, Truthful
      <3> QED BY <2>1, <3>2, RecordedReport
    <2> QED BY <1>0, <2>1, <2>2 DEF Verdict
  <1> QED BY <1>1, <1>2 DEF AggregatesFollowSummary

\* AggregatesFollowSummary: a room that one of the SQL aggregates counts as verified is
\* verified for report.rs, but for failures the route policy does not see.
THEOREM AggregatesAgree == EvidenceSpec => []AggregatesFollowSummary
  BY EvidenceInvHolds, InvAggregates, PTL

-----------------------------------------------------------------------------
(* Receipts, and the probe's promise *)

\* ReceiptIsVerified: a receipt is made only in a room that is verified at that moment.
THEOREM ReceiptsAreVerified == EvidenceSpec => ReceiptIsVerified
  <1>1. [EvidenceNext]_allVars => [receipt' # receipt => Verdict(evidence) = "verified"]_allVars
    <2> SUFFICES ASSUME [EvidenceNext]_allVars, receipt' # receipt
                 PROVE  Verdict(evidence) = "verified"
      BY DEF allVars, evidenceVars
    <2>1. PICK p \in Peers : ClickReceipt(p)
      BY DEF EvidenceNext, ProbeStep, CloseSockets, RepeatProbe, RoomEnds, Launch, Leave,
             StartUpload, TryUpload, ResetUpload, SendFailure, TakeFailure, evidenceVars, allVars
    <2>2. Receivable(p)
      BY <2>1 DEF ClickReceipt, CreateMatchReceipt
    <2> QED BY <2>2 DEF Receivable, Verdict
  <1> QED BY <1>1, PTL DEF EvidenceSpec, ReceiptIsVerified

\* KeepsPromise: also with repeated runs, all reports of one probe have one checksum.
THEOREM RepeatedProbesKeepTheirPromise == EvidenceSpec => KeepsPromise
  <1>1. EvidenceInit => Promise!ProbeInit
    BY DEF EvidenceInit, Init, Promise!ProbeInit, Promise!ProbeStart
  <1>2. EvidenceInv /\ [EvidenceNext]_allVars => [Promise!ProbeNext]_(Promise!probeVars)
    <2> SUFFICES ASSUME EvidenceInv, [EvidenceNext]_allVars
                 PROVE  [Promise!ProbeNext]_(Promise!probeVars)
      OBVIOUS
    <2>1. CASE ProbeStep
      BY <2>1, PromiseStep DEF ProbeStep, EvidenceInv
    <2>2. CASE RepeatProbe
      <3>1. /\ \A p \in Peers : RunEnds[p] # "running"
            /\ RunEnds' = [p \in Peers |-> "running"]
            /\ Reported' = [p \in Peers |-> << >>]
        BY <2>2 DEF RepeatProbe, Closed, Ended, RunEnds, Reported
      <3> QED BY <3>1 DEF Promise!ProbeNext, Promise!Repeat, Promise!ProbeStart, RunEnds, Reported
    <2>3. CASE UNCHANGED <<phase, transcript>>
      BY <2>3 DEF Promise!probeVars
    <2> QED BY <2>1, <2>2, <2>3
            DEF EvidenceNext, CloseSockets, RoomEnds, Launch, Leave, StartUpload, TryUpload,
                ResetUpload, SendFailure, TakeFailure, ClickReceipt, allVars, vars
  <1> QED BY <1>1, <1>2, EvidenceInvHolds, PTL DEF EvidenceSpec, KeepsPromise, Promise!ProbeSpec
=============================================================================
