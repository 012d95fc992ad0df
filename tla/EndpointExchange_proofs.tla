---------------------- MODULE EndpointExchange_proofs ----------------------
(* Theorems about EndpointExchange, for any number of retries, endpoint    *)
(* messages and lost connections.                                          *)
EXTENDS EndpointExchange, TLAPS

-----------------------------------------------------------------------------
(* Types, without the bounds that the counters keep to *)

Messages == [kind : {"reply", "endpoint"}, id : Nat, nonce : Nat]
Requests == [id : Nat, nonce : Nat]
Slots    == [kind : {"none", "prepared", "running"}, nonce : Nat, att : Nat]
Reports  == [local : Nat, peer : Nat, route : {"none", "direct", "relay"}]
Preps    == [st : {"idle", "reserving", "awaiting", "backoff"}, att : Nat, id : Nat]
AllRuns  == [att : Nat, local : Nat, peer : Nat, live : BOOLEAN,
             st : {"direct", "ticket", "relay"}]

NetType ==
  /\ link \in [Peers -> BOOLEAN] /\ outbox \in [Peers -> Seq(Requests)]
  /\ hub \in [Peers -> BOOLEAN] /\ inbox \in [Peers -> Seq(Messages)]
  /\ losses \in Nat /\ sends \in [Peers -> Nat]

ClientType ==
  /\ slot \in [Peers -> Slots] /\ made \in [Peers -> Nat]
  /\ attempt \in [Peers -> Nat] /\ resetting \in [Peers -> BOOLEAN]
  /\ local \in [Peers -> Nat] /\ relayed \in [Peers -> BOOLEAN]
  /\ peer \in [Peers -> Nat] /\ started \in [Peers -> BOOLEAN]
  /\ report \in [Peers -> Reports] /\ err \in [Peers -> BOOLEAN]
  /\ dirty \in [Peers -> SUBSET {"prep", "run"}] /\ prep \in [Peers -> Preps]
  /\ runs \in [Peers -> SUBSET AllRuns]

LEMMA OtherIsPeer == \A p \in Peers : Other(p) \in Peers /\ Other(p) # p /\ Other(Other(p)) = p
  BY DEF Peers, Other

LEMMA TypesInit == Init => NetType /\ ClientType
  BY DEF Init, NetType, ClientType, Slots, Reports, Preps, NoSlot, NoReport, Idle

LEMMA RejectedType ==
  ASSUME ClientType, NEW p \in Peers
  PROVE  Rejected(p) \in [Peers -> Preps]
  BY DEF ClientType, Rejected, Preps

LEMMA ShowsErrorType ==
  ASSUME ClientType, NEW p \in Peers, ShowsError(p)
  PROVE  err' \in [Peers -> BOOLEAN]
  <1>1. PICK e \in BOOLEAN : e = (err[p] \/ prep[p].att = attempt[p])
    OBVIOUS
  <1>2. err' = [err EXCEPT ![p] = e]
    BY <1>1 DEF ShowsError
  <1> QED BY <1>2 DEF ClientType

\* What a client sends after a reservation, or again.
LEMMA SentTypes ==
  ASSUME NetType, ClientType, NEW p \in Peers, NEW n \in Nat, Sent(p, n)
  PROVE  /\ outbox' \in [Peers -> Seq(Requests)] /\ sends' \in [Peers -> Nat]
         /\ prep' \in [Peers -> Preps] /\ err' \in [Peers -> BOOLEAN]
  <1>1. CASE link[p]
    <2>1. /\ outbox' = [outbox EXCEPT ![p] = Append(@, [id |-> sends[p] + 1, nonce |-> n])]
          /\ sends' = [sends EXCEPT ![p] = @ + 1]
          /\ prep' = [prep EXCEPT ![p] = [st |-> "awaiting", att |-> @.att, id |-> sends[p] + 1]]
          /\ UNCHANGED err
      BY <1>1 DEF Sent
    <2>2. [id |-> sends[p] + 1, nonce |-> n] \in Requests
      BY DEF NetType, Requests
    <2>3. outbox' \in [Peers -> Seq(Requests)]
      BY <2>1, <2>2 DEF NetType
    <2>4. prep' \in [Peers -> Preps]
      BY <2>1 DEF NetType, ClientType, Preps
    <2> QED BY <2>1, <2>3, <2>4 DEF NetType, ClientType
  <1>2. CASE ~link[p]
    <2>1. /\ prep' = [prep EXCEPT ![p].st = "backoff"] /\ ShowsError(p)
          /\ UNCHANGED <<outbox, sends>>
      BY <1>2 DEF Sent
    <2>2. err' \in [Peers -> BOOLEAN]
      BY <2>1, ShowsErrorType
    <2>3. [prep[p] EXCEPT !.st = "backoff"] \in Preps
      BY DEF ClientType, Preps
    <2>4. prep' \in [Peers -> Preps]
      BY <2>1, <2>3 DEF ClientType
    <2> QED BY <2>1, <2>2, <2>4 DEF NetType
  <1> QED BY <1>1, <1>2

LEMMA NetTypes ==
  ASSUME NetType, ClientType, NEW p \in Peers,
         Connect(p) \/ Lose(p) \/ Notice(p) \/ Route(p) \/ Receive(p)
  PROVE  NetType' /\ ClientType'
  <1>1. CASE Connect(p) \/ Notice(p)
    BY <1>1 DEF Connect, Notice, NetType, ClientType, native, screen, control, Set
  <1>2. CASE Lose(p)
    <2>1. prep' \in [Peers -> Preps] /\ err' \in [Peers -> BOOLEAN]
      BY <1>2, RejectedType, ShowsErrorType DEF Lose, ClientType
    <2>2. NetType'
      BY <1>2 DEF Lose, NetType, Set
    <2> QED BY <1>2, <2>1, <2>2 DEF Lose, ClientType, native, control
  <1>3. CASE Route(p)
    <2>0. Head(outbox[p]) \in Requests /\ Tail(outbox[p]) \in Seq(Requests)
      BY <1>3 DEF Route, NetType
    <2>1. PICK m \in Requests : m = Head(outbox[p])
      BY <2>0
    <2>2. PICK reply \in Messages, push \in Messages :
            /\ reply = [kind |-> "reply", id |-> m.id, nonce |-> 0]
            /\ push = [kind |-> "endpoint", id |-> 0, nonce |-> m.nonce]
      BY DEF Messages, Requests
    <2>3. inbox' = [inbox EXCEPT ![p] = Append(@, reply),
             ![Other(p)] = IF hub[Other(p)] /\ link[Other(p)] THEN Append(@, push) ELSE @]
      BY <1>3, <2>1, <2>2 DEF Route
    <2>4. inbox' \in [Peers -> Seq(Messages)]
      <3>0. /\ Append(inbox[p], reply) \in Seq(Messages)
            /\ Append(inbox[Other(p)], push) \in Seq(Messages)
            /\ inbox[Other(p)] \in Seq(Messages)
        BY OtherIsPeer DEF NetType
      <3>1. PICK i \in Seq(Messages), o \in Seq(Messages) :
              /\ i = Append(inbox[p], reply)
              /\ o = IF hub[Other(p)] /\ link[Other(p)] THEN Append(inbox[Other(p)], push)
                    ELSE inbox[Other(p)]
        BY <3>0
      <3>2. inbox' = [inbox EXCEPT ![p] = i, ![Other(p)] = o]
        BY <2>3, <3>1, OtherIsPeer
      <3> QED BY <3>2, OtherIsPeer DEF NetType
    <2> QED BY <1>3, <2>0, <2>4 DEF Route, NetType, ClientType, native, screen, control, Set
  <1>4. CASE Receive(p)
    <2>1. Head(inbox[p]) \in Messages /\ Tail(inbox[p]) \in Seq(Messages)
      BY <1>4 DEF Receive, NetType
    <2>2. /\ inbox' \in [Peers -> Seq(Messages)] /\ peer' \in [Peers -> Nat]
          /\ prep' \in [Peers -> Preps] /\ relayed' \in [Peers -> BOOLEAN]
          /\ err' \in [Peers -> BOOLEAN]
      BY <1>4, <2>1 DEF Receive, NetType, ClientType, Set, Messages, Idle, Preps
    <2>3. dirty' \in [Peers -> SUBSET {"prep", "run"}]
      BY <1>4 DEF Receive, Touch, Affected, ClientType
    <2> QED BY <1>4, <2>2, <2>3 DEF Receive, NetType, ClientType, native, control
  <1> QED BY <1>1, <1>2, <1>3, <1>4

LEMMA ScreenTypes ==
  ASSUME NetType, ClientType, NEW p \in Peers,
         ReserveFails(p) \/ Reserve(p) \/ Timeout(p) \/ Resend(p) \/ Retry(p) \/ Reset(p)
  PROVE  NetType' /\ ClientType'
  <1>1. CASE ReserveFails(p) \/ Timeout(p)
    <2>1. prep' \in [Peers -> Preps] /\ err' \in [Peers -> BOOLEAN]
      <3>1. ShowsError(p) /\ prep' \in {Rejected(p), [prep EXCEPT ![p] = Idle]}
        BY <1>1 DEF ReserveFails, Timeout, Set
      <3>2. err' \in [Peers -> BOOLEAN]
        BY <3>1, ShowsErrorType
      <3>3. [prep EXCEPT ![p] = Idle] \in [Peers -> Preps]
        BY DEF ClientType, Idle, Preps
      <3> QED BY <3>1, <3>2, <3>3, RejectedType
    <2> QED BY <1>1, <2>1
            DEF ReserveFails, Timeout, NetType, ClientType, net, native, control
  <1>2. CASE Resend(p)
    <2>1. /\ outbox' \in [Peers -> Seq(Requests)] /\ sends' \in [Peers -> Nat]
          /\ prep' \in [Peers -> Preps] /\ err' \in [Peers -> BOOLEAN]
      <3>1. CASE Abandoned(p)
        <4>1. prep' = [prep EXCEPT ![p] = Idle] /\ UNCHANGED <<outbox, sends, err>>
          BY <1>2, <3>1 DEF Resend, Set
        <4> QED BY <4>1 DEF NetType, ClientType, Idle, Preps
      <3>2. CASE ~Abandoned(p)
        <4>1. Sent(p, local[p]) /\ local[p] \in Nat
          BY <1>2, <3>2 DEF Resend, ClientType
        <4> QED BY <4>1, SentTypes
      <3> QED BY <3>1, <3>2
    <2> QED BY <1>2, <2>1 DEF Resend, NetType, ClientType, native, control
  <1>3. CASE Reserve(p)
    <2>0. PICK n \in Nat : n = Candidate(p)
      BY DEF Candidate, ClientType, Slots
    <2>1. /\ outbox' \in [Peers -> Seq(Requests)] /\ sends' \in [Peers -> Nat]
          /\ prep' \in [Peers -> Preps] /\ err' \in [Peers -> BOOLEAN]
      <3>1. CASE prep[p].att = attempt[p]
        <4>1. Sent(p, n)
          BY <1>3, <2>0, <3>1 DEF Reserve
        <4> QED BY <4>1, SentTypes
      <3>2. CASE prep[p].att # attempt[p]
        <4>1. prep' = [prep EXCEPT ![p] = Idle] /\ UNCHANGED <<outbox, sends, err>>
          BY <1>3, <3>2 DEF Reserve, Set
        <4> QED BY <4>1 DEF NetType, ClientType, Idle, Preps
      <3> QED BY <3>1, <3>2
    <2>2. Prepared(n) \in Slots /\ NoSlot \in Slots
      BY DEF Prepared, NoSlot, Slots
    <2>3. slot' = [slot EXCEPT ![p] = Prepared(n)] \/ slot' = [slot EXCEPT ![p] = NoSlot]
      BY <1>3, <2>0 DEF Reserve, Cancelled, Set
    <2>4. slot' \in [Peers -> Slots]
      BY <2>2, <2>3 DEF ClientType
    <2>5. made' \in [Peers -> Nat] /\ local' \in [Peers -> Nat]
      BY <1>3, <2>0 DEF Reserve, ClientType, Set
    <2>6. dirty' \in [Peers -> SUBSET {"prep", "run"}]
      BY <1>3 DEF Reserve, ClientType, Touch
    <2> QED BY <1>3, <2>1, <2>4, <2>5, <2>6 DEF Reserve, NetType, ClientType, control
  <1>4. CASE Retry(p)
    BY <1>4 DEF Retry, NetType, ClientType, net, native, screen, Set
  <1>5. CASE Reset(p)
    <2>1. /\ slot' \in [Peers -> Slots] /\ report' \in [Peers -> Reports]
          /\ dirty' \in [Peers -> SUBSET {"prep", "run"}]
      BY <1>5 DEF Reset, Cancelled, ClientType, Set, Touch, NoSlot, NoReport, Slots, Reports
    <2> QED BY <1>5, <2>1 DEF Reset, NetType, ClientType, net, Set
  <1> QED BY <1>1, <1>2, <1>3, <1>4, <1>5

LEMMA CommitTypes ==
  ASSUME NetType, ClientType, NEW p \in Peers, Commit(p)
  PROVE  NetType' /\ ClientType'
  <1>1. prep' \in [Peers -> Preps]
    BY DEF Commit, ClientType, Set, Idle, Preps
  <1>2. Detached(p) \in SUBSET AllRuns
    <2>1. \A r \in runs[p] : r \in AllRuns
      BY DEF ClientType
    <2>2. \A r \in AllRuns : [r EXCEPT !.live = FALSE] \in AllRuns
      BY DEF AllRuns
    <2> QED BY <2>1, <2>2 DEF Detached
  <1>3. NewRun(p) \in AllRuns
    BY DEF NewRun, ClientType, Slots, AllRuns
  <1>4. /\ runs' \in [Peers -> SUBSET AllRuns] /\ started' \in [Peers -> BOOLEAN]
        /\ err' \in [Peers -> BOOLEAN] /\ slot' \in [Peers -> Slots]
    <2>1. CASE Starts(p)
      <3>1. PICK r \in AllRuns : r = NewRun(p)
        BY <1>3
      <3>2. /\ runs' = Set(runs, p, Detached(p) \union {r}) /\ started' = Set(started, p, TRUE)
            /\ err' = Set(err, p, r.st # "direct")
            /\ slot' = IF r.st = "direct" THEN Set(slot, p, Running(r.att, r.local)) ELSE slot
        BY <2>1, <3>1 DEF Commit
      <3>3. Running(r.att, r.local) \in Slots
        BY DEF Running, Slots, AllRuns
      <3> QED BY <1>2, <3>2, <3>3 DEF ClientType, Set
    <2>2. CASE ~Starts(p)
      BY <1>2, <2>2 DEF Commit, ClientType, Set
    <2> QED BY <2>1, <2>2
  <1>5. /\ dirty' \in [Peers -> SUBSET {"prep", "run"}]
        /\ UNCHANGED <<net, made, relayed, peer, report, control, local, sends>>
    BY DEF Commit, ClientType, Set
  <1>6. NetType'
    BY <1>5 DEF NetType, net
  <1> QED BY <1>1, <1>4, <1>5, <1>6 DEF ClientType, control

LEMMA RunTypes ==
  ASSUME NetType, ClientType, NEW p \in Peers, Run(p)
  PROVE  NetType' /\ ClientType'
  <1>1. PICK r \in runs[p] : RunSucceeds(p, r) \/ DirectFails(p, r) \/ RelayStarts(p, r) \/ RelayFails(p, r)
    BY DEF Run
  <1>2. r \in AllRuns
    BY DEF ClientType
  <1>3. slot' \in [Peers -> Slots]
    BY <1>1, <1>2 DEF RunSucceeds, Returns, DirectFails, RelayStarts, RelayFails, Released, Set, NoSlot,
                      Running, ClientType, Slots, AllRuns
  <1>4. runs' \in [Peers -> SUBSET AllRuns]
    <2>1. [r EXCEPT !.st = "ticket"] \in AllRuns /\ [r EXCEPT !.st = "relay"] \in AllRuns
      BY <1>2 DEF AllRuns
    <2>2. \E s \in {runs[p] \ {r}, (runs[p] \ {r}) \union {[r EXCEPT !.st = "ticket"]},
                    (runs[p] \ {r}) \union {[r EXCEPT !.st = "relay"]}} :
            runs' = [runs EXCEPT ![p] = s]
      BY <1>1 DEF RunSucceeds, Returns, DirectFails, RelayStarts, RelayFails, Set
    <2> QED BY <2>1, <2>2 DEF ClientType
  <1>5. report' \in [Peers -> Reports] /\ err' \in [Peers -> BOOLEAN]
    <2>1. CASE RunSucceeds(p, r)
      <3>1. [local |-> r.local, peer |-> r.peer, route |-> r.st] \in Reports
        BY <1>2, <2>1 DEF RunSucceeds, Reports, AllRuns
      <3>2. /\ \/ report' = report
               \/ report' = [report EXCEPT
                               ![p] = [local |-> r.local, peer |-> r.peer, route |-> r.st]]
            /\ err' = err \/ err' = [err EXCEPT ![p] = FALSE]
        BY <2>1 DEF RunSucceeds, Set
      <3>3. report' \in [Peers -> Reports]
        BY <3>1, <3>2 DEF ClientType
      <3>4. err' \in [Peers -> BOOLEAN]
        BY <3>2 DEF ClientType
      <3> QED BY <3>3, <3>4
    <2>2. CASE DirectFails(p, r) \/ RelayFails(p, r)
      BY <2>2 DEF DirectFails, RelayFails, Fails, ClientType, Set
    <2>3. CASE RelayStarts(p, r)
      BY <2>3 DEF RelayStarts, ClientType, screen
    <2> QED BY <1>1, <2>1, <2>2, <2>3
  <1> QED BY <1>1, <1>3, <1>4, <1>5
          DEF RunSucceeds, DirectFails, RelayStarts, RelayFails, Fails, NetType, ClientType, net,
              screen, control

LEMMA TypesStep ==
  ASSUME NetType, ClientType, [Next]_vars
  PROVE  NetType' /\ ClientType'
  <1>1. CASE Next
    BY <1>1, NetTypes, ScreenTypes, CommitTypes, RunTypes DEF Next
  <1>2. CASE UNCHANGED vars
    BY <1>2 DEF vars, net, native, screen, control, NetType, ClientType
  <1> QED BY <1>1, <1>2

-----------------------------------------------------------------------------
(* The invariant of one client *)

\* No coroutine prepares the present attempt.
NotPreparing(p) == prep[p].st = "idle" \/ prep[p].att < attempt[p]

\* The effect will reserve a socket at the next commit.
WillReserve(p) == "prep" \in dirty[p] /\ local[p] = 0

AttemptsPass(p) ==
  /\ prep[p].att <= attempt[p]
  /\ \A r \in runs[p] : r.att <= attempt[p]

\* A socket is reserved while there is no endpoint; the endpoint is of that socket.
SocketIsShown(p) ==
  /\ prep[p].st = "reserving" => local[p] = 0
  /\ prep[p].st \in {"awaiting", "backoff"} /\ prep[p].att = attempt[p] => local[p] # 0
  /\ slot[p].kind = "prepared" => slot[p].nonce = local[p] /\ local[p] # 0
  /\ local[p] # 0 /\ ~started[p] /\ ~resetting[p] => slot[p] = Prepared(local[p])

\* An error means that the present attempt has stopped: in its preparation, before
\* the endpoint was relayed, or in its run.
ErrorsStop(p) ==
  /\ WillReserve(p) => ~err[p] /\ NotPreparing(p)
  /\ relayed[p] => local[p] # 0
  /\ relayed[p] /\ ~started[p] => ~err[p] /\ NotPreparing(p)

\* Between the press of the button and the reset nothing of the new attempt exists.
ResetsAreClean(p) ==
  resetting[p] =>
    /\ NotPreparing(p) /\ ~WillReserve(p)
    /\ \A r \in runs[p] : r.att < attempt[p]
    /\ relayed[p] => started[p]

\* The run that may show its result, and the result, are of the present endpoint.
ResultsAreCurrent(p) ==
  /\ \A r \in runs[p] : Current(p, r) => started[p] /\ local[p] # 0 /\ r.local = local[p]
  /\ report[p] # NoReport => started[p] /\ local[p] # 0 /\ report[p].local = local[p]

ClientOK(p) ==
  /\ AttemptsPass(p) /\ SocketIsShown(p) /\ ErrorsStop(p)
  /\ ResetsAreClean(p) /\ ResultsAreCurrent(p)

ClientInv == \A p \in Peers : ClientOK(p)

\* What a client is is left alone.
Same(q) ==
  /\ prep'[q] = prep[q] /\ attempt'[q] = attempt[q] /\ runs'[q] = runs[q]
  /\ slot'[q] = slot[q] /\ local'[q] = local[q] /\ started'[q] = started[q]
  /\ resetting'[q] = resetting[q] /\ relayed'[q] = relayed[q] /\ err'[q] = err[q]
  /\ dirty'[q] = dirty[q] /\ report'[q] = report[q]

LEMMA SameKeeps ==
  ASSUME NEW q \in Peers, ClientOK(q), Same(q)
  PROVE  ClientOK(q)'
  BY DEF ClientOK, Same, AttemptsPass, SocketIsShown, ErrorsStop, ResetsAreClean,
         ResultsAreCurrent, NotPreparing, WillReserve, Current

LEMMA OneClientSteps ==
  ASSUME ClientInv, NEW p \in Peers, ClientOK(p)', \A q \in Peers \ {p} : Same(q)
  PROVE  ClientInv'
  BY SameKeeps DEF ClientInv

LEMMA ClientInvInit == Init => ClientInv
  BY DEF Init, ClientInv, ClientOK, AttemptsPass, SocketIsShown, ErrorsStop, ResetsAreClean,
         ResultsAreCurrent, NotPreparing, WillReserve, Current, Idle, NoSlot, NoReport

\* The preparation goes on or ends, and shows an error if it is the present one.
LEMMA PreparationKeeps ==
  ASSUME ClientType, ClientType', NEW p \in Peers, ClientOK(p),
         attempt'[p] = attempt[p], runs'[p] = runs[p], slot'[p] = slot[p],
         local'[p] = local[p], started'[p] = started[p], resetting'[p] = resetting[p],
         relayed'[p] = relayed[p], dirty'[p] = dirty[p], report'[p] = report[p],
         \/ prep'[p] = Idle
         \/ /\ prep[p].st \in {"awaiting", "backoff"} /\ prep'[p].st \in {"awaiting", "backoff"}
            /\ prep'[p].att = prep[p].att,
         err'[p] => err[p] \/ (prep[p].st # "idle" /\ prep[p].att = attempt[p])
  PROVE  ClientOK(p)'
  <1>1. NotPreparing(p) => NotPreparing(p)' /\ (err'[p] => err[p])
    BY DEF NotPreparing, Idle, ClientType, Preps
  <1>2. AttemptsPass(p)'
    BY DEF ClientOK, AttemptsPass, Idle, ClientType
  <1>3. SocketIsShown(p)'
    BY DEF ClientOK, SocketIsShown, Idle
  <1>4. ErrorsStop(p)' /\ ResetsAreClean(p)'
    BY <1>1 DEF ClientOK, ErrorsStop, ResetsAreClean, WillReserve
  <1>5. ResultsAreCurrent(p)'
    BY DEF ClientOK, ResultsAreCurrent, Current
  <1> QED BY <1>2, <1>3, <1>4, <1>5 DEF ClientOK

LEMMA NetKeepsClients ==
  ASSUME ClientType, ClientType', ClientInv, NEW p \in Peers,
         Connect(p) \/ Notice(p) \/ Route(p) \/ UNCHANGED vars
  PROVE  ClientInv'
  <1>1. \A q \in Peers : Same(q)
    BY DEF Connect, Notice, Route, vars, native, screen, control, Same
  <1> QED BY <1>1, SameKeeps DEF ClientInv

LEMMA PreparationSteps ==
  ASSUME ClientType, ClientType', ClientInv, NEW p \in Peers,
         Lose(p) \/ Timeout(p) \/ ReserveFails(p) \/ Resend(p)
  PROVE  ClientInv'
  <1>0. \A q \in Peers :
          /\ attempt'[q] = attempt[q] /\ runs'[q] = runs[q] /\ slot'[q] = slot[q]
          /\ local'[q] = local[q] /\ started'[q] = started[q] /\ resetting'[q] = resetting[q]
          /\ relayed'[q] = relayed[q] /\ dirty'[q] = dirty[q] /\ report'[q] = report[q]
    BY DEF Lose, Timeout, ReserveFails, Resend, native, control
  <1>1. /\ \A q \in Peers \ {p} : prep'[q] = prep[q] /\ err'[q] = err[q]
        /\ \/ prep'[p] = prep[p] /\ err'[p] = err[p]
           \/ /\ \/ prep'[p] = Idle
                 \/ /\ prep[p].st \in {"awaiting", "backoff"}
                    /\ prep'[p].st \in {"awaiting", "backoff"} /\ prep'[p].att = prep[p].att
              /\ err'[p] => err[p] \/ (prep[p].st # "idle" /\ prep[p].att = attempt[p])
    <2>1. ASSUME prep[p].st # "idle", ShowsError(p)
          PROVE  /\ \A q \in Peers \ {p} : err'[q] = err[q]
                 /\ err'[p] => err[p] \/ (prep[p].st # "idle" /\ prep[p].att = attempt[p])
      BY <2>1 DEF ShowsError, ClientType
    <2>2. ASSUME prep' = Rejected(p)
          PROVE  /\ \A q \in Peers \ {p} : prep'[q] = prep[q]
                 /\ IF prep[p].st = "awaiting" THEN prep'[p].st = "backoff" /\ prep'[p].att = prep[p].att
                                             ELSE prep'[p] = prep[p]
      BY <2>2 DEF Rejected, ClientType, Preps
    <2>3. CASE Lose(p)
      BY <2>1, <2>2, <2>3 DEF Lose
    <2>4. CASE Timeout(p)
      BY <2>1, <2>2, <2>4 DEF Timeout
    <2>5. CASE ReserveFails(p)
      <3>1. prep[p].st # "idle" /\ ShowsError(p) /\ prep' = [prep EXCEPT ![p] = Idle]
        BY <2>5 DEF ReserveFails, Set
      <3> QED BY <2>1, <3>1 DEF ClientType
    <2>6. CASE Resend(p)
      <3>1. prep[p].st = "backoff"
        BY <2>6 DEF Resend
      <3>2. CASE Abandoned(p)
        BY <2>6, <3>2 DEF Resend, Set, ClientType
      <3>3. CASE ~Abandoned(p) /\ link[p]
        BY <2>6, <3>1, <3>3 DEF Resend, Sent, ClientType
      <3>4. CASE ~Abandoned(p) /\ ~link[p]
        <4>1. prep' = [prep EXCEPT ![p].st = "backoff"] /\ ShowsError(p)
          BY <2>6, <3>4 DEF Resend, Sent
        <4>2. /\ \A q \in Peers \ {p} : prep'[q] = prep[q]
              /\ prep'[p].st = "backoff" /\ prep'[p].att = prep[p].att
          BY <4>1 DEF ClientType, Preps
        <4> QED BY <2>1, <3>1, <4>1, <4>2
      <3> QED BY <3>2, <3>3, <3>4
    <2> QED BY <2>3, <2>4, <2>5, <2>6
  <1>2. \A q \in Peers \ {p} : Same(q)
    BY <1>0, <1>1 DEF Same
  <1>3. ClientOK(p)
    BY DEF ClientInv
  <1>4. CASE prep'[p] = prep[p] /\ err'[p] = err[p]
    BY <1>0, <1>2, <1>3, <1>4, SameKeeps, OneClientSteps DEF Same
  <1>5. CASE ~(prep'[p] = prep[p] /\ err'[p] = err[p])
    <2>1. ClientOK(p)'
      BY <1>0, <1>1, <1>3, <1>5, PreparationKeeps
    <2> QED BY <1>2, <2>1, OneClientSteps
  <1> QED BY <1>4, <1>5

LEMMA ReceiveKeepsClients ==
  ASSUME NetType, ClientType, ClientType', ClientInv, NEW p \in Peers, Receive(p)
  PROVE  ClientInv'
  <1>1. PICK m : m = Head(inbox[p])
    OBVIOUS
  <1> DEFINE resolves  == m.kind = "reply" /\ prep[p].st = "awaiting" /\ m.id = prep[p].id
             delivered == resolves /\ prep[p].att = attempt[p]
  <1>2. /\ prep' = IF resolves THEN Set(prep, p, Idle) ELSE prep
        /\ relayed' = IF delivered THEN Set(relayed, p, TRUE) ELSE relayed
        /\ err' = IF delivered THEN Set(err, p, FALSE) ELSE err
        /\ \E e \in {{}, {"run"}} : dirty' = [dirty EXCEPT ![p] = @ \union e]
        /\ UNCHANGED <<attempt, runs, slot, local, started, resetting, report>>
    BY <1>1 DEF Receive, Touch, Affected, native, control
  <1>3. \A q \in Peers \ {p} : Same(q)
    BY <1>2 DEF Same, Set, ClientType
  <1>4. /\ resolves => prep[p].st = "awaiting" /\ prep'[p] = Idle
        /\ ~resolves => prep'[p] = prep[p]
        /\ delivered => /\ prep[p].st = "awaiting" /\ prep[p].att = attempt[p]
                        /\ prep'[p] = Idle /\ relayed'[p] = TRUE /\ err'[p] = FALSE
        /\ ~delivered => relayed'[p] = relayed[p] /\ err'[p] = err[p]
        /\ "prep" \in dirty'[p] <=> "prep" \in dirty[p]
    <2>1. "prep" \in dirty'[p] <=> "prep" \in dirty[p]
      BY <1>2 DEF ClientType
    <2>2. /\ resolves => prep[p].st = "awaiting" /\ prep'[p] = Idle
          /\ ~resolves => prep'[p] = prep[p]
      BY <1>2 DEF Set, ClientType
    <2>3. /\ delivered => relayed'[p] = TRUE /\ err'[p] = FALSE
          /\ ~delivered => relayed'[p] = relayed[p] /\ err'[p] = err[p]
      <3>1. CASE delivered
        BY <1>2, <3>1 DEF Set, ClientType
      <3>2. CASE ~delivered
        BY <1>2, <3>2 DEF Set, ClientType
      <3> QED BY <3>1, <3>2
    <2> QED BY <2>1, <2>2, <2>3
  <1> HIDE DEF resolves, delivered
  <1>5. ClientOK(p)
    BY DEF ClientInv
  <1>6. NotPreparing(p) => NotPreparing(p)' /\ ~delivered
    <2>1. prep[p].att \in Nat /\ attempt[p] \in Nat
      BY DEF ClientType, Preps
    <2>2. attempt'[p] = attempt[p] /\ prep'[p] \in {prep[p], Idle}
      BY <1>2, <1>4
    <2>3. NotPreparing(p) => ~delivered
      BY <1>4, <2>1 DEF NotPreparing
    <2> QED BY <2>2, <2>3 DEF NotPreparing, Idle
  <1>7. AttemptsPass(p)' /\ SocketIsShown(p)'
    BY <1>2, <1>4, <1>5 DEF ClientOK, AttemptsPass, SocketIsShown, Idle, ClientType
  <1>8. ErrorsStop(p)'
    <2>1. CASE delivered
      <3>1. NotPreparing(p)'
        BY <1>4, <2>1 DEF NotPreparing, Idle
      <3> QED BY <1>2, <1>4, <1>5, <2>1, <3>1
              DEF ClientOK, ErrorsStop, SocketIsShown, WillReserve
    <2>2. CASE ~delivered
      BY <1>2, <1>4, <1>5, <1>6, <2>2 DEF ClientOK, ErrorsStop, WillReserve
    <2> QED BY <2>1, <2>2
  <1>9. ResetsAreClean(p)'
    BY <1>2, <1>4, <1>5, <1>6 DEF ClientOK, ResetsAreClean, WillReserve
  <1>10. ResultsAreCurrent(p)'
    BY <1>2, <1>5 DEF ClientOK, ResultsAreCurrent, Current
  <1>11. ClientOK(p)'
    BY <1>7, <1>8, <1>9, <1>10 DEF ClientOK
  <1> QED BY <1>3, <1>11, OneClientSteps

LEMMA ReserveKeepsClients ==
  ASSUME ClientType, ClientType', ClientInv, NEW p \in Peers, Reserve(p)
  PROVE  ClientInv'
  <1>0. ClientOK(p)
    BY DEF ClientInv
  <1>1. /\ prep[p].st = "reserving" /\ local[p] = 0 /\ slot[p].kind # "prepared"
        /\ ~relayed[p] /\ report[p] = NoReport
        /\ \A r \in runs[p] : ~Current(p, r)
    BY <1>0 DEF Reserve, ClientOK, SocketIsShown, ErrorsStop, ResultsAreCurrent
  <1>2. UNCHANGED <<attempt, runs, started, resetting, relayed, report>>
    BY DEF Reserve, control
  <1>3. CASE prep[p].att = attempt[p]
    <2>1. PICK n \in Nat \ {0} : n = made[p] + 1
      BY DEF ClientType
    <2>2. /\ slot' = Set(slot, p, Prepared(n)) /\ local' = Set(local, p, n)
          /\ Touch(p, {"prep", "run"}) /\ Sent(p, n)
      BY <1>1, <1>3, <2>1 DEF Reserve, Candidate
    <2>3. /\ prep'[p].st \in {"awaiting", "backoff"} /\ prep'[p].att = attempt[p]
          /\ \A q \in Peers \ {p} : prep'[q] = prep[q] /\ err'[q] = err[q]
      BY <1>3, <2>2 DEF Sent, ShowsError, ClientType, Preps
    <2>4. \A q \in Peers \ {p} : Same(q)
      BY <1>2, <2>2, <2>3 DEF Same, Set, Touch, ClientType
    <2>5. local'[p] = n /\ slot'[p] = Prepared(n)
      BY <2>2 DEF Set, ClientType
    <2>6. ~resetting[p]
      BY <1>0, <1>1, <1>3 DEF ClientOK, ResetsAreClean, NotPreparing, ClientType
    <2>7. ClientOK(p)'
      BY <1>0, <1>1, <1>2, <2>1, <2>3, <2>5, <2>6
         DEF ClientOK, AttemptsPass, SocketIsShown, ErrorsStop, ResetsAreClean,
             ResultsAreCurrent, WillReserve, Current, Prepared, ClientType
    <2> QED BY <2>4, <2>7, OneClientSteps
  <1>4. CASE prep[p].att # attempt[p]
    <2>1. /\ slot' = Set(slot, p, NoSlot) /\ prep' = Set(prep, p, Idle)
          /\ UNCHANGED <<local, dirty, err>>
      BY <1>4 DEF Reserve, Cancelled
    <2>2. \A q \in Peers \ {p} : Same(q)
      BY <1>2, <2>1 DEF Same, Set, ClientType
    <2>3. prep'[p] = Idle /\ slot'[p] = NoSlot
      BY <2>1 DEF Set, ClientType
    <2>4. NotPreparing(p)' /\ NotPreparing(p)
      <3>1. prep[p].att \in Nat /\ attempt[p] \in Nat /\ prep[p].att <= attempt[p]
        BY <1>0 DEF ClientOK, AttemptsPass, ClientType, Preps
      <3> QED BY <1>4, <2>3, <3>1 DEF NotPreparing, Idle
    <2>5. ClientOK(p)'
      BY <1>0, <1>1, <1>2, <2>1, <2>3, <2>4
         DEF ClientOK, AttemptsPass, SocketIsShown, ErrorsStop, ResetsAreClean,
             ResultsAreCurrent, WillReserve, Current, Idle, NoSlot, ClientType
    <2> QED BY <2>2, <2>5, OneClientSteps
  <1> QED BY <1>3, <1>4

LEMMA RetryKeepsClients ==
  ASSUME ClientType, ClientType', ClientInv, NEW p \in Peers, Retry(p)
  PROVE  ClientInv'
  <1>0. ClientOK(p)
    BY DEF ClientInv
  <1>1. /\ err[p] \/ report[p] # NoReport
        /\ attempt'[p] = attempt[p] + 1 /\ resetting'[p] = TRUE /\ ~resetting[p]
        /\ UNCHANGED <<prep, runs, slot, local, started, relayed, err, dirty, report>>
    BY DEF Retry, Set, NoReport, ClientType, native, screen
  <1>2. \A q \in Peers \ {p} : Same(q)
    BY <1>1 DEF Retry, Set, Same, ClientType
  <1>3. /\ prep[p].att < attempt'[p] /\ \A r \in runs[p] : r.att < attempt'[p]
    BY <1>0, <1>1 DEF ClientOK, AttemptsPass, ClientType, Preps, AllRuns
  <1>4. NotPreparing(p)' /\ \A r \in runs[p] : ~Current(p, r)'
    BY <1>1, <1>3 DEF NotPreparing, Current, ClientType, AllRuns
  <1>5. ~WillReserve(p) /\ (relayed[p] => started[p])
    BY <1>0, <1>1 DEF ClientOK, ErrorsStop, ResultsAreCurrent, WillReserve
  <1>6. AttemptsPass(p)' /\ SocketIsShown(p)'
    BY <1>0, <1>1, <1>3 DEF ClientOK, AttemptsPass, SocketIsShown, ClientType, Preps, AllRuns
  <1>7. ErrorsStop(p)' /\ ResetsAreClean(p)'
    BY <1>0, <1>1, <1>3, <1>4, <1>5 DEF ClientOK, ErrorsStop, ResetsAreClean, WillReserve
  <1>8. ResultsAreCurrent(p)'
    BY <1>0, <1>1, <1>4 DEF ClientOK, ResultsAreCurrent
  <1> QED BY <1>2, <1>6, <1>7, <1>8, OneClientSteps DEF ClientOK

LEMMA ResetKeepsClients ==
  ASSUME ClientType, ClientType', ClientInv, NEW p \in Peers, Reset(p)
  PROVE  ClientInv'
  <1>0. ClientOK(p)
    BY DEF ClientInv
  <1>1. /\ resetting[p] /\ prep[p].st # "reserving"
        /\ ~resetting'[p] /\ slot'[p] = NoSlot /\ local'[p] = 0 /\ ~relayed'[p]
        /\ ~started'[p] /\ report'[p] = NoReport /\ ~err'[p]
        /\ UNCHANGED <<attempt, prep, runs>>
    BY DEF Reset, Cancelled, Set, ClientType
  <1>2. \A q \in Peers \ {p} : Same(q)
    BY DEF Reset, Cancelled, Set, Touch, Same, ClientType
  <1>3. NotPreparing(p)' /\ \A r \in runs[p] : ~Current(p, r)'
    BY <1>0, <1>1 DEF ClientOK, ResetsAreClean, NotPreparing, Current, ClientType, AllRuns
  <1>4. AttemptsPass(p)' /\ SocketIsShown(p)'
    BY <1>0, <1>1, <1>3
       DEF ClientOK, AttemptsPass, SocketIsShown, NotPreparing, NoSlot, ClientType, Preps
  <1>5. ErrorsStop(p)' /\ ResetsAreClean(p)' /\ ResultsAreCurrent(p)'
    BY <1>1, <1>3 DEF ErrorsStop, ResetsAreClean, ResultsAreCurrent, WillReserve
  <1> QED BY <1>2, <1>4, <1>5, OneClientSteps DEF ClientOK

\* A run that starts is the only one that is current, and of the present endpoint.
LEMMA CommittedRuns ==
  ASSUME ClientType, NEW p \in Peers, ClientOK(p), Commit(p), NEW r \in runs'[p]
  PROVE  /\ r.att <= attempt[p] /\ (resetting[p] => r.att < attempt[p])
         /\ r.live /\ r.att = attempt[p] =>
              started'[p] /\ local[p] # 0 /\ r.local = local[p]
  <1>1. ASSUME r \in Detached(p)
        PROVE  \E o \in runs[p] :
                 \/ r = o /\ "run" \notin dirty[p]
                 \/ r.att = o.att /\ r.local = o.local /\ r.live = FALSE
    BY <1>1 DEF Detached, ClientType, AllRuns
  <1>2. CASE r \in Detached(p)
    <2>1. PICK o \in runs[p] :
            \/ r = o /\ "run" \notin dirty[p]
            \/ r.att = o.att /\ r.local = o.local /\ r.live = FALSE
      BY <1>1, <1>2
    <2>2. started[p] => started'[p]
      BY DEF Commit, Set, ClientType
    <2> QED BY <2>1, <2>2
            DEF ClientOK, AttemptsPass, ResetsAreClean, ResultsAreCurrent, Current
  <1>3. CASE r \notin Detached(p)
    <2>1. Starts(p) /\ r = NewRun(p) /\ started'[p]
      BY <1>3 DEF Commit, Set, ClientType
    <2>2. ~resetting[p] /\ local[p] # 0
      BY <2>1 DEF Starts, ClientOK, ResetsAreClean
    <2>3. r.att = attempt[p] /\ r.local = local[p]
      BY <2>1 DEF NewRun, ClientOK, SocketIsShown
    <2> QED BY <2>1, <2>2, <2>3 DEF ClientType
  <1> QED BY <1>2, <1>3

LEMMA CommitKeepsClients ==
  ASSUME ClientType, ClientType', ClientInv, NEW p \in Peers, Commit(p)
  PROVE  ClientInv'
  <1>0. ClientOK(p)
    BY DEF ClientInv
  <1>1. /\ dirty'[p] = {} /\ UNCHANGED <<attempt, resetting, local, relayed, report>>
        /\ \A q \in Peers \ {p} : dirty'[q] = dirty[q] /\ prep'[q] = prep[q]
    BY DEF Commit, Set, ClientType, control
  <1>2. /\ started[p] => started'[p]
        /\ \/ started'[p] = started[p] /\ slot'[p] = slot[p] /\ err'[p] = err[p]
           \/ started'[p] /\ (slot'[p].kind # "prepared" \/ slot'[p] = slot[p])
        /\ \A q \in Peers \ {p} : /\ runs'[q] = runs[q] /\ started'[q] = started[q]
                                 /\ err'[q] = err[q] /\ slot'[q] = slot[q]
    <2>1. CASE Starts(p)
      <3>1. PICK r \in {NewRun(p)} :
              /\ runs' = Set(runs, p, Detached(p) \union {r}) /\ started' = Set(started, p, TRUE)
              /\ err' = Set(err, p, r.st # "direct")
              /\ slot' = IF r.st = "direct" THEN Set(slot, p, Running(r.att, r.local)) ELSE slot
        BY <2>1 DEF Commit
      <3>2. slot'[p].kind # "prepared" \/ slot'[p] = slot[p]
        BY <3>1 DEF Set, Running, ClientType
      <3> QED BY <3>1, <3>2 DEF Set, ClientType
    <2>2. CASE ~Starts(p)
      BY <2>2 DEF Commit, Set, ClientType
    <2> QED BY <2>1, <2>2
  <1>3. \A q \in Peers \ {p} : Same(q)
    BY <1>1, <1>2 DEF Same
  <1>4. \/ prep'[p] = prep[p] /\ ~("prep" \in dirty[p])
        \/ prep'[p] = Idle
        \/ /\ prep'[p] = [st |-> "reserving", att |-> attempt[p], id |-> 0]
           /\ WillReserve(p)
    BY DEF Commit, Set, ClientType, WillReserve
  <1>5. AttemptsPass(p)' /\ SocketIsShown(p)'
    <2>1. AttemptsPass(p)'
      BY <1>0, <1>1, <1>4, CommittedRuns DEF ClientOK, AttemptsPass, Idle, ClientType
    <2>2. SocketIsShown(p)'
      BY <1>0, <1>1, <1>2, <1>4 DEF ClientOK, SocketIsShown, WillReserve, Idle
    <2> QED BY <2>1, <2>2
  <1>6. ~WillReserve(p)'
    BY <1>1 DEF WillReserve
  <1>7. NotPreparing(p) /\ ~WillReserve(p) => NotPreparing(p)'
    BY <1>1, <1>4 DEF NotPreparing, Idle
  <1>8. ErrorsStop(p)'
    BY <1>0, <1>1, <1>2, <1>6, <1>7 DEF ClientOK, ErrorsStop, WillReserve
  <1>9. ResetsAreClean(p)'
    BY <1>0, <1>1, <1>2, <1>6, <1>7, CommittedRuns DEF ClientOK, ResetsAreClean
  <1>10. ResultsAreCurrent(p)'
    BY <1>0, <1>1, <1>2, CommittedRuns DEF ClientOK, ResultsAreCurrent, Current
  <1> QED BY <1>3, <1>5, <1>8, <1>9, <1>10, OneClientSteps DEF ClientOK

LEMMA RunKeepsClients ==
  ASSUME ClientType, ClientType', ClientInv, NEW p \in Peers, Run(p)
  PROVE  ClientInv'
  <1>0. ClientOK(p)
    BY DEF ClientInv
  <1>1. PICK r \in runs[p] :
          RunSucceeds(p, r) \/ DirectFails(p, r) \/ RelayStarts(p, r) \/ RelayFails(p, r)
    BY DEF Run
  <1>2. r \in AllRuns
    BY DEF ClientType
  <1>3. UNCHANGED <<attempt, resetting, local, relayed, started, dirty, prep>>
    BY <1>1 DEF RunSucceeds, DirectFails, RelayStarts, RelayFails, Fails, screen, control
  <1>4. /\ \A o \in runs'[p] : \E b \in runs[p] :
             o.att = b.att /\ o.live = b.live /\ o.local = b.local
        /\ \A q \in Peers \ {p} : runs'[q] = runs[q]
    <2>1. PICK s : /\ runs' = [runs EXCEPT ![p] = s]
                   /\ \/ s = runs[p] \ {r}
                      \/ s = (runs[p] \ {r}) \union {[r EXCEPT !.st = "ticket"]}
                      \/ s = (runs[p] \ {r}) \union {[r EXCEPT !.st = "relay"]}
      BY <1>1 DEF RunSucceeds, Returns, DirectFails, RelayStarts, RelayFails, Set
    <2>2. /\ [r EXCEPT !.st = "ticket"].att = r.att /\ [r EXCEPT !.st = "relay"].att = r.att
          /\ [r EXCEPT !.st = "ticket"].live = r.live /\ [r EXCEPT !.st = "relay"].live = r.live
          /\ [r EXCEPT !.st = "ticket"].local = r.local /\ [r EXCEPT !.st = "relay"].local = r.local
      BY <1>2 DEF AllRuns
    <2> QED BY <2>1, <2>2 DEF ClientType
  <1>5. /\ slot[p].kind = "prepared" => slot'[p] = slot[p]
        /\ slot'[p].kind = "prepared" => slot'[p] = slot[p]
        /\ \A q \in Peers \ {p} : slot'[q] = slot[q]
    <2>1. \/ slot' = slot
          \/ slot[p] = Running(r.att, r.local) /\ slot' = Set(slot, p, NoSlot)
          \/ slot[p] = NoSlot /\ slot' = Set(slot, p, Running(r.att, r.local))
      BY <1>1 DEF RunSucceeds, Returns, DirectFails, RelayStarts, RelayFails, Released
    <2> QED BY <2>1 DEF ClientType, Set, NoSlot, Running
  <1>6. /\ err'[p] => err[p] \/ Current(p, r)
        /\ \A q \in Peers \ {p} : err'[q] = err[q] /\ report'[q] = report[q]
        /\ report'[p] # report[p] => Current(p, r) /\ report'[p].local = r.local
    <2>1. CASE RunSucceeds(p, r)
      BY <2>1 DEF RunSucceeds, ClientType, Set
    <2>2. CASE DirectFails(p, r) \/ RelayFails(p, r)
      BY <2>2 DEF DirectFails, RelayFails, Fails, ClientType, Set
    <2>3. CASE RelayStarts(p, r)
      BY <2>3 DEF RelayStarts, screen
    <2> QED BY <1>1, <2>1, <2>2, <2>3
  <1>7. \A q \in Peers \ {p} : Same(q)
    BY <1>3, <1>4, <1>5, <1>6 DEF Same
  <1>8. Current(p, r) => started[p] /\ local[p] # 0 /\ r.local = local[p]
    BY <1>0 DEF ClientOK, ResultsAreCurrent
  <1>9. AttemptsPass(p)' /\ SocketIsShown(p)'
    <2>1. AttemptsPass(p)'
      BY <1>0, <1>3, <1>4 DEF ClientOK, AttemptsPass
    <2>2. SocketIsShown(p)'
      BY <1>0, <1>3, <1>5 DEF ClientOK, SocketIsShown, Prepared
    <2> QED BY <2>1, <2>2
  <1>10. ErrorsStop(p)'
    BY <1>0, <1>3, <1>6, <1>8 DEF ClientOK, ErrorsStop, WillReserve, NotPreparing
  <1>11. ResetsAreClean(p)'
    BY <1>0, <1>3, <1>4 DEF ClientOK, ResetsAreClean, WillReserve, NotPreparing
  <1>12. ResultsAreCurrent(p)'
    BY <1>0, <1>3, <1>4, <1>6, <1>8 DEF ClientOK, ResultsAreCurrent, Current
  <1> QED BY <1>7, <1>9, <1>10, <1>11, <1>12, OneClientSteps DEF ClientOK

LEMMA ClientInvStep ==
  ASSUME NetType, ClientType, ClientInv, [Next]_vars
  PROVE  ClientInv'
  <1>1. ClientType'
    BY TypesStep
  <1>2. CASE UNCHANGED vars
    BY <1>1, <1>2, NetKeepsClients DEF Peers
  <1>3. CASE Next
    BY <1>1, <1>3, NetKeepsClients, PreparationSteps, ReceiveKeepsClients, ReserveKeepsClients,
       CommitKeepsClients, RunKeepsClients, RetryKeepsClients, ResetKeepsClients DEF Next
  <1> QED BY <1>2, <1>3

-----------------------------------------------------------------------------
(* The invariant of sessions *)

\* p has probed, or will, with its nonce n and its peer's nonce m.
Met(p, n, m) ==
  \/ \E st \in {"direct", "relay"} : <<p, st, n, m>> \in tried
  \/ \E r \in runs[p] : r.local = n /\ r.peer = m

\* Nonces that travel have been made; the present one is the newest.
NoneAbove(messages, k) == \A i \in 1 .. Len(messages) : messages[i].nonce <= k

NoncesTravel ==
  \A p \in Peers :
    /\ local[p] \in {0, made[p]} /\ peer[p] <= made[Other(p)]
    /\ NoneAbove(outbox[p], made[p]) /\ NoneAbove(inbox[p], made[Other(p)])

NoncesAreMade ==
  \A p \in Peers : \A n, m : Met(p, n, m) => n \in 1 .. made[p] /\ m \in 1 .. made[Other(p)]

\* A nonce is probed with one nonce of the peer.
OneSession ==
  \A p \in Peers :
    /\ \A n, m, k : Met(p, n, m) /\ Met(p, n, k) => m = k
    /\ local[p] # 0 /\ ~started[p] => \A m : ~Met(p, local[p], m)

\* Of two nonces one was made first, and could be probed with older ones only.
NoCrossing ==
  \A p \in Peers : \A a, b, c, d :
    Met(p, a, b) /\ Met(Other(p), c, d) => ~(a < d /\ c < b)

RunsAreTried ==
  \A p \in Peers : \A r \in runs[p] :
    r.st # "ticket" => <<p, r.st, r.local, r.peer>> \in tried

ReportsAreTried ==
  \A p \in Peers : report[p] # NoReport =>
    /\ report[p].route \in {"direct", "relay"}
    /\ <<p, report[p].route, report[p].local, report[p].peer>> \in tried
    /\ <<Other(p), report[p].route, report[p].peer, report[p].local>> \in tried

SessionInv ==
  /\ NoncesTravel /\ NoncesAreMade /\ OneSession /\ NoCrossing
  /\ RunsAreTried /\ ReportsAreTried

LEMMA SessionInvInit == Init => SessionInv
  <1> SUFFICES ASSUME Init PROVE SessionInv
    OBVIOUS
  <1>1. \A p \in Peers : \A n, m : ~Met(p, n, m)
    BY DEF Init, Met
  <1>2. NoncesTravel
    BY OtherIsPeer DEF Init, NoncesTravel, NoneAbove
  <1> QED BY <1>1, <1>2
          DEF Init, SessionInv, NoncesAreMade, OneSession, NoCrossing, RunsAreTried,
              ReportsAreTried

LEMMA NoneAboveHead ==
  ASSUME NEW S, NEW s \in Seq(S), s # << >>, NEW k, NoneAbove(s, k)
  PROVE  Head(s) \in S /\ Head(s).nonce <= k /\ NoneAbove(Tail(s), k)
  <1>1. Head(s) = s[1] /\ 1 \in 1 .. Len(s) /\ Head(s) \in S
    OBVIOUS
  <1>2. \A i \in 1 .. Len(Tail(s)) : i + 1 \in 1 .. Len(s) /\ Tail(s)[i] = s[i + 1]
    OBVIOUS
  <1> QED BY <1>1, <1>2 DEF NoneAbove

LEMMA NoneAboveAppend ==
  ASSUME NEW S, NEW s \in Seq(S), NEW k, NoneAbove(s, k), NEW m \in S, m.nonce <= k
  PROVE  NoneAbove(Append(s, m), k)
  BY DEF NoneAbove

LEMMA NoneAboveMore ==
  ASSUME NEW s, s \in Seq(Messages) \/ s \in Seq(Requests), NEW k \in Nat, NEW j \in Nat,
         k <= j, NoneAbove(s, k)
  PROVE  NoneAbove(s, j)
  <1>1. \A i \in 1 .. Len(s) : s[i].nonce \in Nat
    <2>1. \A i \in 1 .. Len(s) : s[i] \in Messages \/ s[i] \in Requests
      OBVIOUS
    <2> QED BY <2>1 DEF Messages, Requests
  <1> QED BY <1>1 DEF NoneAbove

\* What goes to and fro between the clients.
LEMMA SentTravels ==
  ASSUME NetType, NEW p \in Peers, NEW n \in Nat, NEW k \in Nat, Sent(p, n), n <= k,
         NoneAbove(outbox[p], k)
  PROVE  NoneAbove(outbox'[p], k) /\ \A q \in Peers \ {p} : outbox'[q] = outbox[q]
  <1>1. CASE link[p]
    <2>1. PICK m : m = [id |-> sends[p] + 1, nonce |-> n]
      OBVIOUS
    <2>2. outbox' = [outbox EXCEPT ![p] = Append(@, m)]
      BY <1>1, <2>1 DEF Sent
    <2>3. outbox'[p] = Append(outbox[p], m) /\ \A q \in Peers \ {p} : outbox'[q] = outbox[q]
      BY <2>2 DEF NetType
    <2> QED BY <2>1, <2>3 DEF NetType, NoneAbove
  <1>2. CASE ~link[p]
    BY <1>2 DEF Sent
  <1> QED BY <1>1, <1>2

LEMMA TravelStep ==
  ASSUME NetType, ClientType, ClientInv, NoncesTravel, NEW p \in Peers,
         \/ Connect(p) \/ Lose(p) \/ Notice(p) \/ Route(p) \/ ReserveFails(p) \/ Reserve(p)
         \/ Timeout(p) \/ Resend(p) \/ Receive(p) \/ Commit(p) \/ Run(p) \/ Retry(p) \/ Reset(p)
  PROVE  NoncesTravel'
  <1> USE DEF NoncesTravel
  <1>1. CASE \/ Connect(p) \/ Notice(p) \/ ReserveFails(p) \/ Timeout(p) \/ Commit(p) \/ Run(p)
             \/ Retry(p)
    BY <1>1 DEF Connect, Notice, ReserveFails, Timeout, Commit, Run, RunSucceeds, DirectFails,
                RelayStarts, RelayFails, Fails, Retry, net, native, screen, control
  <1>2. CASE Lose(p)
    BY <1>2 DEF Lose, NetType, NoneAbove, native, Set
  <1>3. CASE Route(p)
    <2>0. outbox[p] \in Seq(Requests) /\ outbox[p] # << >> /\ NoneAbove(outbox[p], made[p])
      BY <1>3 DEF Route, NetType
    <2>1. PICK m \in Requests : m = Head(outbox[p]) /\ m.nonce <= made[p]
      BY <2>0, NoneAboveHead
    <2>2. PICK reply \in Messages, push \in Messages :
            /\ reply = [kind |-> "reply", id |-> m.id, nonce |-> 0]
            /\ push = [kind |-> "endpoint", id |-> 0, nonce |-> m.nonce]
      BY DEF Messages, Requests
    <2>3. /\ inbox' = [inbox EXCEPT ![p] = Append(@, reply),
             ![Other(p)] = IF hub[Other(p)] /\ link[Other(p)] THEN Append(@, push) ELSE @]
          /\ outbox' = Set(outbox, p, Tail(outbox[p])) /\ outbox[p] # << >>
          /\ UNCHANGED <<made, local, peer>>
      BY <1>3, <2>1, <2>2 DEF Route, native, screen
    <2>4. NoneAbove(Append(inbox[p], reply), made[Other(p)])
      <3>1. /\ inbox[p] \in Seq(Messages) /\ NoneAbove(inbox[p], made[Other(p)])
            /\ reply.nonce <= made[Other(p)]
        BY <2>2, OtherIsPeer DEF NetType, ClientType
      <3> QED BY <3>1, NoneAboveAppend
    <2>5. NoneAbove(Append(inbox[Other(p)], push), made[p])
      <3>1. /\ inbox[Other(p)] \in Seq(Messages) /\ NoneAbove(inbox[Other(p)], made[p])
            /\ push.nonce <= made[p]
        BY <2>1, <2>2, OtherIsPeer DEF NetType
      <3> QED BY <3>1, NoneAboveAppend
    <2>6. NoneAbove(Tail(outbox[p]), made[p])
      BY <2>0, NoneAboveHead
    <2>7. \A q \in Peers : NoneAbove(outbox'[q], made[q])
      BY <2>3, <2>6 DEF Set, NetType
    <2>8. /\ inbox'[p] = Append(inbox[p], reply)
          /\ inbox'[Other(p)] \in {Append(inbox[Other(p)], push), inbox[Other(p)]}
      BY <2>3, OtherIsPeer DEF NetType
    <2>9. \A q \in Peers : NoneAbove(inbox'[q], made[Other(q)])
      <3>1. NoneAbove(inbox[Other(p)], made[p])
        BY OtherIsPeer
      <3>2. \A q \in Peers : q = p \/ q = Other(p)
        BY DEF Peers, Other
      <3> QED BY <2>4, <2>5, <2>8, <3>1, <3>2, OtherIsPeer
    <2> QED BY <2>3, <2>7, <2>9
  <1>4. CASE Resend(p)
    <2>1. NoneAbove(outbox'[p], made[p]) /\ \A q \in Peers \ {p} : outbox'[q] = outbox[q]
      <3>1. CASE Abandoned(p)
        BY <1>4, <3>1 DEF Resend
      <3>2. CASE ~Abandoned(p)
        <4>1. Sent(p, local[p]) /\ local[p] \in Nat /\ made[p] \in Nat /\ local[p] <= made[p]
          BY <1>4, <3>2 DEF Resend, ClientType
        <4> QED BY <4>1, SentTravels
      <3> QED BY <3>1, <3>2
    <2> QED BY <1>4, <2>1 DEF Resend, native
  <1>5. CASE Reserve(p)
    <2>0. /\ prep[p].st = "reserving" /\ local[p] = 0 /\ slot[p].kind # "prepared"
      BY <1>5 DEF Reserve, ClientInv, ClientOK, SocketIsShown
    <2>1. made' = [made EXCEPT ![p] = @ + 1] /\ UNCHANGED <<inbox, peer>>
      BY <1>5, <2>0 DEF Reserve, Candidate, Set, ClientType
    <2>2. /\ made'[p] = made[p] + 1 /\ made[p] \in Nat
          /\ \A q \in Peers \ {p} : made'[q] = made[q]
      BY <2>1 DEF ClientType
    <2>3. /\ NoneAbove(outbox'[p], made'[p]) /\ \A q \in Peers \ {p} : outbox'[q] = outbox[q]
          /\ local'[p] \in {0, made'[p]} /\ \A q \in Peers \ {p} : local'[q] = local[q]
      <3>0. NoneAbove(outbox[p], made'[p])
        <4>1. outbox[p] \in Seq(Requests) /\ made'[p] \in Nat /\ made[p] <= made'[p]
          BY <2>2 DEF NetType
        <4> QED BY <2>2, <4>1, NoneAboveMore
      <3>1. CASE prep[p].att = attempt[p]
        <4>1. PICK n \in Nat : n = made[p] + 1
          BY <2>2
        <4>2. Sent(p, n) /\ local' = Set(local, p, n)
          BY <1>5, <2>0, <3>1, <4>1 DEF Reserve, Candidate
        <4>3. NoneAbove(outbox'[p], made'[p]) /\ \A q \in Peers \ {p} : outbox'[q] = outbox[q]
          BY <2>2, <3>0, <4>1, <4>2, SentTravels
        <4> QED BY <2>2, <4>1, <4>2, <4>3 DEF Set, ClientType
      <3>2. CASE prep[p].att # attempt[p]
        BY <1>5, <2>0, <3>0, <3>2 DEF Reserve
      <3> QED BY <3>1, <3>2
    <2>4. \A q \in Peers : made[q] <= made'[q] /\ made[q] \in Nat /\ made'[q] \in Nat
      BY <2>2 DEF ClientType
    <2>5. \A q \in Peers : peer'[q] <= made'[Other(q)] /\ NoneAbove(inbox'[q], made'[Other(q)])
      <3> TAKE q \in Peers
      <3>1. /\ peer[q] \in Nat /\ peer[q] <= made[Other(q)] /\ Other(q) \in Peers
            /\ inbox[q] \in Seq(Messages) /\ NoneAbove(inbox[q], made[Other(q)])
        BY OtherIsPeer DEF NetType, ClientType
      <3>2. NoneAbove(inbox[q], made'[Other(q)])
        BY <2>4, <3>1, NoneAboveMore
      <3> QED BY <2>1, <2>4, <3>1, <3>2
    <2> QED BY <2>2, <2>3, <2>5
  <1>6. CASE Receive(p)
    <2>0. /\ inbox[p] \in Seq(Messages) /\ inbox[p] # << >>
          /\ NoneAbove(inbox[p], made[Other(p)])
      BY <1>6 DEF Receive, NetType
    <2>1. PICK m \in Messages : m = Head(inbox[p]) /\ m.nonce <= made[Other(p)]
      BY <2>0, NoneAboveHead
    <2>2. /\ peer' = IF m.kind = "endpoint" THEN Set(peer, p, m.nonce) ELSE peer
          /\ inbox' = Set(inbox, p, Tail(inbox[p])) /\ inbox[p] # << >>
          /\ UNCHANGED <<made, local, outbox>>
      BY <1>6, <2>1 DEF Receive, native
    <2>3. NoneAbove(Tail(inbox[p]), made[Other(p)])
      BY <2>0, NoneAboveHead
    <2> QED BY <2>1, <2>2, <2>3 DEF Set, NetType, ClientType
  <1>7. CASE Reset(p)
    <2>1. /\ local' = Set(local, p, 0) /\ peer' = Set(peer, p, 0)
          /\ UNCHANGED <<made, outbox, inbox>>
      BY <1>7 DEF Reset, net
    <2> QED BY <2>1, OtherIsPeer DEF Set, ClientType
  <1> QED BY <1>1, <1>2, <1>3, <1>4, <1>5, <1>6, <1>7

\* Four actions change what the rest is about.
LEMMA SessionSteps ==
  ASSUME [Next]_vars
  PROVE  \/ UNCHANGED <<made, local, started, report, runs, tried>>
         \/ \E p \in Peers : Reserve(p) \/ Commit(p) \/ Run(p) \/ Reset(p)
  <1>1. CASE UNCHANGED vars
    BY <1>1 DEF vars, native, screen
  <1>2. ASSUME NEW p \in Peers,
               Connect(p) \/ Lose(p) \/ Notice(p) \/ Route(p) \/ Retry(p)
        PROVE  UNCHANGED <<made, local, started, report, runs, tried>>
    BY <1>2 DEF Connect, Lose, Notice, Route, Retry, native, screen
  <1>3. ASSUME NEW p \in Peers, ReserveFails(p) \/ Timeout(p) \/ Resend(p) \/ Receive(p)
        PROVE  UNCHANGED <<made, local, started, report, runs, tried>>
    BY <1>3 DEF ReserveFails, Timeout, Resend, Receive, native
  <1> QED BY <1>1, <1>2, <1>3 DEF Next

\* The only new pair of nonces is that of a run which starts; it has the present nonces.
LEMMA MetStep ==
  ASSUME ClientType, ClientInv, [Next]_vars
  PROVE  /\ tried \subseteq tried'
         /\ \A q \in Peers : \A n, m : Met(q, n, m)' =>
              Met(q, n, m) \/ (/\ Commit(q) /\ Starts(q)
                             /\ n = local[q] /\ m = peer[q])
  <1> DEFINE New(q, n, m) == Commit(q) /\ Starts(q) /\ n = local[q] /\ m = peer[q]
  <1>1. ASSUME NEW p \in Peers, Commit(p)
        PROVE  /\ tried \subseteq tried'
               /\ \A q \in Peers : \A n, m : Met(q, n, m)' => Met(q, n, m) \/ New(q, n, m)
    <2>1. CASE ~Starts(p)
      <3>1. tried' = tried /\ runs' = [runs EXCEPT ![p] = Detached(p)]
        BY <1>1, <2>1 DEF Commit, Set
      <3>2. \A r \in Detached(p) : \E o \in runs[p] : r.local = o.local /\ r.peer = o.peer
        BY DEF Detached, ClientType, AllRuns
      <3> QED BY <3>1, <3>2 DEF Met, ClientType
    <2>2. CASE Starts(p)
      <3>0. ClientOK(p)
        BY DEF ClientInv
      <3>r. NewRun(p).local = local[p] /\ NewRun(p).peer = peer[p]
        BY <3>0 DEF NewRun, ClientOK, SocketIsShown
      <3>1. PICK r : r = NewRun(p) /\ r.local = local[p] /\ r.peer = peer[p]
        BY <3>r
      <3>2. /\ runs' = [runs EXCEPT ![p] = Detached(p) \union {r}]
            /\ tried' \in {tried, tried \union {<<p, "direct", r.local, r.peer>>}}
        BY <1>1, <2>2, <3>1 DEF Commit, Set
      <3>3. \A o \in Detached(p) : \E b \in runs[p] : o.local = b.local /\ o.peer = b.peer
        BY DEF Detached, ClientType, AllRuns
      <3>4. \A q \in Peers : \A n, m : Met(q, n, m)' =>
              Met(q, n, m) \/ (q = p /\ n = r.local /\ m = r.peer)
        BY <3>2, <3>3 DEF Met, ClientType
      <3> QED BY <1>1, <2>2, <3>1, <3>2, <3>4
    <2> QED BY <2>1, <2>2
  <1>2. ASSUME NEW p \in Peers, Run(p)
        PROVE  /\ tried \subseteq tried'
               /\ \A q \in Peers : \A n, m : Met(q, n, m)' => Met(q, n, m)
    <2>1. PICK r \in runs[p] :
            RunSucceeds(p, r) \/ DirectFails(p, r) \/ RelayStarts(p, r) \/ RelayFails(p, r)
      BY <1>2 DEF Run
    <2>2. tried' \in {tried, tried \union {<<p, "relay", r.local, r.peer>>}}
      BY <2>1 DEF RunSucceeds, DirectFails, RelayStarts, RelayFails
    <2>3. PICK s : /\ runs' = [runs EXCEPT ![p] = s]
                   /\ s \subseteq runs[p] \union {[r EXCEPT !.st = "ticket"], [r EXCEPT !.st = "relay"]}
      BY <2>1 DEF RunSucceeds, Returns, DirectFails, RelayStarts, RelayFails, Set
    <2>4. /\ [r EXCEPT !.st = "ticket"].local = r.local /\ [r EXCEPT !.st = "relay"].local = r.local
          /\ [r EXCEPT !.st = "ticket"].peer = r.peer /\ [r EXCEPT !.st = "relay"].peer = r.peer
      BY DEF ClientType, AllRuns
    <2>5. \A o \in s : \E b \in runs[p] : o.local = b.local /\ o.peer = b.peer
      BY <2>3, <2>4
    <2> QED BY <2>2, <2>3, <2>5 DEF Met, ClientType
  <1>3. CASE UNCHANGED <<tried, runs>>
    BY <1>3 DEF Met
  <1>4. ASSUME NEW p \in Peers, Reserve(p) \/ Reset(p) PROVE UNCHANGED <<tried, runs>>
    BY <1>4 DEF Reserve, Reset
  <1> QED BY <1>1, <1>2, <1>3, <1>4, SessionSteps

LEMMA SessionsStep ==
  ASSUME NetType, ClientType, ClientType', ClientInv, SessionInv, NoncesTravel', [Next]_vars
  PROVE  NoncesAreMade' /\ OneSession' /\ NoCrossing'
  <1> DEFINE New(q, n, m) == Commit(q) /\ Starts(q) /\ n = local[q] /\ m = peer[q]
  <1>1. \A q \in Peers : \A n, m : Met(q, n, m)' => Met(q, n, m) \/ New(q, n, m)
    BY MetStep
  <1>2. ASSUME NEW q \in Peers, NEW n, NEW m, New(q, n, m)
        PROVE  /\ n = made[q] /\ n \in Nat \ {0} /\ m \in 1 .. made[Other(q)]
               /\ started'[q] /\ \A k : ~Met(q, n, k)
    <2>1. /\ local[q] # 0 /\ peer[q] # 0 /\ ~started[q] /\ started'[q]
      BY <1>2 DEF Starts, Commit, Set, ClientType
    <2> QED BY <1>2, <2>1, OtherIsPeer
            DEF SessionInv, NoncesTravel, OneSession, ClientType
  <1>3. \A q \in Peers : made[q] \in Nat /\ made'[q] \in Nat /\ made[q] <= made'[q]
    <2>1. ASSUME NEW p \in Peers, Reserve(p)
          PROVE  made' = made \/ made' = Set(made, p, made[p] + 1)
      BY <2>1 DEF Reserve, Candidate
    <2>2. ASSUME NEW p \in Peers, Commit(p) \/ Reset(p) PROVE made' = made
      BY <2>2 DEF Commit, Reset
    <2>3. ASSUME NEW p \in Peers, Run(p) PROVE made' = made
      BY <2>3 DEF Run, RunSucceeds, DirectFails, RelayStarts, RelayFails, Fails
    <2>4. made' = made \/ \E p \in Peers : made' = Set(made, p, made[p] + 1)
      BY <2>1, <2>2, <2>3, SessionSteps
    <2> QED BY <2>4 DEF Set, ClientType
  <1> HIDE DEF New
  <1>4. NoncesAreMade'
    <2> SUFFICES ASSUME NEW q \in Peers, NEW n, NEW m, Met(q, n, m)'
                 PROVE  n \in 1 .. made'[q] /\ m \in 1 .. made'[Other(q)]
      BY DEF NoncesAreMade
    <2>1. n \in 1 .. made[q] /\ m \in 1 .. made[Other(q)]
      BY <1>1, <1>2, <1>3 DEF SessionInv, NoncesAreMade
    <2> QED BY <1>3, <2>1, OtherIsPeer
  <1>5. OneSession'
    <2>1. ASSUME NEW q \in Peers, NEW n, NEW m, NEW k, Met(q, n, m)', Met(q, n, k)' PROVE m = k
      <3>1. CASE Met(q, n, m) /\ Met(q, n, k)
        BY <3>1 DEF SessionInv, OneSession
      <3>2. CASE New(q, n, m) /\ New(q, n, k)
        BY <3>2 DEF New
      <3> QED BY <1>1, <1>2, <2>1, <3>1, <3>2
    <2>2. ASSUME NEW q \in Peers, local'[q] # 0, ~started'[q],
                 NEW n, n = local'[q], NEW m, Met(q, n, m)'
          PROVE  FALSE
      <3>1. Met(q, n, m)
        BY <1>1, <1>2, <2>2
      <3>2. local'[q] # local[q] => local'[q] = made[q] + 1
        <4>1. ASSUME NEW p \in Peers, Reserve(p), local'[q] # local[q]
              PROVE  local'[q] = made[q] + 1
          BY <4>1 DEF Reserve, Candidate, Set, ClientType, ClientInv, ClientOK, SocketIsShown
        <4>2. ASSUME NEW p \in Peers, Reset(p), local'[q] # local[q] PROVE FALSE
          BY <2>2, <4>2 DEF Reset, Set, ClientType
        <4>3. ASSUME NEW p \in Peers, Commit(p) PROVE local' = local
          BY <4>3 DEF Commit
        <4>4. ASSUME NEW p \in Peers, Run(p) PROVE local' = local
          BY <4>4 DEF Run, RunSucceeds, DirectFails, RelayStarts, RelayFails, Fails
        <4> QED BY <4>1, <4>2, <4>3, <4>4, SessionSteps
      <3>3. local'[q] = local[q]
        BY <1>3, <2>2, <3>1, <3>2 DEF SessionInv, NoncesAreMade
      <3>4. started[q]
        BY <2>2, <3>1, <3>3 DEF SessionInv, OneSession
      <3>5. started'[q] = started[q] \/ started'[q] \/ local'[q] = 0
        <4>1. ASSUME NEW p \in Peers, Commit(p) PROVE <3>5
          BY <4>1 DEF Commit, Set, ClientType
        <4>2. ASSUME NEW p \in Peers, Reset(p) PROVE <3>5
          BY <4>2 DEF Reset, Set, ClientType
        <4>3. CASE started' = started
          BY <4>3
        <4>4. ASSUME NEW p \in Peers, Run(p) PROVE started' = started
          BY <4>4 DEF Run, RunSucceeds, DirectFails, RelayStarts, RelayFails, Fails, screen
        <4>5. ASSUME NEW p \in Peers, Reserve(p) PROVE started' = started
          BY <4>5 DEF Reserve
        <4> QED BY <4>1, <4>2, <4>3, <4>4, <4>5, SessionSteps
      <3> QED BY <2>2, <3>4, <3>5
    <2>3. ASSUME NEW q \in Peers, local'[q] # 0, ~started'[q]
          PROVE  \A m : ~Met(q, local[q], m)'
      <3> SUFFICES ASSUME NEW m, Met(q, local[q], m)' PROVE FALSE
        OBVIOUS
      <3>1. PICK n : n = local'[q]
        OBVIOUS
      <3>2. Met(q, n, m)'
        BY <3>1 DEF Met
      <3> QED BY <2>2, <2>3, <3>1, <3>2
    <2> QED BY <2>1, <2>3 DEF OneSession
  <1>6. NoCrossing'
    <2> SUFFICES ASSUME NEW q \in Peers, NEW a, NEW b, NEW c, NEW d,
                        Met(q, a, b)', Met(Other(q), c, d)', a < d, c < b
                 PROVE  FALSE
      BY DEF NoCrossing
    <2>1. Other(q) \in Peers /\ Other(Other(q)) = q
      BY OtherIsPeer
    <2>2. /\ a \in 1 .. made[q] /\ b \in 1 .. made[Other(q)]
          /\ c \in 1 .. made[Other(q)] /\ d \in 1 .. made[q]
      BY <1>1, <1>2, <1>3, <2>1 DEF SessionInv, NoncesAreMade
    <2>3. CASE Met(q, a, b) /\ Met(Other(q), c, d)
      BY <2>3 DEF SessionInv, NoCrossing
    <2>4. CASE New(q, a, b)
      BY <1>2, <1>3, <2>2, <2>4
    <2>5. CASE New(Other(q), c, d)
      BY <1>2, <1>3, <2>1, <2>2, <2>5
    <2> QED BY <1>1, <2>1, <2>3, <2>4, <2>5
  <1> QED BY <1>4, <1>5, <1>6

LEMMA TriedStep ==
  ASSUME ClientType, ClientInv, RunsAreTried, ReportsAreTried, [Next]_vars
  PROVE  RunsAreTried' /\ ReportsAreTried'
  <1>0. tried \subseteq tried'
    BY MetStep
  <1>1. ASSUME NEW p \in Peers, Commit(p) PROVE RunsAreTried' /\ report' = report
    <2>1. \A r \in Detached(p) : \E o \in runs[p] :
            r.st = o.st /\ r.local = o.local /\ r.peer = o.peer
      BY DEF Detached, ClientType, AllRuns
    <2>2. \A r \in Detached(p) : r.st # "ticket" => <<p, r.st, r.local, r.peer>> \in tried'
      BY <1>0, <2>1 DEF RunsAreTried
    <2>3. /\ \A q \in Peers \ {p} : runs'[q] = runs[q]
          /\ \A r \in runs'[p] : r \in Detached(p) \/ (Starts(p) /\ r = NewRun(p))
      <3>1. \E s \in {Detached(p), Detached(p) \union {NewRun(p)}} :
              /\ runs' = [runs EXCEPT ![p] = s] /\ (s = Detached(p) \/ Starts(p))
        BY <1>1 DEF Commit, Set
      <3> QED BY <3>1 DEF ClientType
    <2>4. Starts(p) /\ NewRun(p).st # "ticket" =>
            <<p, NewRun(p).st, NewRun(p).local, NewRun(p).peer>> \in tried'
      <3>1. NewRun(p).st # "ticket" => NewRun(p).st = "direct"
        BY DEF NewRun
      <3> QED BY <1>1, <3>1 DEF Commit
    <2>5. RunsAreTried'
      BY <1>0, <2>2, <2>3, <2>4 DEF RunsAreTried
    <2> QED BY <1>1, <2>5 DEF Commit
  <1>2. ASSUME NEW p \in Peers, Run(p) PROVE RunsAreTried' /\ ReportsAreTried'
    <2>1. PICK r \in runs[p] :
            RunSucceeds(p, r) \/ DirectFails(p, r) \/ RelayStarts(p, r) \/ RelayFails(p, r)
      BY <1>2 DEF Run
    <2>2. RunsAreTried'
      <3>1. \A o \in runs'[p] : o \in runs[p] \/ o.st = "ticket"
                               \/ (/\ o.st = "relay" /\ o.local = r.local /\ o.peer = r.peer
                                   /\ <<p, "relay", r.local, r.peer>> \in tried')
        <4>1. CASE RunSucceeds(p, r) \/ RelayFails(p, r)
          BY <4>1 DEF RunSucceeds, Returns, RelayFails, Set, ClientType
        <4>2. CASE DirectFails(p, r)
          <5>1. [r EXCEPT !.st = "ticket"].st = "ticket"
            BY DEF ClientType, AllRuns
          <5> QED BY <4>2, <5>1 DEF DirectFails, Set, ClientType
        <4>3. CASE RelayStarts(p, r)
          <5>1. PICK o : o = [r EXCEPT !.st = "relay"]
            OBVIOUS
          <5>2. o.st = "relay" /\ o.local = r.local /\ o.peer = r.peer
            BY <5>1 DEF ClientType, AllRuns
          <5>3. runs' = [runs EXCEPT ![p] = (runs[p] \ {r}) \union {o}]
            BY <4>3, <5>1 DEF RelayStarts, Set
          <5>4. /\ runs'[p] = (runs[p] \ {r}) \union {o}
                /\ <<p, "relay", r.local, r.peer>> \in tried'
            BY <4>3, <5>3 DEF RelayStarts, ClientType
          <5> QED BY <5>2, <5>4
        <4> QED BY <2>1, <4>1, <4>2, <4>3
      <3>2. \A q \in Peers \ {p} : runs'[q] = runs[q]
        BY <2>1 DEF RunSucceeds, Returns, DirectFails, RelayStarts, RelayFails, Set, ClientType
      <3> QED BY <1>0, <3>1, <3>2 DEF RunsAreTried
    <2>3. ReportsAreTried'
      <3>1. CASE report' = report
        BY <1>0, <3>1 DEF ReportsAreTried
      <3>2. CASE RunSucceeds(p, r) /\ report' # report
        <4>1. PICK w : /\ w = [local |-> r.local, peer |-> r.peer, route |-> r.st]
                       /\ report' = [report EXCEPT ![p] = w]
          BY <3>2 DEF RunSucceeds, Set
        <4>2. /\ w.route = r.st /\ w.local = r.local /\ w.peer = r.peer
              /\ report'[p] = w /\ \A q \in Peers \ {p} : report'[q] = report[q]
          BY <4>1 DEF ClientType
        <4>3. /\ r.st \in {"direct", "relay"} /\ <<Other(p), r.st, r.peer, r.local>> \in tried
          BY <3>2 DEF RunSucceeds, SameSession
        <4>4. <<p, r.st, r.local, r.peer>> \in tried
          BY <4>3 DEF RunsAreTried
        <4> QED BY <1>0, <4>2, <4>3, <4>4 DEF ReportsAreTried
      <3> QED BY <2>1, <3>1, <3>2 DEF DirectFails, RelayStarts, RelayFails, Fails, screen
    <2> QED BY <2>2, <2>3
  <1>3. ASSUME NEW p \in Peers, Reset(p) PROVE ReportsAreTried' /\ runs' = runs
    <2>1. report' = [report EXCEPT ![p] = NoReport] /\ runs' = runs
      BY <1>3 DEF Reset, Set
    <2>2. report'[p] = NoReport /\ \A q \in Peers \ {p} : report'[q] = report[q]
      BY <2>1 DEF ClientType
    <2> QED BY <1>0, <2>1, <2>2 DEF ReportsAreTried
  <1>4. report' = report => ReportsAreTried'
    BY <1>0 DEF ReportsAreTried
  <1>5. runs' = runs => RunsAreTried'
    BY <1>0 DEF RunsAreTried
  <1>6. ASSUME NEW p \in Peers, Reserve(p) PROVE report' = report /\ runs' = runs
    BY <1>6 DEF Reserve
  <1> QED BY <1>1, <1>2, <1>3, <1>4, <1>5, <1>6, SessionSteps

-----------------------------------------------------------------------------
(* The theorems *)

ExchangeInv == NetType /\ ClientType /\ ClientInv /\ SessionInv

LEMMA ExchangeInvHolds == Spec => []ExchangeInv
  <1>1. Init => ExchangeInv
    BY TypesInit, ClientInvInit, SessionInvInit DEF ExchangeInv
  <1>2. ASSUME ExchangeInv, [Next]_vars PROVE ExchangeInv'
    <2> USE <1>2 DEF ExchangeInv
    <2>1. NetType' /\ ClientType' /\ ClientInv'
      BY TypesStep, ClientInvStep
    <2>2. NoncesTravel'
      <3>1. CASE UNCHANGED vars
        BY <3>1 DEF vars, net, native, screen, SessionInv, NoncesTravel
      <3>2. CASE Next
        <4>1. PICK p \in Peers :
                \/ Connect(p) \/ Lose(p) \/ Notice(p) \/ Route(p) \/ ReserveFails(p) \/ Reserve(p)
                \/ Timeout(p) \/ Resend(p) \/ Receive(p) \/ Commit(p) \/ Run(p) \/ Retry(p)
                \/ Reset(p)
          BY <3>2 DEF Next
        <4> QED BY <4>1, TravelStep DEF SessionInv
      <3> QED BY <3>1, <3>2
    <2>3. NoncesAreMade' /\ OneSession' /\ NoCrossing' /\ RunsAreTried' /\ ReportsAreTried'
      BY <2>1, <2>2, SessionsStep, TriedStep DEF SessionInv
    <2> QED BY <2>1, <2>2, <2>3 DEF SessionInv
  <1> QED BY <1>1, <1>2, PTL DEF Spec

\* EndpointIsBacked: the endpoint a client shows and announces is that of the socket it
\* holds, whatever is late, retried, timed out or lost.
THEOREM EndpointsAreBacked == Spec => []EndpointIsBacked
  <1>1. ExchangeInv => EndpointIsBacked
    BY DEF ExchangeInv, ClientInv, ClientOK, SocketIsShown, EndpointIsBacked
  <1> QED BY <1>1, ExchangeInvHolds, PTL

\* ReportIsCurrent: no coroutine of an attempt that was retried shows its report.
THEOREM ReportsAreCurrent == Spec => []ReportIsCurrent
  <1>1. ExchangeInv => ReportIsCurrent
    BY DEF ExchangeInv, ClientInv, ClientOK, ResultsAreCurrent, ReportIsCurrent
  <1> QED BY <1>1, ExchangeInvHolds, PTL

\* ReportsAgree: two reports are of one session.  If a client's report named an older
\* nonce of its peer, each nonce shown would have been made after the other was known.
THEOREM ReportsAreOfOneSession == Spec => []ReportsAgree
  <1>1. ExchangeInv => ReportsAgree
    <2> SUFFICES ASSUME ExchangeInv, report["host"] # NoReport, report["guest"] # NoReport
                 PROVE  /\ report["host"].local = report["guest"].peer
                        /\ report["host"].peer = report["guest"].local
      BY DEF ReportsAgree
    <2> USE DEF ExchangeInv
    <2>1. PICK hl, hp, gl, gp :
            /\ hl = report["host"].local /\ hp = report["host"].peer
            /\ gl = report["guest"].local /\ gp = report["guest"].peer
      OBVIOUS
    <2>2. "host" \in Peers /\ "guest" \in Peers /\ Other("host") = "guest" /\ Other("guest") = "host"
      BY DEF Peers, Other
    <2>3. /\ Met("host", hl, hp) /\ Met("guest", hp, hl)
          /\ Met("guest", gl, gp) /\ Met("host", gp, gl)
      BY <2>1, <2>2 DEF SessionInv, ReportsAreTried, Met
    <2>4. hl = made["host"] /\ gl = made["guest"]
      BY <2>1, <2>2
         DEF ClientInv, ClientOK, ResultsAreCurrent, SessionInv, NoncesTravel
    <2>5. hp \in 1 .. gl /\ gp \in 1 .. hl /\ hl \in Nat /\ gl \in Nat
      BY <2>2, <2>3, <2>4 DEF SessionInv, NoncesAreMade, ClientType
    <2>6. gp = hl => hp = gl
      BY <2>2, <2>3 DEF SessionInv, OneSession
    <2>7. hp = gl => gp = hl
      BY <2>2, <2>3 DEF SessionInv, OneSession
    <2>8. ~(gp < hl /\ hp < gl)
      BY <2>2, <2>3 DEF SessionInv, NoCrossing
    <2> QED BY <2>1, <2>5, <2>6, <2>7, <2>8
  <1> QED BY <1>1, ExchangeInvHolds, PTL
=============================================================================
