-------------------------- MODULE EndpointExchange --------------------------
(***************************************************************************)
(* How the two clients of a CONNECTING room find each other: the hook      *)
(* useLanMatchProbe reserves a UDP socket natively (match_probe.rs), sends *)
(* its endpoint over the control WebSocket (ws.ts) through the server's    *)
(* hub (ws.rs), and probes the endpoint it receives, directly and then     *)
(* over the relay.                                                         *)
(*                                                                         *)
(* The hook is event-driven.  An effect is cleaned up and run again when   *)
(* React commits a render in which one of its dependencies changed; the    *)
(* coroutine that a cleaned-up effect had started goes on, but drops its   *)
(* results.  Commits, replies, timers and native calls interleave freely.  *)
(***************************************************************************)
EXTENDS Integers, Sequences

CONSTANTS
  RETRIES,  \* bound: presses of the retry button, per client
  SENDS,    \* bound: endpoint messages, per client
  LOSSES    \* bound: connections lost, in all

ASSUME ExchangeAssumption == RETRIES \in Nat /\ SENDS \in Nat /\ LOSSES \in Nat

Peers    == {"host", "guest"}
Other(p) == IF p = "host" THEN "guest" ELSE "host"

VARIABLES
  link,       \* the client's WebSocket is open
  hub,        \* the server's hub has a connection of the user
  outbox,     \* requests on their way to the server
  inbox,      \* messages on their way to the client
  slot,       \* MatchProbeState of the client, for this room
  made,       \* nonces generated by the client
  attempt,    \* probeAttempt
  resetting,  \* resetStarted: a retry has begun
  local,      \* nonce of localEndpoint, 0 without one
  relayed,    \* candidateRelayed
  peer,       \* nonce of peerEndpoint, 0 without one
  started,    \* probeStarted
  report,     \* probeReport
  err,        \* a probeError is shown
  dirty,      \* effects whose dependencies changed since the last commit
  prep,       \* the live coroutine of the preparation effect
  runs,       \* the coroutines of the probe effect
  sends,      \* endpoint messages sent
  losses,     \* connections lost
  tried       \* history: probes that have run, with their route and nonces

net     == <<link, hub, outbox, inbox, losses>>
native  == <<slot, made, tried>>
screen  == <<relayed, peer, started, report, err>>
control == <<attempt, resetting>>
vars    == <<net, native, screen, control, local, dirty, prep, runs, sends>>

NoSlot        == [kind |-> "none", nonce |-> 0, att |-> 0]
Prepared(n)   == [kind |-> "prepared", nonce |-> n, att |-> 0]
Running(a, n) == [kind |-> "running", nonce |-> n, att |-> a]

NoReport == [local |-> 0, peer |-> 0, route |-> "none"]
Idle     == [st |-> "idle", att |-> 0, id |-> 0]

Attempts == 0 .. RETRIES
Nonces   == 0 .. RETRIES + 1
Ids      == 0 .. SENDS + RETRIES + 1

TypeOK ==
  /\ link \in [Peers -> BOOLEAN] /\ hub \in [Peers -> BOOLEAN]
  /\ \A p \in Peers :
       /\ \A i \in 1 .. Len(outbox[p]) : outbox[p][i] \in [id : Ids, nonce : Nonces \ {0}]
       /\ \A i \in 1 .. Len(inbox[p]) :
            inbox[p][i] \in [kind : {"reply", "endpoint"}, id : Ids, nonce : Nonces]
       /\ slot[p] \in [kind : {"none", "prepared", "running"}, nonce : Nonces, att : Attempts]
       /\ report[p] \in [local : Nonces, peer : Nonces, route : {"none", "direct", "relay"}]
       /\ prep[p] \in [st : {"idle", "reserving", "awaiting", "backoff"},
                       att : Attempts, id : Ids]
       /\ \A r \in runs[p] :
            r \in [att : Attempts, local : Nonces, peer : Nonces, live : BOOLEAN,
                   st : {"direct", "ticket", "relay"}]
       /\ dirty[p] \subseteq {"prep", "run"}
  /\ made \in [Peers -> Nonces] /\ attempt \in [Peers -> Attempts]
  /\ local \in [Peers -> Nonces] /\ peer \in [Peers -> Nonces]
  /\ sends \in [Peers -> Ids] /\ losses \in 0 .. LOSSES

Init ==
  /\ link   = [p \in Peers |-> FALSE] /\ hub    = [p \in Peers |-> FALSE]
  /\ outbox = [p \in Peers |-> << >>] /\ inbox  = [p \in Peers |-> << >>]
  /\ slot   = [p \in Peers |-> NoSlot]  /\ made = [p \in Peers |-> 0]
  /\ attempt = [p \in Peers |-> 0] /\ resetting = [p \in Peers |-> FALSE]
  /\ local  = [p \in Peers |-> 0]  /\ relayed = [p \in Peers |-> FALSE]
  /\ peer   = [p \in Peers |-> 0]  /\ started = [p \in Peers |-> FALSE]
  /\ report = [p \in Peers |-> NoReport] /\ err = [p \in Peers |-> FALSE]
  /\ dirty  = [p \in Peers |-> {"prep", "run"}]
  /\ prep   = [p \in Peers |-> Idle] /\ runs = [p \in Peers |-> {}]
  /\ sends  = [p \in Peers |-> 0] /\ losses = 0 /\ tried = {}

Set(f, p, v) == [f EXCEPT ![p] = v]
Touch(p, effects) == dirty' = [dirty EXCEPT ![p] = @ \union effects]

-----------------------------------------------------------------------------
(* The control connections *)

Connect(p) ==
  /\ ~link[p]
  /\ link' = Set(link, p, TRUE) /\ hub' = Set(hub, p, TRUE)
  /\ UNCHANGED <<outbox, inbox, losses, native, screen, control, local, dirty, prep,
                 runs, sends>>

\* rejectPending: the coroutine that awaits a reply shows an error and waits.
Rejected(p) ==
  IF prep[p].st = "awaiting" THEN [prep EXCEPT ![p].st = "backoff"] ELSE prep

ShowsError(p) == err' = [err EXCEPT ![p] = @ \/ prep[p].att = attempt[p]]

Lose(p) ==
  /\ link[p] /\ losses < LOSSES
  /\ link' = Set(link, p, FALSE) /\ losses' = losses + 1
  /\ outbox' = Set(outbox, p, << >>) /\ inbox' = Set(inbox, p, << >>)
  /\ prep' = Rejected(p)
  /\ IF prep[p].st = "awaiting" THEN ShowsError(p) ELSE UNCHANGED err
  /\ UNCHANGED <<hub, native, relayed, peer, started, report, control, local, dirty,
                 runs, sends>>

\* Until the server notices, it queues messages for a connection that is lost.
Notice(p) ==
  /\ ~link[p] /\ hub[p]
  /\ hub' = Set(hub, p, FALSE)
  /\ UNCHANGED <<link, outbox, inbox, losses, native, screen, control, local, dirty,
                 prep, runs, sends>>

\* relay_to_room_members, and the reply: "relayed", or an error.
Route(p) ==
  LET q == Other(p)
      m == Head(outbox[p])
      reply == [kind |-> "reply", id |-> m.id, nonce |-> 0]
      push  == [kind |-> "endpoint", id |-> 0, nonce |-> m.nonce]
  IN
  /\ outbox[p] # << >>
  /\ outbox' = Set(outbox, p, Tail(outbox[p]))
  /\ inbox' = [inbox EXCEPT ![p] = Append(@, reply),
                            ![q] = IF hub[q] /\ link[q] THEN Append(@, push) ELSE @]
  /\ UNCHANGED <<link, hub, losses, native, screen, control, local, dirty, prep, runs, sends>>

-----------------------------------------------------------------------------
(* The preparation effect *)

\* socket.send: rejected at once without a connection.
Sent(p, n) ==
  IF link[p]
    THEN /\ outbox' = [outbox EXCEPT ![p] = Append(@, [id |-> sends[p] + 1, nonce |-> n])]
         /\ sends' = [sends EXCEPT ![p] = @ + 1]
         /\ prep' = [prep EXCEPT ![p] = [st |-> "awaiting", att |-> @.att, id |-> sends[p] + 1]]
         /\ UNCHANGED err
    ELSE /\ prep' = [prep EXCEPT ![p].st = "backoff"]
         /\ ShowsError(p)
         /\ UNCHANGED <<outbox, sends>>

\* reserve_match_probe fails: the socket cannot be bound, or the room's slot
\* is running.
ReserveFails(p) ==
  /\ prep[p].st = "reserving"
  /\ prep' = Set(prep, p, Idle)
  /\ ShowsError(p)
  /\ UNCHANGED <<net, native, relayed, peer, started, report, control, local, dirty,
                 runs, sends>>

\* reserve_match_probe: the candidate of the slot if one is prepared, also by a
\* call that has overtaken this one, or that of a socket it binds.
Candidate(p) == IF slot[p].kind = "prepared" THEN slot[p].nonce ELSE made[p] + 1

\* cancel_match_probe: whatever has the slot; a run is told to stop.
Cancelled(p) == Set(slot, p, NoSlot)

\* A coroutine of an earlier attempt cancels what it has reserved.
Reserve(p) ==
  LET n == Candidate(p) IN
  /\ prep[p].st = "reserving" /\ slot[p].kind # "running"
  /\ made' = IF slot[p].kind = "prepared" THEN made ELSE Set(made, p, n)
  /\ IF prep[p].att = attempt[p]
       THEN /\ slot' = Set(slot, p, Prepared(n))
            /\ local' = Set(local, p, n)
            /\ Touch(p, {"prep", "run"})
            /\ Sent(p, n)
       ELSE /\ slot' = Cancelled(p)
            /\ prep' = Set(prep, p, Idle)
            /\ UNCHANGED <<local, dirty, outbox, sends, err>>
  /\ UNCHANGED <<link, hub, inbox, losses, tried, relayed, peer, started, report,
                 control, runs>>

\* No reply within eight seconds.
Timeout(p) ==
  /\ prep[p].st = "awaiting"
  /\ prep' = Rejected(p)
  /\ ShowsError(p)
  /\ UNCHANGED <<net, native, relayed, peer, started, report, control, local, dirty,
                 runs, sends>>

Abandoned(p) == prep[p].att # attempt[p]

Resend(p) ==
  /\ prep[p].st = "backoff" /\ sends[p] < SENDS
  /\ IF Abandoned(p)
       THEN prep' = Set(prep, p, Idle) /\ UNCHANGED <<outbox, sends, err>>
       ELSE Sent(p, local[p])
  /\ UNCHANGED <<link, hub, inbox, losses, native, relayed, peer, started, report,
                 control, local, dirty, runs>>

\* Dependencies of the probe effect.
Affected(delivered, m) == IF delivered \/ m.kind = "endpoint" THEN {"run"} ELSE {}

\* The App keeps the peer's endpoint; any reply, an error too, resolves the
\* pending request.
Receive(p) ==
  LET m == Head(inbox[p])
      resolves == m.kind = "reply" /\ prep[p].st = "awaiting" /\ m.id = prep[p].id
      delivered == resolves /\ prep[p].att = attempt[p]
  IN
  /\ inbox[p] # << >>
  /\ inbox' = Set(inbox, p, Tail(inbox[p]))
  /\ peer' = IF m.kind = "endpoint" THEN Set(peer, p, m.nonce) ELSE peer
  /\ prep' = IF resolves THEN Set(prep, p, Idle) ELSE prep
  /\ relayed' = IF delivered THEN Set(relayed, p, TRUE) ELSE relayed
  /\ err' = IF delivered THEN Set(err, p, FALSE) ELSE err
  /\ Touch(p, Affected(delivered, m))
  /\ UNCHANGED <<link, hub, outbox, losses, native, started, report, control, local,
                 runs, sends>>

-----------------------------------------------------------------------------
(* Commits, and the probe effect *)

Starts(p) ==
  /\ "run" \in dirty[p]
  /\ local[p] # 0 /\ relayed[p] /\ peer[p] # 0 /\ ~started[p]

\* The native half of run_reserved_match_probe fails at once without a
\* prepared socket; the session key has the nonce of the socket.
NewRun(p) ==
  IF slot[p].kind = "prepared"
    THEN [att |-> attempt[p], local |-> slot[p].nonce, peer |-> peer[p], live |-> TRUE,
          st |-> "direct"]
    ELSE [att |-> attempt[p], local |-> local[p], peer |-> peer[p], live |-> TRUE,
          st |-> "ticket"]

Detached(p) ==
  IF "run" \in dirty[p] THEN {[r EXCEPT !.live = FALSE] : r \in runs[p]} ELSE runs[p]

\* Changed effects are cleaned up and run again.
Commit(p) ==
  /\ dirty[p] # {}
  /\ dirty' = Set(dirty, p, {})
  /\ prep' = IF "prep" \notin dirty[p] THEN prep
             ELSE IF local[p] # 0 THEN Set(prep, p, Idle)
             ELSE Set(prep, p, [st |-> "reserving", att |-> attempt[p], id |-> 0])
  /\ IF Starts(p)
       THEN LET r == NewRun(p) IN
            /\ runs' = Set(runs, p, Detached(p) \union {r})
            /\ started' = Set(started, p, TRUE)
            /\ err' = Set(err, p, r.st # "direct")
            /\ slot' = IF r.st = "direct" THEN Set(slot, p, Running(r.att, r.local)) ELSE slot
            /\ tried' = IF r.st = "direct"
                          THEN tried \union {<<p, "direct", r.local, r.peer>>} ELSE tried
       ELSE /\ runs' = Set(runs, p, Detached(p))
            /\ UNCHANGED <<started, err, slot, tried>>
  /\ UNCHANGED <<net, made, relayed, peer, report, control, local, sends>>

\* Mutant: whatever has become of the effect and the attempt.
Current_Always(p, r) == TRUE

\* !cancelled && probeAttempt.current === attempt
Current(p, r) == r.live /\ r.att = attempt[p]

\* remove_running_probe removes the slot of this run only.
Released_Any(p, r) == Set(slot, p, NoSlot)

Released(p, r) ==
  IF slot[p] = Running(r.att, r.local) THEN Set(slot, p, NoSlot) ELSE slot

\* The probe ends, or is told to: the command gives up its slot and returns.
Returns(p, r) ==
  /\ slot' = IF r.st = "ticket" THEN slot ELSE Released(p, r)
  /\ runs' = Set(runs, p, runs[p] \ {r})

\* Only a peer that probes the same session on the same route answers.  What follows a
\* success is left out: the report is announced to the peer, and an announcement that the
\* server refuses shows an error beside the report (useLanMatchProbe.ts:193-205).
\* Mutant: packets of another session of the room are accepted.
SameSession_AnyNonce(p, r) == \E k, n \in Nonces : <<Other(p), r.st, k, n>> \in tried

SameSession(p, r) == <<Other(p), r.st, r.peer, r.local>> \in tried

RunSucceeds(p, r) ==
  /\ r.st \in {"direct", "relay"} /\ SameSession(p, r)
  /\ Returns(p, r)
  /\ IF Current(p, r)
       THEN /\ report' = Set(report, p, [local |-> r.local, peer |-> r.peer, route |-> r.st])
            /\ err' = Set(err, p, FALSE)
       ELSE UNCHANGED <<report, err>>
  /\ UNCHANGED <<net, made, tried, relayed, peer, started, control, local, dirty, prep,
                 sends>>

Fails(p, r) ==
  /\ err' = IF Current(p, r) THEN Set(err, p, TRUE) ELSE err
  /\ UNCHANGED <<net, made, relayed, peer, started, report, control, local, dirty, prep,
                 sends>>

\* A direct probe that failed, was cancelled or never began: the relay next,
\* even if the effect has been cleaned up.
DirectFails(p, r) ==
  /\ r.st = "direct"
  /\ slot' = Released(p, r)
  /\ runs' = Set(runs, p, (runs[p] \ {r}) \union {[r EXCEPT !.st = "ticket"]})
  /\ UNCHANGED tried
  /\ Fails(p, r)

\* run_relay_match_probe_command needs the room's slot to be free.
RelayStarts(p, r) ==
  /\ r.st = "ticket" /\ slot[p] = NoSlot
  /\ slot' = Set(slot, p, Running(r.att, r.local))
  /\ runs' = Set(runs, p, (runs[p] \ {r}) \union {[r EXCEPT !.st = "relay"]})
  /\ tried' = tried \union {<<p, "relay", r.local, r.peer>>}
  /\ UNCHANGED <<net, made, screen, control, local, dirty, prep, sends>>

RelayFails(p, r) ==
  /\ r.st \in {"ticket", "relay"}
  /\ Returns(p, r)
  /\ UNCHANGED tried
  /\ Fails(p, r)

-----------------------------------------------------------------------------
(* The retry button: shown with an error, and after a probe over the relay *)

Retry(p) ==
  /\ err[p] \/ report[p].route = "relay"
  /\ ~resetting[p] /\ attempt[p] < RETRIES
  /\ resetting' = Set(resetting, p, TRUE)
  /\ attempt' = [attempt EXCEPT ![p] = @ + 1]
  /\ UNCHANGED <<net, native, screen, local, dirty, prep, runs, sends>>

\* After a reservation in flight: cancelMatchProbe, and every state is reset.
\* Only a state that changes makes its effects run again.
Reset(p) ==
  /\ resetting[p] /\ prep[p].st # "reserving"
  /\ resetting' = Set(resetting, p, FALSE)
  /\ slot' = Cancelled(p)
  /\ local'   = Set(local, p, 0)
  /\ relayed' = Set(relayed, p, FALSE)
  /\ peer'    = Set(peer, p, 0)
  /\ started' = Set(started, p, FALSE)
  /\ report'  = Set(report, p, NoReport)
  /\ err'     = Set(err, p, FALSE)
  /\ Touch(p, (IF local[p] # 0 THEN {"prep", "run"} ELSE {})
              \union (IF relayed[p] \/ peer[p] # 0 THEN {"run"} ELSE {}))
  /\ UNCHANGED <<net, made, tried, attempt, prep, runs, sends>>

-----------------------------------------------------------------------------
Run(p) ==
  \E r \in runs[p] :
    RunSucceeds(p, r) \/ DirectFails(p, r) \/ RelayStarts(p, r) \/ RelayFails(p, r)

Next ==
  \E p \in Peers :
    \/ Connect(p) \/ Lose(p) \/ Notice(p) \/ Route(p)
    \/ ReserveFails(p) \/ Reserve(p) \/ Timeout(p) \/ Resend(p) \/ Receive(p)
    \/ Commit(p) \/ Run(p) \/ Retry(p) \/ Reset(p)

Spec == Init /\ [][Next]_vars

\* Connections reopen, messages arrive, timers fire, React commits and native
\* calls return; nobody has to press the button.
Fairness ==
  \A p \in Peers :
    /\ WF_vars(Connect(p)) /\ WF_vars(Notice(p)) /\ WF_vars(Route(p)) /\ WF_vars(Receive(p))
    /\ WF_vars(Reserve(p) \/ ReserveFails(p)) /\ WF_vars(Resend(p)) /\ WF_vars(Commit(p))
    /\ WF_vars(Run(p)) /\ WF_vars(Reset(p))

FairSpec == Spec /\ Fairness

-----------------------------------------------------------------------------
(* Properties *)

\* An endpoint that a client shows and announces is backed by the socket it
\* reserved, until its probe takes the socket: no late step of an earlier
\* attempt, of a relay probe or of a cleanup takes it away.
EndpointIsBacked ==
  \A p \in Peers :
    local[p] # 0 /\ ~started[p] /\ ~resetting[p] => slot[p] = Prepared(local[p])

\* A report on the screen belongs to the present endpoint: a coroutine of an
\* attempt that was retried never delivers its result.
ReportIsCurrent ==
  \A p \in Peers :
    report[p] # NoReport /\ ~resetting[p] => report[p].local = local[p]

\* When both clients have a report, they have probed each other in one
\* session, whatever was retried, resent or lost on either side.
ReportsAgree ==
  LET h == report["host"]  g == report["guest"] IN
  h # NoReport /\ g # NoReport => h.local = g.peer /\ h.peer = g.local

\* Each client starts its probe, unless it or its peer shows an error of the
\* exchange: it never hangs without a word.
ExchangeCompletes ==
  \A p \in Peers : <>(started[p] \/ \E q \in Peers : err[q] /\ ~started[q])
=============================================================================
