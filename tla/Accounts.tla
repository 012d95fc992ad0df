------------------------------ MODULE Accounts ------------------------------
(***************************************************************************)
(* Accounts and sessions of the server: registration, login and logout     *)
(* (routes/auth.rs), the sliding-window limiter they share with the other  *)
(* limited handlers (auth_rate_limit.rs), the sessions that authorize a    *)
(* request or a control WebSocket (authn.rs), and the hub those sockets    *)
(* join.                                                                   *)
(*                                                                         *)
(* Every await of a handler, and every acquisition of a shard of the       *)
(* limiter's map, is a place where other handlers run.  An account is      *)
(* named by its username; a password is right or wrong.  Time is counted   *)
(* in units in which the limiter's window is WINDOW; what elapses between  *)
(* the reading of the clock and the entry of the attempt is neglected, and *)
(* the size of the map is taken of one moment.                             *)
(***************************************************************************)
EXTENDS SignalHub, FiniteSetsExt

CONSTANTS
  REQUESTS,          \* HTTP requests; one that signs in also names its session
  PLANS,             \* bound: the calls and sockets of the clients, the accounts there are,
                     \* the calls that were answered earlier, the sessions that may expire
  LIMIT,             \* per key: the attempts it is allowed in a window
  WINDOW,            \* ATTEMPT_WINDOW
  MAX_TRACKED_KEYS,
  WORKERS,           \* threads of the runtime: check_at has no await, and holds one
  PERMITS,           \* of the password_semaphore (4)
  LAST               \* bound: the last reading of the clock

Operations == {"register", "login", "ticket", "logout"}

\* "register-global" and "login-global" are the keys of no user.
Keys == {"register", "login", "ticket"} \X (USERS \union {NONE})

Calls == [op : Operations, user : USERS, right : BOOLEAN, of : REQUESTS]

ASSUME AccountsAssumption ==
  /\ LIMIT \in [Keys -> Nat \ {0}]
  /\ WINDOW \in Nat \ {0} /\ MAX_TRACKED_KEYS \in Nat \ {0}
  /\ WORKERS \in Nat \ {0} /\ PERMITS \in Nat \ {0}
  /\ LAST \in Nat
  /\ \A p \in PLANS :
       /\ DOMAIN p.calls \subseteq REQUESTS /\ \A r \in DOMAIN p.calls : p.calls[r] \in Calls
       /\ p.conns \subseteq CONNS /\ p.accounts \subseteq USERS
       /\ p.earlier \subseteq DOMAIN p.calls /\ p.expiring \subseteq DOMAIN p.calls
       /\ \A r \in p.earlier : /\ p.calls[r].op \in {"register", "login"} /\ p.calls[r].right
                             /\ p.calls[r].user \in p.accounts

VARIABLES
  plan,       \* the plan the clients follow
  now,        \* Instant::now()
  attempts,   \* the limiter's map: the times of a key's attempts; <<>>: no entry
  step,       \* where the handler of a request is
  permits,    \* requests that hold a permit of the semaphore
  accounts,   \* users
  session     \* per signing request: its row in sessions

hubVars      == vars
limiterVars  == <<now, attempts>>
tables       == <<accounts, session>>
requestVars  == <<limiterVars, step, permits, tables>>
accountsVars == <<plan, requestVars>>

Sent == DOMAIN plan.calls
Call(r) == plan.calls[r]

Ended == {"limited", "denied", "answered", "dropped"}

\* "global" and "own": the size test for that key is next; "entering" and
\* "entering own": its attempt is entered next.
First(op) == IF op \in {"register", "login"} THEN "global" ELSE "authorize"

AccountsInit ==
  /\ Init
  /\ plan \in PLANS
  /\ now = 0
  /\ attempts  = [k \in Keys |-> << >>]
  /\ step      = [r \in REQUESTS |-> IF r \in plan.earlier THEN "answered" ELSE "unsent"]
  /\ permits   = {}
  /\ accounts  = plan.accounts
  /\ session   = [r \in REQUESTS |-> IF r \in plan.earlier THEN "live" ELSE "none"]

To(r, s) == step' = [step EXCEPT ![r] = s]

-----------------------------------------------------------------------------
(* The limiter *)

Elapsed(t) == now - t >= WINDOW

Tracked == {k \in Keys : attempts[k] # << >>}

\* Elapsed attempts are popped from the front, up to the first that is not.
Front(k) ==
  Min({i \in DOMAIN attempts[k] : ~Elapsed(attempts[k][i])} \union {Len(attempts[k]) + 1})

Recent(k) == SubSeq(attempts[k], Front(k), Len(attempts[k]))

\* retain: the keys that stay have a newest attempt that is in the window.
Current == {k \in Tracked : ~Elapsed(attempts[k][Len(attempts[k])])}

Retained == [k \in Keys |-> IF k \in Current THEN attempts[k] ELSE << >>]

Key(r) ==
  IF step[r] \in {"global", "entering"} THEN <<Call(r).op, NONE>>
                                        ELSE <<Call(r).op, Call(r).user>>

NoSpace(k) == Cardinality(Tracked) >= MAX_TRACKED_KEYS /\ k \notin Tracked

\* Handlers on a thread between the test of the map's size and their entry.
Entering == {r \in Sent : step[r] \in {"entering", "entering own"}}

\* The size of the map is read before the key is entered, and not again.
TestSize(r) ==
  /\ step[r] \in {"global", "own"} /\ Cardinality(Entering) < WORKERS
  /\ attempts' = IF NoSpace(Key(r)) THEN Retained ELSE attempts
  /\ To(r, IF NoSpace(Key(r)) /\ Cardinality(Current) >= MAX_TRACKED_KEYS
             THEN "limited"
             ELSE IF step[r] = "global" THEN "entering" ELSE "entering own")
  /\ UNCHANGED <<now, permits, tables>>

Allowed(k) == Len(Recent(k)) < LIMIT[k]

\* Mutant: the attempt is entered before the limit is compared.
Turned_Entered(k) == [attempts EXCEPT ![k] = Append(Recent(k), now)]

\* What a refused attempt leaves: those before it that are in the window.
Turned(k) == [attempts EXCEPT ![k] = Recent(k)]

Admitted(r) ==
  IF step[r] = "entering" THEN "own" ELSE
  CASE Call(r).op = "register" -> "waiting"
    [] Call(r).op = "login"    -> "lookup"
    [] Call(r).op = "ticket"   -> "eligible"

Enter(r) ==
  /\ step[r] \in {"entering", "entering own"}
  /\ LET k == Key(r) IN
     \/ /\ Allowed(k)
        /\ attempts' = [attempts EXCEPT ![k] = Append(Recent(k), now)]
        /\ To(r, Admitted(r))
     \/ /\ ~Allowed(k)
        /\ attempts' = Turned(k)
        /\ To(r, "limited")
  /\ UNCHANGED <<now, permits, tables>>

Cleared(r) == attempts' = [attempts EXCEPT ![<<Call(r).op, Call(r).user>>] = << >>]

Tick ==
  /\ now < LAST /\ now' = now + 1
  /\ UNCHANGED <<attempts, step, permits, tables>>

-----------------------------------------------------------------------------
(* Registration and login *)

\* login finds the account before it verifies the password.
Lookup(r) ==
  /\ step[r] = "lookup"
  /\ To(r, IF Call(r).user \in accounts THEN "waiting" ELSE "waiting unknown")
  /\ UNCHANGED <<limiterVars, permits, tables>>

\* acquire_owned
Acquire(r) ==
  /\ step[r] \in {"waiting", "waiting unknown"} /\ Cardinality(permits) < PERMITS
  /\ permits' = permits \union {r}
  /\ To(r, IF step[r] = "waiting" THEN "hashing" ELSE "hashing unknown")
  /\ UNCHANGED <<limiterVars, tables>>

\* Mutant: the result of the verification decides alone; it is true of the dummy.
Verified_Alone(r) == Call(r).right \/ step[r] = "hashing unknown"

Verified(r) == Call(r).right /\ step[r] = "hashing"

\* Mutant: only a verified password gives the permit back.
Released_IfVerified(r) == IF Verified(r) THEN permits \ {r} ELSE permits

Released(r) == permits \ {r}

\* The hash is there; a verified login clears its key before its session is inserted.
Hashed(r) ==
  /\ step[r] \in {"hashing", "hashing unknown"}
  /\ permits' = Released(r)
  /\ \/ Call(r).op = "register" /\ To(r, "insert user") /\ UNCHANGED attempts
     \/ Call(r).op = "login" /\ Verified(r) /\ To(r, "insert session") /\ Cleared(r)
     \/ Call(r).op = "login" /\ ~Verified(r) /\ To(r, "denied") /\ UNCHANGED attempts
  /\ UNCHANGED <<now, tables>>

\* The unique index: a name that an open transaction has inserted makes others wait.
Inserting(u) == \E q \in Sent : step[q] = "commit" /\ Call(q).user = u

\* Mutant: the user is inserted outside the transaction.
Inserted_AtOnce(r) == accounts \union {Call(r).user}

Inserted(r) == accounts

InsertUser(r) ==
  /\ step[r] = "insert user" /\ ~Inserting(Call(r).user)
  /\ \/ /\ Call(r).user \notin accounts
        /\ accounts' = Inserted(r)
        /\ To(r, "commit")
     \/ /\ Call(r).user \in accounts
        /\ To(r, "denied")
        /\ UNCHANGED accounts
  /\ UNCHANGED <<limiterVars, permits, session>>

\* The session is inserted in the same transaction; then the key is cleared.
Commit(r) ==
  /\ step[r] = "commit"
  /\ accounts' = accounts \union {Call(r).user}
  /\ session' = [session EXCEPT ![r] = "live"]
  /\ Cleared(r)
  /\ To(r, "answered")
  /\ UNCHANGED <<now, permits>>

InsertSession(r) ==
  /\ step[r] = "insert session"
  /\ session' = [session EXCEPT ![r] = "live"]
  /\ To(r, "answered")
  /\ UNCHANGED <<limiterVars, permits, accounts>>

\* relay_ticket and native_tunnel_ticket: a member of an active room, for the tunnel one
\* whose two members are ready, has the ticket; others have used their budget for nothing.
IssueTicket(r) ==
  /\ step[r] = "eligible"
  /\ \E s \in {"answered", "denied"} : To(r, s)
  /\ UNCHANGED <<limiterVars, permits, tables>>

-----------------------------------------------------------------------------
(* Sessions *)

\* authenticate_token, for a request that acts with the session it was given.
Authorize(r) ==
  /\ step[r] = "authorize"
  /\ To(r, IF session[Call(r).of] # "live" THEN "denied"
           ELSE IF Call(r).op = "ticket" THEN "own" ELSE "revoke")
  /\ UNCHANGED <<limiterVars, permits, tables>>

Revoke(r) ==
  /\ step[r] = "revoke"
  /\ session' = [session EXCEPT ![Call(r).of] = "revoked"]
  /\ To(r, "answered")
  /\ UNCHANGED <<limiterVars, permits, accounts>>

Expire(r) ==
  /\ r \in plan.expiring /\ session[r] = "live"
  /\ session' = [session EXCEPT ![r] = "expired"]
  /\ UNCHANGED <<limiterVars, step, permits, accounts>>

-----------------------------------------------------------------------------
(* Requests and sockets *)

Send(r) ==
  /\ r \in Sent /\ step[r] = "unsent"
  /\ To(r, First(Call(r).op))
  /\ UNCHANGED <<limiterVars, permits, tables>>

\* The client goes away while the handler waits, which drops the handler with its
\* permit and its transaction; or the database fails it.
Drop(r) ==
  /\ step[r] \in {"lookup", "waiting", "waiting unknown", "hashing", "hashing unknown",
                  "insert user", "commit", "insert session", "authorize", "revoke", "eligible"}
  /\ permits' = permits \ {r}
  /\ To(r, "dropped")
  /\ UNCHANGED <<limiterVars, tables>>

Handle(r) ==
  \/ TestSize(r) \/ Enter(r) \/ Lookup(r) \/ Acquire(r) \/ Hashed(r)
  \/ InsertUser(r) \/ Commit(r) \/ InsertSession(r) \/ IssueTicket(r) \/ Authorize(r)
  \/ Revoke(r)

\* ws_handler; that the socket is handled only after the upgrade, when its session
\* may have ended, is seen by nothing else.
Connect(c) ==
  /\ c \in plan.conns
  /\ \E r \in Sent : session[r] = "live" /\ Call(r).user = OWNER[c]
  /\ Open(c)

AccountsNext ==
  \/ /\ Tick \/ \E r \in Sent : Send(r) \/ Handle(r) \/ Drop(r) \/ Expire(r)
     /\ UNCHANGED <<plan, hubVars>>
  \/ /\ \/ \E c \in CONNS : Connect(c) \/ ClientGoes(c) \/ Task(c)
        \/ \E u \in USERS : NotifyUser(u)
     /\ UNCHANGED accountsVars

AccountsSpec == AccountsInit /\ [][AccountsNext]_<<accountsVars, hubVars>>

\* Handlers go on when they can: each has finitely many steps, so that one condition
\* does for all of them.  No client is assumed to send or to wait.
FairAccountsSpec ==
  /\ AccountsSpec
  /\ HubFairness
  /\ WF_requestVars(\E r \in Sent : Handle(r))

-----------------------------------------------------------------------------
(* Properties *)

\* Nobody is signed in to an account without its password, though the verification
\* for an unknown account succeeds and accounts appear between lookup and answer.
SignedInByPassword ==
  \A r \in Sent : session[r] # "none" /\ Call(r).op = "login" =>
    Call(r).right /\ Call(r).user \in accounts

\* A registration that is dropped half-way leaves nothing: an account that was made
\* here came with a session, and one of two rivals for a name made it.
AccountsHaveSessions ==
  \A u \in accounts \ plan.accounts :
    Cardinality({r \in Sent : /\ Call(r).op = "register" /\ Call(r).user = u
                              /\ session[r] # "none"}) = 1

\* "retry in one minute": a request is turned away only when its budget has been
\* used within the window, or when the window has seen as many keys as are tracked;
\* the step that turns it away enters no attempt, so that the refusal of a key is not
\* prolonged by what the key refuses.  It may be by what another refuses: a call that
\* its own key turns away has entered an attempt under the key of all users before.
LimitedForCause ==
  [][\A r \in Sent : step'[r] = "limited" /\ step[r] # "limited" =>
       LET Young(k) == {i \in DOMAIN attempts[k] : now - attempts[k][i] < WINDOW} IN
       /\ \/ Cardinality(Young(Key(r))) >= LIMIT[Key(r)]
          \/ Cardinality({k \in Keys : Young(k) # {}}) >= MAX_TRACKED_KEYS
       /\ \A k \in Keys : Len(attempts'[k]) <= Len(attempts[k])]_requestVars

\* Every request is answered, whichever clients leave while they wait for a permit,
\* hash, or hold a name that others wait for: when no more come, none is left waiting.
RequestsEnd == []<>(\A r \in REQUESTS : step[r] \in {"unsent"} \union Ended)
=============================================================================
