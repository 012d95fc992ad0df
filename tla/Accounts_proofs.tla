-------------------------- MODULE Accounts_proofs --------------------------
(* Theorems about SignalHub, for every set of users and connections and    *)
(* every capacity of the queues, and about Accounts, which signs those     *)
(* users in, for every plan of the clients, every limit and window, and    *)
(* every number of permits.                                                *)
EXTENDS Accounts, FiniteSetTheorems, WellFoundedInduction, TLAPS

-----------------------------------------------------------------------------
(* The hub: types *)

Messages == {"close", "text"}

LEMMA PushIsBounded ==
  ASSUME TypeOK, NEW d, NEW m \in Messages, NEW c \in CONNS
  PROVE  /\ Pushed(d, m)[c] \in Seq(Messages)
         /\ Len(Pushed(d, m)[c]) <= QUEUE
  BY HubAssumption DEF TypeOK, Pushed, HasRoom, Messages

LEMMA TypeInit == Init => TypeOK
  BY HubAssumption DEF Init, TypeOK

LEMMA TypeStep == TypeOK /\ [Next]_vars => TypeOK'
  <1> SUFFICES ASSUME TypeOK, [Next]_vars PROVE TypeOK'
    OBVIOUS
  <1> USE HubAssumption DEF TypeOK, Goto
  <1>1. ASSUME NEW c \in CONNS, Open(c) PROVE TypeOK'
    <2>1. \A d \in CONNS : queue'[d] \in Seq(Messages) /\ Len(queue'[d]) <= QUEUE
      BY <1>1, PushIsBounded DEF Open, Messages
    <2> QED BY <1>1, <2>1 DEF Open, Messages
  <1>2. ASSUME NEW c \in CONNS, Greet(c) PROVE TypeOK'
    <2>1. \A d \in CONNS : queue'[d] \in Seq(Messages) /\ Len(queue'[d]) <= QUEUE
      BY <1>2, PushIsBounded DEF Greet, Messages
    <2>2. CASE HasRoom(c) /\ Goto(c, "open") /\ UNCHANGED <<hub, writer>>
      BY <1>2, <2>1, <2>2 DEF Greet, Messages
    <2>3. CASE hub' = [hub EXCEPT ![OWNER[c]] = NONE] /\ Goto(c, "failed") /\ UNCHANGED writer
      BY <1>2, <2>1, <2>3 DEF Greet, Messages
    <2> QED BY <1>2, <2>2, <2>3 DEF Greet
  <1>3. ASSUME NEW c \in CONNS, ClientGoes(c) \/ Hangup(c) \/ Read(c) PROVE TypeOK'
    <2>1. CASE ClientGoes(c)
      BY <2>1 DEF ClientGoes
    <2>2. CASE Hangup(c)
      BY <2>2 DEF Hangup
    <2>3. CASE Read(c)
      BY <2>3 DEF Read
    <2> QED BY <1>3, <2>1, <2>2, <2>3
  <1>4. ASSUME NEW c \in CONNS, Leave(c) PROVE TypeOK'
    BY <1>4 DEF Leave, Deregistered
  <1>5. ASSUME NEW c \in CONNS, Write(c) PROVE TypeOK'
    <2>1. /\ Tail(queue[c]) \in Seq(Messages)
          /\ Len(Tail(queue[c])) <= QUEUE
      BY <1>5 DEF Write, Messages
    <2>2. CASE queue' = [queue EXCEPT ![c] = Tail(@)]
      <3>1. \A d \in CONNS : queue'[d] \in Seq(Messages) /\ Len(queue'[d]) <= QUEUE
        BY <2>1, <2>2 DEF Messages
      <3>2. UNCHANGED <<hub, phase, target, replaced>>
        BY <1>5 DEF Write
      <3>3. writer' \in [CONNS -> {"none", "running", "closing", "ended"}] /\ alive' \subseteq CONNS
        BY <1>5 DEF Write
      <3> QED BY <3>1, <3>2, <3>3 DEF Messages
    <2>3. CASE queue' = [queue EXCEPT ![c] = << >>]
      BY <1>5, <2>3 DEF Write, Messages
    <2> QED BY <1>5, <2>2, <2>3 DEF Write
  <1>6. ASSUME NEW c \in CONNS, Forward(c) PROVE TypeOK'
    <2>1. \A d \in CONNS : queue'[d] \in Seq(Messages) /\ Len(queue'[d]) <= QUEUE
      BY <1>6, PushIsBounded DEF Forward, Messages
    <2> QED BY <1>6, <2>1 DEF Forward, Messages
  <1>7. ASSUME NEW c \in CONNS, Reply(c) PROVE TypeOK'
    <2>1. \A d \in CONNS : queue'[d] \in Seq(Messages) /\ Len(queue'[d]) <= QUEUE
      BY <1>7, PushIsBounded DEF Reply, Messages
    <2> QED BY <1>7, <2>1 DEF Reply, Failed, Messages
  <1>8. ASSUME NEW u \in USERS, NotifyUser(u) PROVE TypeOK'
    <2>1. \A d \in CONNS : queue'[d] \in Seq(Messages) /\ Len(queue'[d]) <= QUEUE
      BY <1>8, PushIsBounded DEF NotifyUser, Messages
    <2> QED BY <1>8, <2>1 DEF NotifyUser, Messages
  <1>9. CASE UNCHANGED vars
    BY <1>9 DEF vars
  <1> QED BY <1>1, <1>2, <1>3, <1>4, <1>5, <1>6, <1>7, <1>8, <1>9 DEF Next, Task

-----------------------------------------------------------------------------
(* The hub among the requests of Accounts *)

\* The connections that are, or are about to be, served.
Served == {"greeting", "open", "routing", "replying"}

\* OpenIsRegistered holds from the greeting on: while it is awaited, a newer
\* connection may come and an older one may end.
ServedIsRegistered ==
  \A c \in CONNS : phase[c] \in Served /\ c \notin replaced =>
    \/ hub[OWNER[c]] = c
    \/ \E d \in replaced : OWNER[d] = OWNER[c] /\ phase[d] = "failed"

HubInv == TypeOK /\ HubIsLive /\ ServedIsRegistered

LEMMA HubInit == Init => HubInv
  BY TypeInit DEF Init, HubInv, HubIsLive, ServedIsRegistered, Served

LEMMA HubStep == HubInv /\ [Next]_vars => HubInv'
  <1> SUFFICES ASSUME HubInv, [Next]_vars PROVE HubIsLive' /\ ServedIsRegistered'
    BY TypeStep DEF HubInv
  <1> DEFINE Kept == HubIsLive' /\ ServedIsRegistered'
  <1> USE HubAssumption DEF HubInv, TypeOK, Goto
  \* A failed connection stays one, and stays replaced.
  <1>1. ASSUME NEW c \in CONNS, Open(c) PROVE Kept
    <2>1. HubIsLive'
      BY <1>1 DEF Open, HubIsLive, Over
    <2>2. ServedIsRegistered'
      <3> SUFFICES ASSUME NEW d \in CONNS, phase'[d] \in Served, d \notin replaced'
                   PROVE  \/ hub'[OWNER[d]] = d
                          \/ \E e \in replaced' : OWNER[e] = OWNER[d] /\ phase'[e] = "failed"
        BY DEF ServedIsRegistered
      <3>1. CASE d = c
        BY <1>1, <3>1 DEF Open
      <3>2. CASE d # c
        BY <1>1, <3>2 DEF Open, ServedIsRegistered, Served
      <3> QED BY <3>1, <3>2
    <2> QED BY <2>1, <2>2
  <1>2. ASSUME NEW c \in CONNS, Greet(c) PROVE Kept
    <2>1. HubIsLive'
      BY <1>2 DEF Greet, HubIsLive, Over
    <2>2. CASE phase' = [phase EXCEPT ![c] = "open"] /\ UNCHANGED <<hub, replaced>>
      BY <1>2, <2>1, <2>2 DEF Greet, ServedIsRegistered, Served
    <2>3. CASE /\ hub' = [hub EXCEPT ![OWNER[c]] = NONE]
               /\ phase' = [phase EXCEPT ![c] = "failed"]
               /\ UNCHANGED replaced
      <3> SUFFICES ASSUME NEW d \in CONNS, phase'[d] \in Served, d \notin replaced'
                   PROVE  \/ hub'[OWNER[d]] = d
                          \/ \E e \in replaced' : OWNER[e] = OWNER[d] /\ phase'[e] = "failed"
        BY <2>1 DEF ServedIsRegistered
      <3>1. d # c /\ phase[d] \in Served /\ phase[c] \in Served
        BY <1>2, <2>3 DEF Greet, Served
      <3>2. CASE OWNER[d] # OWNER[c]
        BY <2>3, <3>1, <3>2 DEF ServedIsRegistered
      <3>3. CASE OWNER[d] = OWNER[c] /\ c \in replaced
        BY <2>3, <3>3
      <3>4. CASE OWNER[d] = OWNER[c] /\ c \notin replaced
        BY <2>3, <3>1, <3>4 DEF ServedIsRegistered
      <3> QED BY <3>2, <3>3, <3>4
    <2> QED BY <1>2, <2>2, <2>3 DEF Greet
  <1>3. ASSUME NEW c \in CONNS, Leave(c) PROVE Kept
    BY <1>3 DEF Leave, Deregistered, HubIsLive, Over, ServedIsRegistered, Served
  <1>4. ASSUME NEW c \in CONNS, Hangup(c) \/ Read(c) \/ Forward(c) \/ Reply(c) PROVE Kept
    BY <1>4 DEF Hangup, Read, Forward, Reply, Failed, HubIsLive, Over, ServedIsRegistered, Served
  <1>5. CASE UNCHANGED <<hub, phase, replaced>>
    BY <1>5 DEF HubIsLive, Over, ServedIsRegistered
  <1>6. ASSUME NEW c \in CONNS, ClientGoes(c) \/ Write(c) PROVE Kept
    BY <1>5, <1>6 DEF ClientGoes, Write
  <1>7. ASSUME NEW u \in USERS, NotifyUser(u) PROVE Kept
    BY <1>5, <1>7 DEF NotifyUser
  <1>8. CASE UNCHANGED vars
    BY <1>5, <1>8 DEF vars
  <1> QED BY <1>1, <1>2, <1>3, <1>4, <1>6, <1>7, <1>8 DEF Next, Task

LEMMA HubInvHolds == Spec => []HubInv
  BY HubInit, HubStep, PTL DEF Spec

\* The hub, the tasks and the queues keep their types, and no queue exceeds its
\* capacity, whatever is pushed to it.
THEOREM HubTypeCorrect == Spec => []TypeOK
  BY HubInvHolds, PTL DEF HubInv

\* HubIsLive: no message is queued for a connection whose task is over.
THEOREM HubStaysLive == Spec => []HubIsLive
  BY HubInvHolds, PTL DEF HubInv

LEMMA ServedImpliesOpen == HubInv => OpenIsRegistered
  BY DEF HubInv, ServedIsRegistered, OpenIsRegistered, Served

\* OpenIsRegistered: an open connection that no newer one has replaced is the one the
\* hub has for its user, unless a replaced one of the user has failed to greet and so
\* removed the entry.  Of a replaced connection that stays open, since the Close for it
\* was dropped, nothing is said.
THEOREM OpenStaysRegistered == Spec => []OpenIsRegistered
  BY HubInvHolds, ServedImpliesOpen, PTL

-----------------------------------------------------------------------------
(* The hub among the requests of Accounts *)

\* The sockets of signed-in users are among those the hub can meet.
LEMMA AccountsRefineHub == [AccountsNext]_<<accountsVars, hubVars>> => [Next]_vars
  BY DEF AccountsNext, hubVars, Connect, Next

LEMMA HubInvHoldsHere == AccountsSpec => []HubInv
  <1>1. AccountsInit => HubInv
    BY HubInit DEF AccountsInit
  <1>2. HubInv /\ [AccountsNext]_<<accountsVars, hubVars>> => HubInv'
    BY AccountsRefineHub, HubStep
  <1> QED BY <1>1, <1>2, PTL DEF AccountsSpec

\* HubIsLive: the hub's entries are running connections of their users, whichever
\* sessions begin and end.
THEOREM AccountsKeepHubLive == AccountsSpec => []HubIsLive
  BY HubInvHoldsHere, PTL DEF HubInv

\* OpenIsRegistered, for sockets that sign-ins open: one that is open and has not been
\* replaced by a newer one of its user is the one the hub has, unless a replaced one
\* failed to greet (ws.rs:107 removes whatever entry there is).  A replaced socket whose
\* Close was dropped (ws.rs:83) may stay open beside it, without an entry.
THEOREM AccountsKeepOpenRegistered == AccountsSpec => []OpenIsRegistered
  BY HubInvHoldsHere, ServedImpliesOpen, PTL

-----------------------------------------------------------------------------
(* Accounts and sessions *)

Steps == {"unsent", "global", "own", "entering", "entering own", "lookup", "waiting",
          "waiting unknown", "hashing", "hashing unknown", "insert user", "commit",
          "insert session", "eligible", "authorize", "revoke"} \union Ended

AccountsTypeOK ==
  /\ plan \in PLANS
  /\ step \in [REQUESTS -> Steps]
  /\ session \in [REQUESTS -> {"none", "live", "revoked", "expired"}]

\* The registrations of u that made a session.
Registered(u) == {r \in Sent : Call(r).op = "register" /\ Call(r).user = u /\ session[r] # "none"}

\* Which operation a handler can be in the middle of, at each of its steps.
HandlerIsApart(r) ==
  /\ step[r] \in {"insert user", "commit"} => Call(r).op = "register"
  /\ step[r] \in {"lookup", "insert session"} => Call(r).op = "login"
  /\ step[r] = "revoke" => session[Call(r).of] # "none"
  /\ Call(r).op = "logout" => step[r] \in {"unsent", "authorize", "revoke"} \union Ended

HandlersAreApart == \A r \in Sent : HandlerIsApart(r)

\* A login that found its account still has it, and one that inserts its session has
\* been verified.
LoginsAreKnown ==
  \A r \in Sent : Call(r).op = "login" =>
    /\ step[r] \in {"waiting", "hashing", "insert session"} => Call(r).user \in accounts
    /\ step[r] = "insert session" => Call(r).right

\* At most one registration of a name is between its insert and its commit, and the
\* name is nobody's until then.
RegistrationsAreAlone ==
  \A r \in Sent : step[r] = "commit" =>
    /\ Call(r).user \notin accounts
    /\ \A q \in Sent : step[q] = "commit" /\ Call(q).user = Call(r).user => q = r

\* A name has no session of a registration, or it has an account and exactly one.
RegistrationsAreUnique ==
  \A u : u \notin plan.accounts =>
    IF u \in accounts THEN \E r \in Sent : Registered(u) = {r} ELSE Registered(u) = {}

EarlierAccountsStay == plan.accounts \subseteq accounts

AccountsInv ==
  /\ AccountsTypeOK /\ HandlersAreApart /\ LoginsAreKnown /\ RegistrationsAreAlone
  /\ RegistrationsAreUnique /\ EarlierAccountsStay /\ SignedInByPassword

LEMMA PlansAreCalls ==
  ASSUME plan \in PLANS
  PROVE  /\ Sent \subseteq REQUESTS
         /\ \A r \in Sent : /\ Call(r).op \in Operations /\ Call(r).right \in BOOLEAN
                            /\ Call(r).of \in REQUESTS /\ Call(r).user \in USERS
         /\ \A r \in plan.earlier : /\ r \in Sent /\ Call(r).op \in {"register", "login"}
                                    /\ Call(r).right /\ Call(r).user \in plan.accounts
  BY AccountsAssumption DEF Sent, Call, Calls

LEMMA AccountsInvInit == AccountsInit => AccountsInv
  <1> SUFFICES ASSUME AccountsInit PROVE AccountsInv
    OBVIOUS
  <1> USE PlansAreCalls DEF AccountsInit
  <1>1. AccountsTypeOK
    BY DEF AccountsTypeOK, Steps, Ended
  <1>2. HandlersAreApart /\ LoginsAreKnown /\ RegistrationsAreAlone
    BY DEF HandlersAreApart, HandlerIsApart, LoginsAreKnown, RegistrationsAreAlone, Ended
  <1>3. RegistrationsAreUnique
    BY DEF RegistrationsAreUnique, Registered
  <1>4. SignedInByPassword
    BY DEF SignedInByPassword
  <1> QED BY <1>1, <1>2, <1>3, <1>4 DEF AccountsInv, EarlierAccountsStay

-----------------------------------------------------------------------------
(* Steps of the handlers *)

\* A handler that leaves the tables alone keeps the invariant when the step it goes
\* to asks no more than the handler knows.
LEMMA TablesUnchanged ==
  ASSUME AccountsInv, NEW r \in Sent, NEW s \in Steps, To(r, s), UNCHANGED <<plan, tables>>,
         s = "insert user" => Call(r).op = "register",
         s = "lookup" => Call(r).op = "login",
         s = "insert session" => Call(r).op = "login" /\ Call(r).right
                                 /\ Call(r).user \in accounts,
         s = "revoke" => session[Call(r).of] # "none",
         s = "commit" => /\ Call(r).op = "register" /\ Call(r).user \notin accounts
                         /\ ~Inserting(Call(r).user),
         s \in {"waiting", "hashing"} /\ Call(r).op = "login" => Call(r).user \in accounts,
         Call(r).op = "logout" => s \in {"authorize", "revoke"} \union Ended
  PROVE  AccountsInv'
  <1> USE PlansAreCalls DEF AccountsInv, AccountsTypeOK, To, tables, Sent, Call
  <1>1. AccountsTypeOK'
    OBVIOUS
  <1>2. HandlersAreApart'
    BY DEF HandlersAreApart, HandlerIsApart
  <1>3. LoginsAreKnown'
    BY DEF LoginsAreKnown
  <1>4. RegistrationsAreAlone'
    <2> SUFFICES ASSUME NEW p \in Sent, step'[p] = "commit"
                 PROVE  /\ Call(p).user \notin accounts
                        /\ \A q \in Sent : step'[q] = "commit" /\ Call(q).user = Call(p).user => q = p
      BY DEF RegistrationsAreAlone
    <2>1. CASE s = "commit"
      BY <2>1 DEF RegistrationsAreAlone, Inserting
    <2>2. CASE s # "commit"
      BY <2>2 DEF RegistrationsAreAlone
    <2> QED BY <2>1, <2>2
  <1>5. RegistrationsAreUnique'
    <2>1. \A u : Registered(u)' = Registered(u)
      BY DEF Registered
    <2>2. Sent' = Sent /\ plan' = plan /\ accounts' = accounts
      OBVIOUS
    <2> HIDE DEF Sent, Call
    <2> QED BY <2>1, <2>2 DEF RegistrationsAreUnique
  <1>6. EarlierAccountsStay' /\ SignedInByPassword'
    BY DEF EarlierAccountsStay, SignedInByPassword
  <1> QED BY <1>1, <1>2, <1>3, <1>4, <1>5, <1>6

LEMMA TablesAndStepsUnchanged ==
  ASSUME AccountsInv, UNCHANGED <<plan, step, tables>>
  PROVE  AccountsInv'
  <1> USE DEF AccountsInv
  <1>1. /\ plan' = plan /\ step' = step /\ session' = session /\ accounts' = accounts
        /\ Sent' = Sent /\ \A q : Call(q)' = Call(q)
    BY DEF tables, Sent, Call
  <1>2. \A u : Registered(u)' = Registered(u)
    BY <1>1 DEF Registered
  <1>3. AccountsTypeOK'
    BY <1>1 DEF AccountsTypeOK
  <1>5. HandlersAreApart'
    BY <1>1 DEF HandlersAreApart, HandlerIsApart
  <1>6. LoginsAreKnown'
    BY <1>1 DEF LoginsAreKnown
  <1>7. RegistrationsAreAlone'
    BY <1>1 DEF RegistrationsAreAlone
  <1>4. RegistrationsAreUnique' /\ EarlierAccountsStay' /\ SignedInByPassword'
    BY <1>1, <1>2 DEF RegistrationsAreUnique, EarlierAccountsStay, SignedInByPassword
  <1> QED BY <1>3, <1>4, <1>5, <1>6, <1>7

\* A commit makes the account and its one session together.
LEMMA CommitKeepsInv ==
  ASSUME AccountsInv, NEW r \in Sent, Commit(r), UNCHANGED plan
  PROVE  AccountsInv'
  <1> DEFINE u == Call(r).user
  <1> USE PlansAreCalls DEF AccountsInv, AccountsTypeOK, Commit, To
  <1>1. /\ plan \in PLANS /\ plan' = plan /\ Sent' = Sent /\ \A q : Call(q)' = Call(q)
        /\ r \in REQUESTS /\ Sent \subseteq REQUESTS
        /\ step[r] = "commit" /\ u \notin accounts /\ Call(r).op = "register"
        /\ accounts' = accounts \union {u}
        /\ \A q \in REQUESTS : /\ session'[q] = IF q = r THEN "live" ELSE session[q]
                               /\ step'[q] = IF q = r THEN "answered" ELSE step[q]
    BY DEF Sent, Call, RegistrationsAreAlone, HandlersAreApart, HandlerIsApart
  <1>2. AccountsTypeOK'
    BY DEF Steps, Ended
  <1> HIDE DEF AccountsTypeOK, Commit, To
  <1>3. HandlersAreApart'
    <2> SUFFICES ASSUME NEW q \in Sent PROVE HandlerIsApart(q)'
      BY <1>1 DEF HandlersAreApart
    <2>1. HandlerIsApart(q) /\ Call(q).of \in REQUESTS
      BY <1>1 DEF HandlersAreApart
    <2> QED BY <1>1, <2>1 DEF HandlerIsApart, Ended
  <1>4. LoginsAreKnown' /\ EarlierAccountsStay' /\ SignedInByPassword'
    BY <1>1 DEF LoginsAreKnown, EarlierAccountsStay, SignedInByPassword
  <1>5. RegistrationsAreAlone'
    BY <1>1 DEF RegistrationsAreAlone
  <1>6. u \notin plan.accounts /\ Registered(u) = {}
    BY <1>1 DEF RegistrationsAreUnique, EarlierAccountsStay
  <1>7. Registered(u)' = {r}
    BY <1>1, <1>6 DEF Registered
  <1>8. \A v : v # u => Registered(v)' = Registered(v)
    BY <1>1 DEF Registered
  <1>9. RegistrationsAreUnique'
    BY <1>1, <1>7, <1>8 DEF RegistrationsAreUnique
  <1> QED BY <1>2, <1>3, <1>4, <1>5, <1>9

\* The session of a login is of no registration.
LEMMA InsertSessionKeepsInv ==
  ASSUME AccountsInv, NEW r \in Sent, InsertSession(r), UNCHANGED plan
  PROVE  AccountsInv'
  <1> USE PlansAreCalls DEF AccountsInv, AccountsTypeOK, InsertSession, To
  <1>1. /\ plan \in PLANS /\ plan' = plan /\ Sent' = Sent /\ \A q : Call(q)' = Call(q)
        /\ r \in REQUESTS /\ Sent \subseteq REQUESTS
        /\ Call(r).op = "login" /\ Call(r).right /\ Call(r).user \in accounts
        /\ accounts' = accounts
        /\ \A q \in REQUESTS : /\ session'[q] = IF q = r THEN "live" ELSE session[q]
                               /\ step'[q] = IF q = r THEN "answered" ELSE step[q]
    BY DEF Sent, Call, LoginsAreKnown, HandlersAreApart, HandlerIsApart
  <1>2. AccountsTypeOK'
    BY DEF Steps, Ended
  <1> HIDE DEF AccountsTypeOK, InsertSession, To
  <1>3. HandlersAreApart'
    <2> SUFFICES ASSUME NEW q \in Sent PROVE HandlerIsApart(q)'
      BY <1>1 DEF HandlersAreApart
    <2>1. HandlerIsApart(q) /\ Call(q).of \in REQUESTS
      BY <1>1 DEF HandlersAreApart
    <2> QED BY <1>1, <2>1 DEF HandlerIsApart, Ended
  <1>4. LoginsAreKnown' /\ EarlierAccountsStay' /\ SignedInByPassword'
    BY <1>1 DEF LoginsAreKnown, EarlierAccountsStay, SignedInByPassword
  <1>7. RegistrationsAreAlone'
    BY <1>1 DEF RegistrationsAreAlone
  <1>5. \A v : Registered(v)' = Registered(v)
    BY <1>1 DEF Registered
  <1>6. RegistrationsAreUnique'
    BY <1>1, <1>5 DEF RegistrationsAreUnique
  <1> QED BY <1>2, <1>3, <1>4, <1>6, <1>7

\* A session that ends stays on record.
LEMMA EndOfSessionKeepsInv ==
  ASSUME AccountsInv, NEW q \in REQUESTS, session[q] # "none",
         NEW e \in {"revoked", "expired"}, session' = [session EXCEPT ![q] = e],
         UNCHANGED <<plan, accounts>>,
         UNCHANGED step \/ \E r \in Sent : To(r, "answered")
  PROVE  AccountsInv'
  <1> USE PlansAreCalls DEF AccountsInv, AccountsTypeOK
  <1>1. /\ plan' = plan /\ accounts' = accounts /\ Sent' = Sent /\ \A p : Call(p)' = Call(p)
        /\ \A p \in REQUESTS : session'[p] = "none" <=> session[p] = "none"
        /\ \A p \in REQUESTS : step'[p] \in {step[p], "answered"}
    BY DEF Sent, Call, To
  <1>2. AccountsTypeOK'
    BY DEF To, Steps, Ended
  <1>3. Sent \subseteq REQUESTS /\ \A p \in Sent : Call(p).of \in REQUESTS
    BY PlansAreCalls
  <1> HIDE DEF AccountsTypeOK
  <1>4. HandlersAreApart'
    <2> SUFFICES ASSUME NEW p \in Sent PROVE HandlerIsApart(p)'
      BY <1>1 DEF HandlersAreApart
    <2>1. HandlerIsApart(p) /\ Call(p).of \in REQUESTS /\ p \in REQUESTS
      BY <1>3 DEF HandlersAreApart
    <2>2. /\ step'[p] \in {step[p], "answered"} /\ Call(p)' = Call(p)
          /\ session'[Call(p).of] = "none" <=> session[Call(p).of] = "none"
      BY <1>1, <2>1
    <2> QED BY <2>1, <2>2 DEF HandlerIsApart, Ended
  <1>8. LoginsAreKnown'
    BY <1>1, <1>3 DEF LoginsAreKnown
  <1>9. RegistrationsAreAlone'
    BY <1>1, <1>3 DEF RegistrationsAreAlone
  <1>5. EarlierAccountsStay' /\ SignedInByPassword'
    BY <1>1, <1>3 DEF EarlierAccountsStay, SignedInByPassword
  <1>6. \A v : Registered(v)' = Registered(v)
    BY <1>1, <1>3 DEF Registered
  <1>7. RegistrationsAreUnique'
    BY <1>1, <1>6 DEF RegistrationsAreUnique
  <1> QED BY <1>2, <1>4, <1>5, <1>7, <1>8, <1>9

LEMMA HandlersKeepInv ==
  ASSUME AccountsInv, NEW r \in Sent, Send(r) \/ Handle(r) \/ Drop(r) \/ Expire(r),
         UNCHANGED plan
  PROVE  AccountsInv'
  <1> USE PlansAreCalls
  <1>1. CASE Send(r)
    BY <1>1, TablesUnchanged DEF Send, First, Operations, Steps, Ended
  <1>2. CASE TestSize(r)
    BY <1>2, TablesUnchanged DEF TestSize, Steps, Ended, AccountsInv, HandlersAreApart, HandlerIsApart
  <1>3. CASE Enter(r)
    <2>1. PICK s \in {"limited", Admitted(r)} : To(r, s) /\ UNCHANGED tables
      BY <1>3 DEF Enter, Turned
    <2>2. Call(r).op # "logout" /\ Call(r).op \in Operations
      BY <1>3 DEF Enter, Turned, AccountsInv, AccountsTypeOK, HandlersAreApart, HandlerIsApart, Ended
    <2>3. \/ s \in {"limited", "own", "eligible"}
          \/ s = "waiting" /\ Call(r).op = "register"
          \/ s = "lookup" /\ Call(r).op = "login"
      BY <2>1, <2>2 DEF Admitted, Operations
    <2> QED BY <2>1, <2>2, <2>3, TablesUnchanged DEF Steps, Ended
  <1>4. CASE Lookup(r)
    BY <1>4, TablesUnchanged DEF Lookup, Steps, Ended, AccountsInv, HandlersAreApart, HandlerIsApart
  <1>5. CASE Acquire(r)
    BY <1>5, TablesUnchanged DEF Acquire, Steps, AccountsInv, HandlersAreApart, HandlerIsApart, LoginsAreKnown, Ended
  <1>6. CASE Hashed(r)
    BY <1>6, TablesUnchanged DEF Hashed, Verified, Steps, Ended, AccountsInv, LoginsAreKnown, tables
  <1>7. CASE InsertUser(r)
    BY <1>7, TablesUnchanged DEF InsertUser, Inserted, Steps, Ended, AccountsInv, HandlersAreApart, HandlerIsApart, tables
  <1>8. CASE Authorize(r)
    BY <1>8, TablesUnchanged DEF Authorize, Steps, Ended
  <1>9. CASE Drop(r)
    BY <1>9, TablesUnchanged DEF Drop, Steps, Ended
  <1>10. CASE Revoke(r)
    <2>1. session[Call(r).of] # "none" /\ Call(r).of \in REQUESTS
      BY <1>10 DEF Revoke, AccountsInv, AccountsTypeOK, HandlersAreApart,
                  HandlerIsApart
    <2> QED BY <1>10, <2>1, EndOfSessionKeepsInv DEF Revoke
  <1>11. CASE Expire(r)
    BY <1>11, EndOfSessionKeepsInv DEF Expire, AccountsInv, AccountsTypeOK
  <1>12. CASE IssueTicket(r)
    <2>1. Call(r).op # "logout"
      BY <1>12 DEF IssueTicket, AccountsInv, HandlersAreApart, HandlerIsApart, Ended
    <2> QED BY <1>12, <2>1, TablesUnchanged DEF IssueTicket, Steps, Ended
  <1> QED
    BY <1>1, <1>2, <1>3, <1>4, <1>5, <1>6, <1>7, <1>8, <1>9, <1>10, <1>11, <1>12, CommitKeepsInv,
       InsertSessionKeepsInv DEF Handle

LEMMA AccountsInvStep ==
  AccountsInv /\ [AccountsNext]_<<accountsVars, hubVars>> => AccountsInv'
  <1> SUFFICES ASSUME AccountsInv, [AccountsNext]_<<accountsVars, hubVars>> PROVE AccountsInv'
    OBVIOUS
  <1>1. CASE /\ \E r \in Sent : Send(r) \/ Handle(r) \/ Drop(r) \/ Expire(r)
             /\ UNCHANGED plan
    BY <1>1, HandlersKeepInv
  <1>2. CASE Tick /\ UNCHANGED plan
    BY <1>2, TablesAndStepsUnchanged DEF Tick
  <1>3. CASE UNCHANGED accountsVars
    BY <1>3, TablesAndStepsUnchanged DEF accountsVars, requestVars
  <1> QED BY <1>1, <1>2, <1>3 DEF AccountsNext

LEMMA AccountsInvHolds == AccountsSpec => []AccountsInv
  BY AccountsInvInit, AccountsInvStep, PTL DEF AccountsSpec

\* SignedInByPassword: nobody is signed in to an account without its password.
THEOREM SignInsTakeThePassword == AccountsSpec => []SignedInByPassword
  BY AccountsInvHolds, PTL DEF AccountsInv

LEMMA OneSessionPerAccount == AccountsInv => AccountsHaveSessions
  <1> SUFFICES ASSUME AccountsInv, NEW u \in accounts \ plan.accounts
               PROVE  Cardinality(Registered(u)) = 1
    BY DEF AccountsHaveSessions, Registered
  <1>1. PICK r \in Sent : Registered(u) = {r}
    BY DEF AccountsInv, RegistrationsAreUnique
  <1> QED BY <1>1, FS_Singleton

\* AccountsHaveSessions: an account that was made here came with one session, made
\* by one registration, whichever rivals and dropped handlers there were.
THEOREM AccountsComeWithSessions == AccountsSpec => []AccountsHaveSessions
  BY AccountsInvHolds, OneSessionPerAccount, PTL

-----------------------------------------------------------------------------
(* The limiter: what is popped and what stays *)

LEMMA MinExists ==
  ASSUME NEW n \in Nat, NEW S \in SUBSET (1 .. n), S # {}
  PROVE  Min(S) \in S /\ \A i \in S : Min(S) <= i
  <1> DEFINE Below == {1 .. i : i \in S}
  <1>1. PICK m \in S : \A i \in S : ~(<<1 .. i, 1 .. m>> \in StrictSubsetOrdering(1 .. n))
    <2>1. IsWellFoundedOn(StrictSubsetOrdering(1 .. n), SUBSET (1 .. n))
      <3>1. IsFiniteSet(1 .. n)
        BY FS_Interval
      <3> QED BY <3>1, FS_FiniteSubsetsOfFinite, FS_StrictSubsetOrderingWellFounded
    <2>2. Below # {}
      OBVIOUS
    <2>3. \A i \in S : 1 .. i \in SUBSET (1 .. n)
      OBVIOUS
    <2>4. Below \subseteq SUBSET (1 .. n)
      BY <2>3
    <2> HIDE DEF Below
    <2>5. PICK x \in Below : \A y \in Below : ~(<<y, x>> \in StrictSubsetOrdering(1 .. n))
      BY <2>1, <2>2, <2>4, WFMin
    <2> QED BY <2>5 DEF Below
  <1>2. ASSUME NEW i \in S, ~(m <= i) PROVE FALSE
    <2>1. 1 .. i \in SUBSET (1 .. m) /\ m \in 1 .. m /\ m \notin 1 .. i
      BY <1>2
    <2>2. 1 .. i # 1 .. m
      BY <2>1, Zenon
    <2>3. 1 .. i \in SUBSET (1 .. n) /\ 1 .. m \in SUBSET (1 .. n)
      OBVIOUS
    <2> QED BY <1>1, <2>1, <2>2, <2>3 DEF StrictSubsetOrdering
  <1> QED BY <1>1, <1>2 DEF Min

\* The attempts of a key are entered as the clock is read: the oldest is in front.
OldestFirst(s) == \A i, j \in DOMAIN s : i <= j => s[i] <= s[j] /\ s[j] <= now

AttemptsAreInOrder ==
  /\ now \in Nat
  /\ attempts \in [Keys -> Seq(Nat)]
  /\ \A k \in Keys : OldestFirst(attempts[k])

\* The attempts of a key that count.
Young(k) == {i \in DOMAIN attempts[k] : now - attempts[k][i] < WINDOW}

\* Popping stops at the first attempt in the window, and leaves out none of them.
LEMMA FrontIsOldestYoung ==
  ASSUME AttemptsAreInOrder, NEW k \in Keys
  PROVE  /\ Front(k) \in 1 .. Len(attempts[k]) + 1
         /\ Young(k) = Front(k) .. Len(attempts[k])
  <1> DEFINE s == attempts[k]
             n == Len(s) + 1
             T == {i \in DOMAIN s : ~Elapsed(s[i])} \union {n}
  <1>1. s \in Seq(Nat) /\ n \in Nat /\ DOMAIN s = 1 .. Len(s) /\ now \in Nat /\ WINDOW \in Nat
    BY AccountsAssumption DEF AttemptsAreInOrder
  <1>2. \A i \in DOMAIN s : s[i] \in Nat
    BY <1>1
  <1>3. \A i \in DOMAIN s : Elapsed(s[i]) <=> i \notin Young(k)
    BY <1>1, <1>2 DEF Young, Elapsed
  <1>4. ASSUME NEW i \in DOMAIN s, NEW j \in DOMAIN s, i <= j, i \in Young(k)
        PROVE  j \in Young(k)
    <2>1. s[i] <= s[j]
      BY <1>4 DEF AttemptsAreInOrder, OldestFirst
    <2>2. now - s[i] < WINDOW
      BY <1>4 DEF Young
    <2>3. s[i] \in Nat /\ s[j] \in Nat /\ now \in Nat /\ WINDOW \in Nat
      BY <1>1, <1>2
    <2>4. now - s[j] < WINDOW
      BY <2>1, <2>2, <2>3
    <2> QED BY <2>4 DEF Young
  <1>5. T \in SUBSET (1 .. n) /\ T # {}
    BY <1>1
  <1>6. Min(T) \in T /\ \A i \in T : Min(T) <= i
    BY <1>1, <1>5, MinExists
  <1>7. Front(k) = Min(T)
    BY DEF Front
  <1> HIDE DEF s, n
  <1>8. Young(k) \subseteq DOMAIN s
    BY DEF Young, s
  <1>9. \A i \in DOMAIN s : i \in Young(k) <=> Min(T) <= i
    BY <1>1, <1>3, <1>4, <1>6 DEF n
  <1>10. Min(T) \in 1 .. n
    BY <1>5, <1>6
  <1>11. Young(k) = Min(T) .. Len(s)
    <2> HIDE DEF T
    <2>1. \A i : i \in Young(k) <=> i \in Min(T) .. Len(s)
      BY <1>1, <1>8, <1>9, <1>10 DEF n
    <2> QED BY <2>1
  <1> QED BY <1>7, <1>10, <1>11 DEF n, s

LEMMA SuffixIsInOrder ==
  ASSUME NEW s \in Seq(Nat), OldestFirst(s), NEW f \in 1 .. Len(s) + 1
  PROVE  /\ SubSeq(s, f, Len(s)) \in Seq(Nat) /\ OldestFirst(SubSeq(s, f, Len(s)))
         /\ Len(SubSeq(s, f, Len(s))) = Cardinality(f .. Len(s))
  <1>1. PICK n \in Nat : n = Len(s)
    OBVIOUS
  <1>2. /\ SubSeq(s, f, n) \in Seq(Nat)
        /\ Len(SubSeq(s, f, n)) = n - f + 1
        /\ \A i \in 1 .. n - f + 1 : SubSeq(s, f, n)[i] = s[f + i - 1]
    BY <1>1
  <1>3. f \in Int /\ n \in Int /\ f <= n + 1
    BY <1>1
  <1>4. Cardinality(f .. n) = IF f > n THEN 0 ELSE n - f + 1
    BY <1>3, FS_Interval
  <1>5. OldestFirst(SubSeq(s, f, n))
    <2> SUFFICES ASSUME NEW i \in 1 .. n - f + 1, NEW j \in 1 .. n - f + 1, i <= j
                 PROVE  SubSeq(s, f, n)[i] <= SubSeq(s, f, n)[j] /\ SubSeq(s, f, n)[j] <= now
      <3>1. DOMAIN SubSeq(s, f, n) = 1 .. n - f + 1
        BY <1>2, <1>3
      <3> QED BY <3>1 DEF OldestFirst
    <2>1. f + i - 1 \in DOMAIN s /\ f + j - 1 \in DOMAIN s /\ f + i - 1 <= f + j - 1
      BY <1>1
    <2>2. s[f + i - 1] <= s[f + j - 1] /\ s[f + j - 1] <= now
      BY <2>1 DEF OldestFirst
    <2> QED BY <1>2, <2>2
  <1> QED BY <1>1, <1>2, <1>3, <1>4, <1>5

LEMMA SuffixIsShorter ==
  ASSUME NEW s \in Seq(Nat), NEW f \in 1 .. Len(s) + 1
  PROVE  Len(SubSeq(s, f, Len(s))) <= Len(s)
  OBVIOUS

LEMMA RecentIsYoung ==
  ASSUME AttemptsAreInOrder, NEW k \in Keys
  PROVE  /\ Recent(k) \in Seq(Nat) /\ OldestFirst(Recent(k))
         /\ Len(Recent(k)) = Cardinality(Young(k))
  BY FrontIsOldestYoung, SuffixIsInOrder DEF AttemptsAreInOrder, Recent

\* The keys that the retain keeps are those with an attempt in the window.
LEMMA CurrentIsYoung ==
  ASSUME AttemptsAreInOrder
  PROVE  Current = {k \in Keys : Young(k) # {}}
  <1>1. ASSUME NEW k \in Keys
        PROVE  k \in Current <=> Young(k) # {}
    <2> DEFINE s == attempts[k]
    <2>1. s \in Seq(Nat) /\ Front(k) \in 1 .. Len(s) + 1 /\ Young(k) = Front(k) .. Len(s)
      BY FrontIsOldestYoung DEF AttemptsAreInOrder
    <2>2. k \in Current <=> s # << >> /\ ~Elapsed(s[Len(s)])
      BY DEF Current, Tracked
    <2>3. CASE s = << >>
      BY <2>1, <2>2, <2>3 DEF Young
    <2>4. CASE s # << >>
      <3>1. Len(s) \in DOMAIN s /\ s[Len(s)] \in Nat /\ now \in Nat /\ WINDOW \in Nat
        BY <2>1, <2>4, AccountsAssumption DEF AttemptsAreInOrder
      <3>2. ~Elapsed(s[Len(s)]) <=> Len(s) \in Young(k)
        BY <3>1 DEF Elapsed, Young
      <3> QED BY <2>1, <2>2, <2>4, <3>1, <3>2
    <2> QED BY <2>3, <2>4
  <1> QED BY <1>1 DEF Current, Tracked

-----------------------------------------------------------------------------
(* The limiter: its steps *)

LEMMA NewestIsLast ==
  ASSUME now \in Nat, NEW s \in Seq(Nat), OldestFirst(s)
  PROVE  Append(s, now) \in Seq(Nat) /\ OldestFirst(Append(s, now))
  <1>1. PICK n \in Nat : n = Len(s)
    OBVIOUS
  <1>2. /\ Append(s, now) \in Seq(Nat) /\ DOMAIN Append(s, now) = 1 .. n + 1 /\ DOMAIN s = 1 .. n
        /\ Append(s, now)[n + 1] = now /\ \A i \in 1 .. n : Append(s, now)[i] = s[i]
    BY <1>1
  <1>3. \A i, j \in 1 .. n : i <= j => s[i] <= s[j] /\ s[j] <= now
    BY <1>2 DEF OldestFirst
  <1>4. ASSUME NEW i \in 1 .. n + 1, NEW j \in 1 .. n + 1, i <= j
        PROVE  Append(s, now)[i] <= Append(s, now)[j] /\ Append(s, now)[j] <= now
    <2>1. CASE j = n + 1 /\ i = n + 1
      BY <1>2, <2>1
    <2>2. CASE j = n + 1 /\ i # n + 1
      BY <1>2, <1>3, <1>4, <2>2
    <2>3. CASE j # n + 1
      BY <1>2, <1>3, <1>4, <2>3
    <2> QED BY <2>1, <2>2, <2>3
  <1> QED BY <1>2, <1>4 DEF OldestFirst

\* What a handler may do to the attempts of a key.
Touched(k) == {attempts[k], << >>, Recent(k), Append(Recent(k), now)}

LEMMA TouchedIsInOrder ==
  ASSUME AttemptsAreInOrder, now' = now, NEW f \in [Keys -> Seq(Nat)], attempts' = f,
         \A k \in Keys : f[k] \in Touched(k)
  PROVE  AttemptsAreInOrder'
  <1> SUFFICES ASSUME NEW k \in Keys PROVE OldestFirst(f[k])
    BY DEF AttemptsAreInOrder, OldestFirst
  <1>1. OldestFirst(attempts[k]) /\ OldestFirst(<< >>)
    BY DEF AttemptsAreInOrder, OldestFirst
  <1>2. OldestFirst(Recent(k)) /\ OldestFirst(Append(Recent(k), now))
    BY RecentIsYoung, NewestIsLast DEF AttemptsAreInOrder
  <1> QED BY <1>1, <1>2 DEF Touched

LEMMA HandlersTouch ==
  ASSUME AttemptsAreInOrder, NEW r \in Sent, Send(r) \/ Handle(r) \/ Drop(r) \/ Expire(r)
  PROVE  /\ now' = now /\ attempts' \in [Keys -> Seq(Nat)]
         /\ \A k \in Keys : attempts'[k] \in Touched(k)
  <1>1. /\ attempts \in [Keys -> Seq(Nat)] /\ << >> \in Seq(Nat)
        /\ \A k \in Keys : Recent(k) \in Seq(Nat) /\ Append(Recent(k), now) \in Seq(Nat)
    BY RecentIsYoung DEF AttemptsAreInOrder
  <1>2. now' = now /\ (UNCHANGED attempts \/ TestSize(r) \/ Enter(r) \/ Cleared(r))
    <2>1. CASE TestSize(r) \/ Enter(r)
      BY <2>1 DEF TestSize, Enter, Turned
    <2>2. CASE Hashed(r) \/ Commit(r)
      BY <2>2 DEF Hashed, Commit
    <2>3. CASE Send(r) \/ Drop(r) \/ Expire(r)
      BY <2>3 DEF Send, Drop, Expire, limiterVars
    <2>4. CASE Lookup(r) \/ Acquire(r) \/ InsertUser(r) \/ InsertSession(r) \/ IssueTicket(r)
               \/ Authorize(r) \/ Revoke(r)
      BY <2>4 DEF Lookup, Acquire, InsertUser, InsertSession, IssueTicket, Authorize, Revoke,
                  limiterVars
    <2> QED BY <2>1, <2>2, <2>3, <2>4 DEF Handle
  <1>3. CASE UNCHANGED attempts
    BY <1>1, <1>2, <1>3 DEF Touched
  <1>4. CASE TestSize(r)
    BY <1>1, <1>2, <1>3, <1>4 DEF TestSize, Retained, Touched
  <1>5. CASE Enter(r)
    <2>1. PICK x \in {Recent(Key(r)), Append(Recent(Key(r)), now)} :
            attempts' = [attempts EXCEPT ![Key(r)] = x]
      BY <1>5 DEF Enter, Turned
    <2> QED BY <1>1, <1>2, <2>1 DEF Touched
  <1>6. CASE Cleared(r)
    BY <1>1, <1>2, <1>6 DEF Cleared, Touched
  <1> QED BY <1>2, <1>3, <1>4, <1>5, <1>6

LEMMA AttemptsStep ==
  AttemptsAreInOrder /\ [AccountsNext]_<<accountsVars, hubVars>> => AttemptsAreInOrder'
  <1> SUFFICES ASSUME AttemptsAreInOrder, [AccountsNext]_<<accountsVars, hubVars>>
               PROVE  AttemptsAreInOrder'
    OBVIOUS
  <1>1. CASE \E r \in Sent : Send(r) \/ Handle(r) \/ Drop(r) \/ Expire(r)
    BY <1>1, HandlersTouch, TouchedIsInOrder
  <1>2. CASE Tick
    <2>1. /\ now \in Nat /\ now' = now + 1 /\ attempts' = attempts
          /\ attempts \in [Keys -> Seq(Nat)]
      BY <1>2 DEF Tick, AttemptsAreInOrder
    <2>2. ASSUME NEW k \in Keys PROVE OldestFirst(attempts[k])'
      <3>1. \A i \in DOMAIN attempts[k] : attempts[k][i] \in Nat
        BY <2>1
      <3>2. OldestFirst(attempts[k])
        BY DEF AttemptsAreInOrder
      <3> QED BY <2>1, <3>1, <3>2 DEF OldestFirst
    <2> QED BY <2>1, <2>2 DEF AttemptsAreInOrder
  <1>3. CASE UNCHANGED accountsVars
    BY <1>3 DEF accountsVars, requestVars, limiterVars, AttemptsAreInOrder, OldestFirst
  <1> QED BY <1>1, <1>2, <1>3 DEF AccountsNext

LEMMA AttemptsHold == AccountsSpec => []AttemptsAreInOrder
  <1>1. AccountsInit => AttemptsAreInOrder
    BY DEF AccountsInit, AttemptsAreInOrder, OldestFirst
  <1> QED BY <1>1, AttemptsStep, PTL DEF AccountsSpec

-----------------------------------------------------------------------------
(* The limiter: its refusals *)

LEMMA HandlersHaveKeys ==
  ASSUME AccountsInv, NEW r \in Sent, step[r] \in {"global", "own", "entering", "entering own"}
  PROVE  Key(r) \in Keys
  <1>1. Call(r).op \in Operations \ {"logout"} /\ Call(r).user \in USERS
    BY PlansAreCalls DEF AccountsInv, AccountsTypeOK, HandlersAreApart, HandlerIsApart, Ended
  <1> QED BY <1>1 DEF Key, Keys, Operations

LEMMA RefusalHasCause ==
  ASSUME AccountsInv, AttemptsAreInOrder, NEW q \in Sent,
         Send(q) \/ Handle(q) \/ Drop(q) \/ Expire(q),
         NEW r \in Sent, step'[r] = "limited", step[r] # "limited"
  PROVE  /\ \/ Cardinality(Young(Key(r))) >= LIMIT[Key(r)]
            \/ Cardinality({k \in Keys : Young(k) # {}}) >= MAX_TRACKED_KEYS
         /\ \A k \in Keys : Len(attempts'[k]) <= Len(attempts[k])
  <1>0. /\ attempts \in [Keys -> Seq(Nat)]
        /\ \A k \in Keys : attempts[k] \in Seq(Nat) /\ Len(attempts[k]) \in Nat
    BY DEF AttemptsAreInOrder
  <1>1. step \in [REQUESTS -> Steps] /\ r \in REQUESTS
    BY PlansAreCalls DEF AccountsInv, AccountsTypeOK
  <1>2. r = q /\ (TestSize(q) \/ Enter(q))
    <2>1. CASE TestSize(q) \/ Enter(q)
      BY <1>1, <2>1 DEF TestSize, Enter, Turned, To
    <2>2. CASE Send(q) \/ Drop(q) \/ Expire(q)
      BY <1>1, <2>2 DEF Send, Drop, Expire, To, First
    <2>3. CASE Lookup(q) \/ Acquire(q) \/ Hashed(q)
      BY <1>1, <2>3 DEF Lookup, Acquire, Hashed, To
    <2>4. CASE InsertUser(q) \/ Commit(q) \/ InsertSession(q) \/ IssueTicket(q)
      BY <1>1, <2>4 DEF InsertUser, Commit, InsertSession, IssueTicket, To
    <2>5. CASE Authorize(q) \/ Revoke(q)
      BY <1>1, <2>5 DEF Authorize, Revoke, To
    <2> QED BY <2>1, <2>2, <2>3, <2>4, <2>5 DEF Handle
  <1>3. CASE TestSize(q)
    <2>1. Cardinality(Current) >= MAX_TRACKED_KEYS
      BY <1>1, <1>2, <1>3 DEF TestSize, To
    <2>2. attempts' \in {attempts, Retained}
      BY <1>3 DEF TestSize
    <2>3. \A k \in Keys : Len(attempts'[k]) <= Len(attempts[k])
      BY <1>0, <2>2 DEF Retained
    <2> QED BY <2>1, <2>3, CurrentIsYoung
  <1>4. CASE Enter(q)
    <2>1. Key(r) \in Keys
      BY <1>2, <1>4, HandlersHaveKeys DEF Enter, Turned
    <2>2. ~Allowed(Key(r)) /\ attempts' = [attempts EXCEPT ![Key(r)] = Recent(Key(r))]
      <3>1. Admitted(q) # "limited"
        <4>1. Call(q).op \in Operations \ {"logout"}
          BY <1>4, PlansAreCalls DEF Enter, Turned, AccountsInv, AccountsTypeOK, HandlersAreApart,
                                     HandlerIsApart, Ended
        <4> QED BY <4>1 DEF Admitted, Operations
      <3> QED BY <1>1, <1>2, <1>4, <3>1 DEF Enter, Turned, To
    <2>3. Len(Recent(Key(r))) = Cardinality(Young(Key(r))) /\ Recent(Key(r)) \in Seq(Nat)
          /\ LIMIT[Key(r)] \in Nat
      BY <2>1, RecentIsYoung, AccountsAssumption
    <2>4. Len(Recent(Key(r))) <= Len(attempts[Key(r)])
      BY <1>0, <2>1, FrontIsOldestYoung, SuffixIsShorter DEF Recent
    <2>5. \A k \in Keys : Len(attempts'[k]) <= Len(attempts[k])
      BY <1>0, <2>1, <2>2, <2>4
    <2> QED BY <2>2, <2>3, <2>5 DEF Allowed
  <1> QED BY <1>2, <1>3, <1>4

\* LimitedForCause: whoever is turned away has used the budget within the window, or
\* the window has seen as many keys as are tracked, and the refusal enters no attempt
\* of its own.  The argument is that attempts are
\* in the order of the clock: what is popped from the front is then exactly what has
\* left the window, and the newest decides whether a key is retained.
THEOREM RefusalsHaveCauses == AccountsSpec => LimitedForCause
  <1> DEFINE HasCause ==
        \A r \in Sent : step'[r] = "limited" /\ step[r] # "limited" =>
          /\ \/ Cardinality(Young(Key(r))) >= LIMIT[Key(r)]
             \/ Cardinality({k \in Keys : Young(k) # {}}) >= MAX_TRACKED_KEYS
          /\ \A k \in Keys : Len(attempts'[k]) <= Len(attempts[k])
  <1>1. ASSUME AccountsInv, AttemptsAreInOrder, [AccountsNext]_<<accountsVars, hubVars>>
        PROVE  [HasCause]_requestVars
    <2>1. CASE \E q \in Sent : Send(q) \/ Handle(q) \/ Drop(q) \/ Expire(q)
      BY <1>1, <2>1, RefusalHasCause
    <2>2. CASE Tick
      BY <2>2 DEF Tick
    <2>3. CASE UNCHANGED accountsVars
      BY <2>3 DEF accountsVars
    <2> QED BY <1>1, <2>1, <2>2, <2>3 DEF AccountsNext
  <1>2. [][HasCause]_requestVars => LimitedForCause
    BY DEF LimitedForCause, Young
  <1> QED BY <1>1, <1>2, AccountsInvHolds, AttemptsHold, PTL DEF AccountsSpec

-----------------------------------------------------------------------------
(* The limiter: the size of its map *)

\* The keys of the map, and those about to be entered.
Pending == Tracked \union {Key(r) : r \in Entering}

Bound == MAX_TRACKED_KEYS + WORKERS

MapIsBounded ==
  /\ IsFiniteSet(Entering) /\ Cardinality(Entering) <= WORKERS
  /\ IsFiniteSet(Pending) /\ Cardinality(Pending) < Bound

\* A handler that is not entering adds nothing that is pending.
LEMMA PendingShrinks ==
  ASSUME MapIsBounded, Entering' \subseteq Entering, Pending' \subseteq Pending
  PROVE  MapIsBounded'
  <1>1. /\ IsFiniteSet(Entering') /\ Cardinality(Entering') <= Cardinality(Entering)
        /\ IsFiniteSet(Pending') /\ Cardinality(Pending') <= Cardinality(Pending)
    BY FS_Subset DEF MapIsBounded
  <1>2. /\ Cardinality(Entering) \in Nat /\ Cardinality(Entering') \in Nat
        /\ Cardinality(Pending) \in Nat /\ Cardinality(Pending') \in Nat
        /\ WORKERS \in Nat /\ Bound \in Nat
    BY <1>1, FS_CardinalityType, AccountsAssumption DEF MapIsBounded, Bound
  <1>3. MapIsBounded' <=> /\ IsFiniteSet(Entering') /\ Cardinality(Entering') <= WORKERS
                          /\ IsFiniteSet(Pending') /\ Cardinality(Pending') < Bound
    BY DEF MapIsBounded, Bound
  <1> QED BY <1>1, <1>2, <1>3 DEF MapIsBounded

LEMMA MapUnchanged ==
  ASSUME MapIsBounded, UNCHANGED <<plan, attempts, step>>
  PROVE  MapIsBounded'
  <1>1. Sent' = Sent /\ Tracked' = Tracked /\ \A q : Key(q)' = Key(q)
    BY DEF Sent, Tracked, Key, Call
  <1>2. Entering' = Entering
    BY <1>1 DEF Entering
  <1>3. Pending' = Pending
    BY <1>1, <1>2 DEF Pending
  <1> QED BY <1>2, <1>3 DEF MapIsBounded, Bound

\* Whatever a handler of another step does, the keys of the others stay.
LEMMA OthersStayPending ==
  ASSUME AccountsInv, NEW r \in Sent, NEW s \in Steps, To(r, s), UNCHANGED plan,
         s \notin {"entering", "entering own"},
         Tracked' \subseteq Tracked
           \union {Key(q) : q \in {p \in {r} : step[p] \in {"entering", "entering own"}}}
  PROVE  Entering' \subseteq Entering /\ Pending' \subseteq Pending
  <1>1. /\ Sent' = Sent /\ \A q : Call(q)' = Call(q)
        /\ \A q \in Sent : q # r => step'[q] = step[q] /\ Key(q)' = Key(q)
        /\ step'[r] = s
    BY PlansAreCalls DEF AccountsInv, AccountsTypeOK, Sent, Call, To, Key
  <1>2. Entering' \subseteq Entering
    BY <1>1 DEF Entering
  <1>3. \A q \in Entering' : Key(q)' = Key(q)
    BY <1>1 DEF Entering
  <1>4. Tracked' \subseteq Pending
    BY DEF Pending, Entering
  <1> QED BY <1>2, <1>3, <1>4 DEF Pending

\* A handler passes the test while fewer than WORKERS have passed it, and while the map
\* has room or the key.
LEMMA PassedTestIsCounted ==
  ASSUME AccountsInv, AttemptsAreInOrder, MapIsBounded, NEW r \in Sent, TestSize(r),
         UNCHANGED plan, step'[r] # "limited"
  PROVE  MapIsBounded'
  <1>1. /\ Sent' = Sent /\ \A q : Call(q)' = Call(q)
        /\ r \in REQUESTS /\ step \in [REQUESTS -> Steps] /\ Sent \subseteq REQUESTS
        /\ attempts \in [Keys -> Seq(Nat)]
    BY PlansAreCalls DEF AccountsInv, AccountsTypeOK, AttemptsAreInOrder, Sent, Call
  <1>2. /\ \A q \in Sent : q # r => step'[q] = step[q] /\ Key(q)' = Key(q)
        /\ step'[r] = IF step[r] = "global" THEN "entering" ELSE "entering own"
        /\ step[r] \in {"global", "own"} /\ r \notin Entering
        /\ ~(NoSpace(Key(r)) /\ Cardinality(Current) >= MAX_TRACKED_KEYS)
        /\ Cardinality(Entering) < WORKERS
    BY <1>1 DEF TestSize, To, Key, Entering
  <1>3. Key(r)' = Key(r)
    BY <1>1, <1>2 DEF Key
  <1>4. Entering' = Entering \union {r}
    BY <1>1, <1>2 DEF Entering
  <1>5. \A q \in Entering' : Key(q)' = Key(q)
    BY <1>1, <1>2, <1>3 DEF Entering
  <1>6. /\ IsFiniteSet(Entering') /\ Cardinality(Entering') <= WORKERS
        /\ Cardinality(Entering') \in Nat
    <2>1. Cardinality(Entering) \in Nat /\ WORKERS \in Nat
      BY FS_CardinalityType, AccountsAssumption DEF MapIsBounded
    <2>2. /\ IsFiniteSet(Entering \union {r})
          /\ Cardinality(Entering \union {r}) = Cardinality(Entering) + 1
      BY <1>2, FS_AddElement DEF MapIsBounded
    <2>3. IsFiniteSet(Entering') /\ Cardinality(Entering') = Cardinality(Entering) + 1
      BY <1>4, <2>2
    <2>4. Cardinality(Entering) < WORKERS
      BY <1>2
    <2> QED BY <2>1, <2>3, <2>4
  <1>7. Pending' = Tracked' \union {Key(q) : q \in Entering'}
    BY <1>5 DEF Pending
  <1>8. IsFiniteSet(Pending') /\ Cardinality(Pending') < Bound
    <2>1. CASE Key(r) \in Tracked
      <3>1. Tracked' = Tracked
        BY <2>1 DEF TestSize, NoSpace, Tracked
      <3>2. Pending' = Pending
        BY <1>4, <1>7, <2>1, <3>1 DEF Pending
      <3> QED BY <3>2 DEF MapIsBounded
    <2>2. CASE Key(r) \notin Tracked
      <3>1. /\ IsFiniteSet(Tracked) /\ IsFiniteSet(Current)
            /\ Cardinality(Tracked) \in Nat /\ Cardinality(Current) \in Nat
            /\ MAX_TRACKED_KEYS \in Nat
        <4>1. Tracked \subseteq Pending /\ Current \subseteq Pending /\ IsFiniteSet(Pending)
          BY DEF Pending, Current, MapIsBounded
        <4>2. IsFiniteSet(Tracked) /\ IsFiniteSet(Current)
          BY <4>1, FS_Subset
        <4> QED BY <4>2, FS_CardinalityType, AccountsAssumption
      <3>2. IsFiniteSet(Tracked') /\ Cardinality(Tracked') < MAX_TRACKED_KEYS
        <4>1. CASE NoSpace(Key(r))
          <5>1. Tracked' = Current
            <6>1. attempts' = Retained
              BY <4>1 DEF TestSize
            <6>2. \A k \in Keys : attempts'[k] # << >> <=> k \in Current
              BY <6>1 DEF Retained, Current, Tracked
            <6> QED BY <6>2 DEF Tracked, Current
          <5>2. ~(Cardinality(Current) >= MAX_TRACKED_KEYS)
            BY <1>2, <4>1
          <5>3. Cardinality(Current) < MAX_TRACKED_KEYS
            BY <3>1, <5>2
          <5> QED BY <3>1, <5>1, <5>3
        <4>2. CASE ~NoSpace(Key(r))
          <5>1. Tracked' = Tracked
            BY <4>2 DEF TestSize, Tracked
          <5> QED BY <2>2, <3>1, <4>2, <5>1 DEF NoSpace
        <4> QED BY <4>1, <4>2
      <3> DEFINE Ks == {Key(q) : q \in Entering'}
                 key == [q \in Entering' |-> Key(q)]
      <3>3. IsFiniteSet(Ks) /\ Cardinality(Ks) <= Cardinality(Entering') /\ Cardinality(Ks) \in Nat
        <4>1. key \in Surjection(Entering', Ks)
          BY DEF Surjection
        <4> HIDE DEF key, Ks
        <4>2. IsFiniteSet(Ks) /\ Cardinality(Ks) <= Cardinality(Entering')
          BY <1>6, <4>1, FS_Surjection
        <4> QED BY <4>2, FS_CardinalityType
      <3> HIDE DEF Ks
      <3>4. /\ IsFiniteSet(Tracked' \union Ks)
            /\ Cardinality(Tracked' \union Ks)
                 = Cardinality(Tracked') + Cardinality(Ks) - Cardinality(Tracked' \cap Ks)
            /\ IsFiniteSet(Tracked' \cap Ks)
        BY <3>2, <3>3, FS_Union, FS_Intersection
      <3>5. /\ Cardinality(Tracked') \in Nat /\ Cardinality(Tracked' \cap Ks) \in Nat
            /\ WORKERS \in Nat /\ MAX_TRACKED_KEYS \in Nat
        BY <3>2, <3>4, FS_CardinalityType, AccountsAssumption
      <3>6. Cardinality(Tracked' \union Ks) < MAX_TRACKED_KEYS + WORKERS
        BY <1>6, <3>2, <3>3, <3>4, <3>5
      <3> QED BY <1>7, <3>4, <3>6 DEF Ks, Bound
    <2> QED BY <2>1, <2>2
  <1> QED BY <1>6, <1>8 DEF MapIsBounded, Bound

LEMMA HandlersKeepMapBounded ==
  ASSUME AccountsInv, AttemptsAreInOrder, MapIsBounded, NEW r \in Sent,
         Send(r) \/ Handle(r) \/ Drop(r) \/ Expire(r), UNCHANGED plan
  PROVE  MapIsBounded'
  <1> DEFINE May(s) == To(r, s) /\ s \in Steps \ {"entering", "entering own"}
             Enterable == {p \in {r} : step[p] \in {"entering", "entering own"}}
  <1>1. ASSUME NEW s, May(s), Tracked' \subseteq Tracked \union {Key(q) : q \in Enterable}
        PROVE  MapIsBounded'
    BY <1>1, OthersStayPending, PendingShrinks
  <1> HIDE DEF May, Enterable
  <1>2. ASSUME UNCHANGED attempts PROVE Tracked' \subseteq Tracked
    BY <1>2 DEF Tracked
  <1>3. CASE TestSize(r)
    <2>1. CASE step'[r] = "limited"
      <3>1. May("limited")
        BY <1>3, <2>1, PlansAreCalls
           DEF TestSize, May, To, Steps, Ended, AccountsInv, AccountsTypeOK
      <3>2. Tracked' \subseteq Tracked
        BY <1>3 DEF TestSize, Retained, Current, Tracked
      <3> QED BY <1>1, <3>1, <3>2
    <2> QED BY <1>3, <2>1, PassedTestIsCounted
  <1>4. CASE Enter(r)
    <2>1. PICK s \in {"limited", Admitted(r)} : To(r, s)
      BY <1>4 DEF Enter, Turned
    <2>2. Call(r).op \in Operations \ {"logout"}
      BY <1>4, PlansAreCalls
         DEF Enter, Turned, AccountsInv, AccountsTypeOK, HandlersAreApart, HandlerIsApart, Ended
    <2>3. May(s)
      BY <2>1, <2>2 DEF May, Admitted, Operations, Steps, Ended
    <2>4. Tracked' \subseteq Tracked \union {Key(r)}
      <3>1. PICK x : attempts' = [attempts EXCEPT ![Key(r)] = x]
        BY <1>4 DEF Enter, Turned
      <3>2. \A k \in Keys : k # Key(r) => attempts'[k] = attempts[k]
        BY <3>1 DEF AttemptsAreInOrder
      <3> QED BY <3>2 DEF Tracked
    <2>5. r \in Enterable
      BY <1>4 DEF Enter, Turned, Enterable
    <2> QED BY <1>1, <2>3, <2>4, <2>5
  <1>5. CASE Hashed(r) \/ Commit(r)
    <2>1. PICK s \in {"insert user", "insert session", "denied", "answered"} : To(r, s)
      BY <1>5 DEF Hashed, Commit
    <2>2. Tracked' \subseteq Tracked
      <3>1. CASE UNCHANGED attempts
        BY <1>2, <3>1
      <3>2. CASE Cleared(r)
        BY <3>2 DEF Cleared, Tracked, AttemptsAreInOrder
      <3> QED BY <1>5, <3>1, <3>2 DEF Hashed, Commit
    <2>3. May(s)
      BY <2>1 DEF May, Steps, Ended
    <2> QED BY <1>1, <2>2, <2>3
  <1>6. CASE Send(r) \/ Drop(r) \/ Lookup(r) \/ Acquire(r)
    <2>1. PICK s \in {"global", "authorize", "dropped", "waiting", "waiting unknown", "hashing",
                     "hashing unknown"} : To(r, s)
      BY <1>6 DEF Send, Drop, Lookup, Acquire, First
    <2>2. UNCHANGED attempts
      BY <1>6 DEF Send, Drop, Lookup, Acquire, limiterVars
    <2>3. May(s)
      BY <2>1 DEF May, Steps, Ended
    <2> QED BY <1>1, <1>2, <2>2, <2>3
  <1>7. CASE InsertUser(r) \/ InsertSession(r) \/ IssueTicket(r) \/ Authorize(r) \/ Revoke(r)
    <2>1. PICK s \in {"commit", "denied", "answered", "own", "revoke"} : To(r, s)
      BY <1>7 DEF InsertUser, InsertSession, IssueTicket, Authorize, Revoke
    <2>2. UNCHANGED attempts
      BY <1>7 DEF InsertUser, InsertSession, IssueTicket, Authorize, Revoke, limiterVars
    <2>3. May(s)
      BY <2>1 DEF May, Steps, Ended
    <2> QED BY <1>1, <1>2, <2>2, <2>3
  <1>8. CASE Expire(r)
    BY <1>8, MapUnchanged DEF Expire, limiterVars
  <1> QED BY <1>3, <1>4, <1>5, <1>6, <1>7, <1>8 DEF Handle

LEMMA MapStep ==
  AccountsInv /\ AttemptsAreInOrder /\ MapIsBounded
    /\ [AccountsNext]_<<accountsVars, hubVars>> => MapIsBounded'
  <1> SUFFICES ASSUME AccountsInv, AttemptsAreInOrder, MapIsBounded,
                      [AccountsNext]_<<accountsVars, hubVars>>
               PROVE  MapIsBounded'
    OBVIOUS
  <1>1. CASE \E r \in Sent : /\ Send(r) \/ Handle(r) \/ Drop(r) \/ Expire(r)
                             /\ UNCHANGED plan
    BY <1>1, HandlersKeepMapBounded
  <1>2. CASE UNCHANGED <<plan, attempts, step>>
    BY <1>2, MapUnchanged
  <1>3. CASE Tick /\ UNCHANGED plan
    BY <1>2, <1>3 DEF Tick
  <1>4. CASE UNCHANGED accountsVars
    BY <1>2, <1>4 DEF accountsVars, requestVars, limiterVars
  <1> QED BY <1>1, <1>3, <1>4 DEF AccountsNext

\* The limiter's map never has as many keys as its limit and the threads together,
\* though each thread tests the size before it enters a key and entries are removed
\* and made between the two.
THEOREM LimiterIsBounded ==
  AccountsSpec => [](Cardinality(Tracked) < MAX_TRACKED_KEYS + WORKERS)
  <1>1. AccountsInit => MapIsBounded
    <2> SUFFICES ASSUME AccountsInit PROVE MapIsBounded
      OBVIOUS
    <2>1. Entering = {} /\ Pending = {}
      BY PlansAreCalls DEF AccountsInit, Entering, Pending, Tracked
    <2> QED BY <2>1, FS_EmptySet, AccountsAssumption DEF MapIsBounded, Bound
  <1>2. MapIsBounded => Cardinality(Tracked) < MAX_TRACKED_KEYS + WORKERS
    <2> SUFFICES ASSUME MapIsBounded PROVE Cardinality(Tracked) < MAX_TRACKED_KEYS + WORKERS
      OBVIOUS
    <2>1. /\ Tracked \subseteq Pending /\ IsFiniteSet(Pending)
          /\ Cardinality(Pending) < MAX_TRACKED_KEYS + WORKERS
      BY DEF Pending, MapIsBounded, Bound
    <2>2. IsFiniteSet(Tracked) /\ Cardinality(Tracked) <= Cardinality(Pending)
      BY <2>1, FS_Subset
    <2>3. /\ Cardinality(Tracked) \in Nat /\ Cardinality(Pending) \in Nat
          /\ MAX_TRACKED_KEYS \in Nat /\ WORKERS \in Nat
      BY <2>1, <2>2, FS_CardinalityType, AccountsAssumption
    <2> QED BY <2>1, <2>2, <2>3
  <1> QED BY <1>1, <1>2, AccountsInvHolds, AttemptsHold, MapStep, PTL DEF AccountsSpec

-----------------------------------------------------------------------------
(* The workers of passwords *)

Hashing == {"hashing", "hashing unknown"}

\* A permit is held exactly while a hash is computed.
PermitsAreOfHashing ==
  /\ permits = {r \in Sent : step[r] \in Hashing}
  /\ IsFiniteSet(permits) /\ Cardinality(permits) <= PERMITS

LEMMA PermitsStep ==
  ASSUME AccountsInv, PermitsAreOfHashing, NEW r \in Sent,
         Send(r) \/ Handle(r) \/ Drop(r) \/ Expire(r), UNCHANGED plan
  PROVE  PermitsAreOfHashing'
  <1>1. /\ Sent' = Sent /\ r \in REQUESTS /\ step \in [REQUESTS -> Steps]
        /\ Sent \subseteq REQUESTS
        /\ permits = {q \in Sent : step[q] \in Hashing}
        /\ IsFiniteSet(permits) /\ Cardinality(permits) <= PERMITS
        /\ Cardinality(permits) \in Nat /\ PERMITS \in Nat
    BY PlansAreCalls, FS_CardinalityType, AccountsAssumption
       DEF AccountsInv, AccountsTypeOK, PermitsAreOfHashing, Sent
  <1>2. ASSUME NEW s, To(r, s), s \notin Hashing, permits' = permits \ {r}
        PROVE  PermitsAreOfHashing'
    <2>1. permits' = {q \in Sent' : step'[q] \in Hashing}
      BY <1>1, <1>2 DEF To
    <2>2. /\ IsFiniteSet(permits') /\ Cardinality(permits') <= Cardinality(permits)
          /\ Cardinality(permits') \in Nat
      <3>1. permits' \in SUBSET permits
        BY <1>2
      <3>2. IsFiniteSet(permits') /\ Cardinality(permits') <= Cardinality(permits)
        BY <1>1, <3>1, FS_Subset
      <3> QED BY <3>2, FS_CardinalityType
    <2>3. Cardinality(permits') <= PERMITS
      BY <1>1, <2>2
    <2> QED BY <2>1, <2>2, <2>3 DEF PermitsAreOfHashing
  <1>3. ASSUME NEW s, To(r, s), s \notin Hashing, step[r] \notin Hashing, UNCHANGED permits
        PROVE  PermitsAreOfHashing'
    <2>1. permits' = permits \ {r}
      BY <1>1, <1>3
    <2> QED BY <1>2, <1>3, <2>1
  <1>4. CASE Acquire(r)
    <2>1. PICK s \in Hashing : To(r, s)
      BY <1>4 DEF Acquire, Hashing
    <2>2. permits' = permits \union {r} /\ r \notin permits /\ Cardinality(permits) < PERMITS
      BY <1>1, <1>4 DEF Acquire, Hashing
    <2>3. permits' = {q \in Sent' : step'[q] \in Hashing}
      BY <1>1, <2>1, <2>2 DEF To
    <2>4. /\ IsFiniteSet(permits \union {r})
          /\ Cardinality(permits \union {r}) = Cardinality(permits) + 1
      BY <1>1, <2>2, FS_AddElement
    <2>5. IsFiniteSet(permits') /\ Cardinality(permits') <= PERMITS
      BY <1>1, <2>2, <2>4
    <2> QED BY <2>3, <2>5 DEF PermitsAreOfHashing
  <1>5. CASE Hashed(r) \/ Drop(r)
    <2>1. permits' = permits \ {r}
      BY <1>5 DEF Hashed, Drop, Released
    <2>2. \E s \in {"insert user", "insert session", "denied", "dropped"} : To(r, s)
      BY <1>5 DEF Hashed, Drop
    <2> QED BY <1>2, <2>1, <2>2 DEF Hashing
  <1>6. CASE \/ Send(r) \/ TestSize(r) \/ Enter(r) \/ Lookup(r) \/ InsertUser(r) \/ Commit(r)
             \/ InsertSession(r) \/ IssueTicket(r) \/ Authorize(r) \/ Revoke(r)
    <2>1. UNCHANGED permits /\ step[r] \notin Hashing
      BY <1>6 DEF Send, TestSize, Enter, Turned, Lookup, InsertUser, Commit, InsertSession,
                  IssueTicket,
                  Authorize, Revoke, Hashing
    <2>2. Call(r).op \in Operations
      BY PlansAreCalls DEF AccountsInv, AccountsTypeOK
    <2>3. CASE Enter(r)
      <3>1. Call(r).op # "logout"
        BY <2>3 DEF Enter, Turned, AccountsInv, HandlersAreApart, HandlerIsApart, Ended
      <3>2. Admitted(r) \notin Hashing
        BY <2>2, <3>1 DEF Admitted, Operations, Hashing
      <3>3. PICK s \in {"limited", Admitted(r)} : To(r, s)
        BY <2>3 DEF Enter, Turned
      <3> QED BY <1>3, <2>1, <3>2, <3>3 DEF Hashing
    <2>4. CASE \/ Send(r) \/ TestSize(r) \/ Lookup(r) \/ InsertUser(r) \/ Commit(r)
               \/ InsertSession(r) \/ IssueTicket(r) \/ Authorize(r) \/ Revoke(r)
      <3>1. \E s \in {"global", "authorize", "limited", "entering", "entering own", "waiting",
                      "waiting unknown", "commit", "denied", "answered", "own", "revoke"} :
              To(r, s)
        BY <2>4 DEF Send, First, TestSize, Lookup, InsertUser, Commit, InsertSession,
                    IssueTicket, Authorize, Revoke
      <3> QED BY <1>3, <2>1, <3>1 DEF Hashing
    <2> QED BY <1>6, <2>3, <2>4
  <1>7. CASE Expire(r)
    BY <1>1, <1>7 DEF Expire, PermitsAreOfHashing
  <1> QED BY <1>4, <1>5, <1>6, <1>7 DEF Handle

\* No permit leaks: those that are out belong to handlers whose hash is being computed,
\* however passwords turn out and wherever clients go away, and there are never more.
THEOREM PermitsAreGivenBack ==
  AccountsSpec => [](/\ permits = {r \in Sent : step[r] \in {"hashing", "hashing unknown"}}
                     /\ Cardinality(permits) <= PERMITS)
  <1>1. AccountsInit => PermitsAreOfHashing
    <2> SUFFICES ASSUME AccountsInit PROVE PermitsAreOfHashing
      OBVIOUS
    <2>1. permits = {} /\ \A r \in Sent : step[r] \notin Hashing
      BY PlansAreCalls DEF AccountsInit, Hashing
    <2>2. Cardinality(permits) = 0 /\ IsFiniteSet(permits) /\ PERMITS \in Nat
      BY <2>1, FS_EmptySet, AccountsAssumption
    <2> QED BY <2>1, <2>2 DEF PermitsAreOfHashing
  <1>2. AccountsInv /\ PermitsAreOfHashing /\ [AccountsNext]_<<accountsVars, hubVars>>
          => PermitsAreOfHashing'
    <2> SUFFICES ASSUME AccountsInv, PermitsAreOfHashing,
                        [AccountsNext]_<<accountsVars, hubVars>>
                 PROVE  PermitsAreOfHashing'
      OBVIOUS
    <2>1. CASE \E r \in Sent : /\ Send(r) \/ Handle(r) \/ Drop(r) \/ Expire(r)
                               /\ UNCHANGED plan
      BY <2>1, PermitsStep
    <2>2. CASE UNCHANGED <<plan, step, permits>>
      BY <2>2 DEF PermitsAreOfHashing, Sent
    <2>3. CASE Tick /\ UNCHANGED plan
      BY <2>2, <2>3 DEF Tick
    <2>4. CASE UNCHANGED accountsVars
      BY <2>2, <2>4 DEF accountsVars, requestVars
    <2> QED BY <2>1, <2>3, <2>4 DEF AccountsNext
  <1>3. PermitsAreOfHashing
          => /\ permits = {r \in Sent : step[r] \in {"hashing", "hashing unknown"}}
             /\ Cardinality(permits) <= PERMITS
    BY DEF PermitsAreOfHashing, Hashing
  <1> QED BY <1>1, <1>2, <1>3, AccountsInvHolds, PTL DEF AccountsSpec
=============================================================================
