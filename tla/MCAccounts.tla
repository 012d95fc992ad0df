---------------------------- MODULE MCAccounts ----------------------------
(* Constant definitions for the model-checking run of Accounts.            *)
EXTENDS Accounts, TLC

CONSTANTS a, b, c1, c2, c3, r1, r2, r3, r4

\* A user who connects twice, and a peer.
Owner == [c \in CONNS |-> IF c = c3 THEN b ELSE a]

\* Two attempts of all users together, one of a user for an account.
Limit == [k \in Keys |-> IF k[2] = NONE THEN 2 ELSE 1]

Does(op, u, right, of) == [op |-> op, user |-> u, right |-> right, of |-> of]

Plan(calls, conns, users, earlier, expiring) ==
  [calls |-> calls, conns |-> conns, accounts |-> users, earlier |-> earlier,
   expiring |-> expiring]

Plans ==
  { \* users who signed in long ago connect
    Plan(r1 :> Does("login", a, TRUE, r1) @@ r2 :> Does("login", b, TRUE, r2),
         {c1, c2, c3}, {a, b}, {r1, r2}, {}),
    \* a user registers, connects and logs out
    Plan(r1 :> Does("register", a, TRUE, r1) @@ r2 :> Does("logout", a, TRUE, r1),
         {c1}, {}, {}, {r1}),
    \* a user signs in twice, plays and logs out
    Plan(r1 :> Does("login", a, TRUE, r1) @@ r2 :> Does("login", a, TRUE, r2)
           @@ r3 :> Does("ticket", a, TRUE, r1) @@ r4 :> Does("logout", a, TRUE, r2),
         {}, {a}, {}, {r1}),
    \* two rivals for a name, and somebody who guesses
    Plan(r1 :> Does("register", a, TRUE, r1) @@ r2 :> Does("register", a, TRUE, r2)
           @@ r3 :> Does("login", a, FALSE, r3),
         {}, {}, {}, {}),
    \* more attempts than one user may make
    Plan(r1 :> Does("login", a, FALSE, r1) @@ r2 :> Does("login", a, TRUE, r2)
           @@ r3 :> Does("login", b, TRUE, r3),
         {}, {a, b}, {}, {}) }
=============================================================================
