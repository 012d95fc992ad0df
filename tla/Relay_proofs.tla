--------------------------- MODULE Relay_proofs ---------------------------
(* Theorems about Relay, for every set of tickets and connections, every   *)
(* capacity of the channels and every length of the clock.                 *)
EXTENDS Relay, FiniteSetTheorems, TLAPS

-----------------------------------------------------------------------------
(* Types and the seats of a bucket *)

Types ==
  /\ now       \in 0 .. LAST
  /\ used      \subseteq TICKETS
  /\ registry  \in [Buckets -> [Users -> CONNS \union {NONE}]]
  /\ ticket    \in [CONNS -> TICKETS \union {NONE}]
  /\ phase     \in [CONNS -> {"unused", "verified", "refused", "admitted",
                              "open", "holding", "leaving", "closed"}]
  /\ \A c \in CONNS : ticket[c] = NONE <=> phase[c] = "unused"
  /\ cancelled \subseteq CONNS

\* The entries of a bucket can be counted.
SeatsAreFinite == \A b \in Buckets : IsFiniteSet(Entries(b))

\* Only connections that were admitted to their bucket are replaced.
CancelledWereOpen == \A c \in cancelled : phase[c] \in {"open", "holding", "leaving", "closed"}

SeatInv == Types /\ SeatsAreFinite /\ CancelledWereOpen /\ BucketsAreLive /\ OpenIsRegistered

LEMMA PlacesInBuckets ==
  ASSUME Types, NEW c \in CONNS, phase[c] # "unused"
  PROVE  Bucket(c) \in Buckets /\ User(c) \in Users
  BY RelayAssumption DEF Types, Bucket, User, Buckets, Users

LEMMA SeatInit == Init => SeatInv
  <1> SUFFICES ASSUME Init PROVE SeatInv
    OBVIOUS
  <1>1. Types /\ OpenIsRegistered
    BY RelayAssumption DEF Init, Types, OpenIsRegistered
  <1>2. \A b \in Buckets : Entries(b) = {}
    BY DEF Init, Entries
  <1>3. SeatsAreFinite
    BY <1>2, FS_EmptySet DEF SeatsAreFinite
  <1>4. BucketsAreLive
    <2>1. \A b \in Buckets : Cardinality(Entries(b)) <= 2
      BY <1>2, FS_EmptySet
    <2>2. \A b \in Buckets, u \in Users : registry[b][u] = NONE
      BY DEF Init
    <2> QED BY <2>1, <2>2 DEF BucketsAreLive
  <1> QED BY <1>1, <1>3, <1>4 DEF SeatInv, CancelledWereOpen, Init

\* What is left of a bucket's invariant when its registry stays.
LEMMA RegistryStays ==
  ASSUME SeatInv, UNCHANGED <<registry, cancelled>>,
         \A c \in CONNS : phase[c] \in {"open", "holding", "leaving"} =>
           phase'[c] \in {"open", "holding", "leaving"} /\ ticket'[c] = ticket[c],
         \A c \in CONNS : phase'[c] \in {"open", "holding"} =>
           phase[c] \in {"open", "holding"} /\ ticket'[c] = ticket[c],
         \A c \in CONNS : phase[c] = "closed" => phase'[c] = "closed"
  PROVE  SeatsAreFinite' /\ CancelledWereOpen' /\ BucketsAreLive' /\ OpenIsRegistered'
  <1> USE DEF SeatInv
  <1>1. \A b : Entries(b)' = Entries(b)
    BY DEF Entries
  <1>2. SeatsAreFinite'
    BY <1>1 DEF SeatsAreFinite
  <1>3. BucketsAreLive'
    BY <1>1, RelayAssumption DEF BucketsAreLive, Types, Bucket, User
  <1>4. OpenIsRegistered'
    BY DEF OpenIsRegistered, Bucket, User
  <1>5. CancelledWereOpen'
    BY DEF CancelledWereOpen, Types
  <1> QED BY <1>2, <1>3, <1>4, <1>5

\* A seat that was free, or that another connection had, is taken.
LEMMA SeatsCount ==
  ASSUME NEW E, NEW c, IsFiniteSet(E), c \notin E, Cardinality(E) <= 2
  PROVE  /\ Cardinality(E) < 2 => IsFiniteSet(E \union {c}) /\ Cardinality(E \union {c}) <= 2
         /\ \A p \in E : /\ IsFiniteSet((E \ {p}) \union {c})
                        /\ Cardinality((E \ {p}) \union {c}) <= 2
  <1>1. Cardinality(E) \in Nat
    BY FS_CardinalityType
  <1>3. ASSUME NEW p \in E
        PROVE  /\ IsFiniteSet((E \ {p}) \union {c}) /\ Cardinality((E \ {p}) \union {c}) <= 2
    <2>1. /\ IsFiniteSet(E \ {p}) /\ Cardinality(E \ {p}) = Cardinality(E) - 1
      BY FS_RemoveElement
    <2>2. /\ IsFiniteSet((E \ {p}) \union {c})
          /\ Cardinality((E \ {p}) \union {c}) = Cardinality(E \ {p}) + 1
      BY <2>1, FS_AddElement
    <2> QED BY <1>1, <2>1, <2>2
  <1> QED
    <2>1. Cardinality(E) < 2 => IsFiniteSet(E \union {c}) /\ Cardinality(E \union {c}) <= 2
      <3> SUFFICES ASSUME Cardinality(E) < 2
                   PROVE  IsFiniteSet(E \union {c}) /\ Cardinality(E \union {c}) <= 2
        OBVIOUS
      <3>1. IsFiniteSet(E \union {c}) /\ Cardinality(E \union {c}) = Cardinality(E) + 1
        BY FS_AddElement
      <3> QED BY <1>1, <3>1
    <2> QED BY <1>3, <2>1

LEMMA JoinKeepsSeats ==
  ASSUME SeatInv, NEW c \in CONNS, Join(c)
  PROVE  SeatInv'
  <1> USE RelayAssumption DEF SeatInv
  <1>1. PICK b \in Buckets, u \in Users : b = Bucket(c) /\ u = User(c)
    BY PlacesInBuckets DEF Join
  <1>2. PICK previous : previous = registry[b][u]
    OBVIOUS
  <1>3. /\ ticket' = ticket /\ phase[c] = "admitted"
        /\ \A d \in CONNS : phase'[d] = IF d = c THEN "open" ELSE phase[d]
        /\ \A d \in Buckets, v \in Users :
             registry'[d][v] = IF d = b /\ v = u THEN c ELSE registry[d][v]
        /\ cancelled' = IF previous = NONE THEN cancelled ELSE cancelled \union {previous}
    BY <1>1, <1>2 DEF Join, Goto, Types
  <1>4. Types'
    <2>1. previous \in CONNS \union {NONE} /\ ticket[c] # NONE
      BY <1>1, <1>2, <1>3 DEF Types
    <2> QED BY <1>1, <1>2, <2>1 DEF Types, Join, Goto
  <1>5. \A d \in Buckets : \A v \in Users : registry[d][v] # c
    BY <1>3 DEF BucketsAreLive
  <1>6. \A d \in Buckets : d # b => Entries(d)' = Entries(d)
    BY <1>3 DEF Entries
  <1>7. /\ IsFiniteSet(Entries(b)) /\ Cardinality(Entries(b)) <= 2 /\ c \notin Entries(b)
        /\ Cardinality(Entries(b)) \in Nat
    BY <1>1, <1>5, FS_CardinalityType DEF SeatsAreFinite, BucketsAreLive, Entries
  <1>8. IsFiniteSet(Entries(b)') /\ Cardinality(Entries(b)') <= 2
    <2>1. PICK seats : seats = Entries(b)
      OBVIOUS
    <2>2. PICK later : later = Entries(b)'
      OBVIOUS
    <2>3. \A v \in Users : registry[b][v] = previous /\ previous # NONE => v = u
      BY <1>1, <1>2 DEF BucketsAreLive
    <2>4. later = (seats \ {previous}) \union {c}
      BY <1>1, <1>2, <1>3, <2>1, <2>2, <2>3 DEF Entries
    <2>5. IsFiniteSet(seats) /\ c \notin seats /\ Cardinality(seats) <= 2
      BY <1>7, <2>1
    <2>6. SUFFICES IsFiniteSet(later) /\ Cardinality(later) <= 2
      BY <2>2
    <2>7. CASE previous = NONE
      <3>1. later = seats \union {c}
        BY <2>1, <2>4, <2>7 DEF Entries
      <3>2. Cardinality(seats) < 2
        BY <1>1, <1>2, <1>7, <2>1, <2>7 DEF Join, Full
      <3> QED BY <2>5, <3>1, <3>2, SeatsCount
    <2>8. CASE previous # NONE
      <3>1. previous \in seats
        BY <1>1, <1>2, <2>1, <2>8 DEF Entries
      <3> QED BY <2>4, <2>5, <3>1, SeatsCount
    <2> QED BY <2>7, <2>8
  <1>9. SeatsAreFinite'
    BY <1>6, <1>8 DEF SeatsAreFinite
  <1>10. \A d \in Buckets : Cardinality(Entries(d)') <= 2
    BY <1>6, <1>8 DEF BucketsAreLive
  <1>11. ASSUME NEW d \in Buckets, NEW v \in Users, NEW e, e = registry'[d][v], e # NONE
         PROVE  /\ Bucket(e)' = d /\ User(e)' = v
                /\ phase'[e] \in {"open", "holding", "leaving"} /\ e \notin cancelled'
    <2>1. CASE d = b /\ v = u
      <3>1. e = c /\ c # previous /\ c \notin cancelled
        BY <1>1, <1>2, <1>3, <1>5, <1>11, <2>1 DEF CancelledWereOpen
      <3> QED BY <1>1, <1>3, <2>1, <3>1 DEF Bucket, User
    <2>2. CASE ~(d = b /\ v = u)
      <3>1. /\ e = registry[d][v] /\ e \in CONNS /\ e # c /\ Bucket(e) = d /\ User(e) = v
            /\ phase[e] \in {"open", "holding", "leaving"} /\ e \notin cancelled
        BY <1>3, <1>5, <1>11, <2>2 DEF BucketsAreLive, Types
      <3>2. previous # NONE => Bucket(previous) = b /\ User(previous) = u
        BY <1>1, <1>2 DEF BucketsAreLive
      <3> QED BY <1>1, <1>3, <2>2, <3>1, <3>2 DEF Bucket, User
    <2> QED BY <2>1, <2>2
  <1>12. BucketsAreLive'
    BY <1>10, <1>11 DEF BucketsAreLive
  <1>13. OpenIsRegistered'
    <2> SUFFICES ASSUME NEW d \in CONNS, phase'[d] \in {"open", "holding"}, d \notin cancelled'
                 PROVE  registry'[Bucket(d)'][User(d)'] = d
      BY DEF OpenIsRegistered
    <2>1. Bucket(d)' = Bucket(d) /\ User(d)' = User(d)
      BY <1>3 DEF Bucket, User
    <2>2. CASE d = c
      BY <1>1, <1>3, <2>1, <2>2
    <2>3. CASE d # c
      <3>1. registry[Bucket(d)][User(d)] = d /\ Bucket(d) \in Buckets /\ User(d) \in Users
        BY <1>3, <2>3, PlacesInBuckets DEF OpenIsRegistered
      <3>2. d # previous
        BY <1>3, RelayAssumption
      <3> QED BY <1>2, <1>3, <2>1, <3>1, <3>2
    <2> QED BY <2>2, <2>3
  <1>14. CancelledWereOpen'
    BY <1>1, <1>2, <1>3 DEF CancelledWereOpen, BucketsAreLive, Types
  <1> QED BY <1>4, <1>9, <1>12, <1>13, <1>14

LEMMA LeaveKeepsSeats ==
  ASSUME SeatInv, NEW c \in CONNS, Leave(c)
  PROVE  SeatInv'
  <1> USE RelayAssumption DEF SeatInv
  <1>1. PICK b \in Buckets, u \in Users : b = Bucket(c) /\ u = User(c)
    BY PlacesInBuckets DEF Leave
  <1>2. /\ ticket' = ticket /\ cancelled' = cancelled /\ phase[c] = "leaving"
        /\ \A d \in CONNS : phase'[d] = IF d = c THEN "closed" ELSE phase[d]
        /\ \A d \in Buckets, v \in Users :
             registry'[d][v] = IF d = b /\ v = u /\ registry[b][u] = c THEN NONE
                                                                 ELSE registry[d][v]
    BY <1>1 DEF Leave, Departed, Goto, Types
  <1>3. Types'
    BY <1>1 DEF Types, Leave, Departed, Goto
  <1>4. CancelledWereOpen'
    BY <1>2 DEF CancelledWereOpen, Types
  <1>5. \A d \in Buckets : /\ Entries(d)' \subseteq Entries(d)
                           /\ IsFiniteSet(Entries(d)) /\ Cardinality(Entries(d)) <= 2
    BY <1>2 DEF Entries, SeatsAreFinite, BucketsAreLive
  <1>6. ASSUME NEW d \in Buckets PROVE IsFiniteSet(Entries(d)') /\ Cardinality(Entries(d)') <= 2
    <2>1. PICK seats : seats = Entries(d)
      OBVIOUS
    <2>2. PICK later : later = Entries(d)'
      OBVIOUS
    <2>3. later \in SUBSET seats /\ IsFiniteSet(seats) /\ Cardinality(seats) <= 2
      BY <1>5, <2>1, <2>2
    <2>4. IsFiniteSet(later) /\ Cardinality(later) <= Cardinality(seats)
      BY <2>3, FS_Subset
    <2>5. Cardinality(later) \in Nat /\ Cardinality(seats) \in Nat
      BY <2>3, <2>4, FS_CardinalityType
    <2> QED BY <2>2, <2>3, <2>4, <2>5
  <1>7. SeatsAreFinite'
    BY <1>6 DEF SeatsAreFinite
  <1>8. ASSUME NEW d \in Buckets, NEW v \in Users, NEW e, e = registry'[d][v], e # NONE
        PROVE  /\ Bucket(e)' = d /\ User(e)' = v
               /\ phase'[e] \in {"open", "holding", "leaving"} /\ e \notin cancelled'
    <2>1. /\ e = registry[d][v] /\ e \in CONNS /\ Bucket(e) = d /\ User(e) = v
          /\ phase[e] \in {"open", "holding", "leaving"} /\ e \notin cancelled
      BY <1>2, <1>8 DEF BucketsAreLive, Types
    <2>2. e # c
      BY <1>1, <1>2, <1>8, <2>1
    <2> QED BY <1>2, <2>1, <2>2 DEF Bucket, User
  <1>9. BucketsAreLive'
    BY <1>6, <1>8 DEF BucketsAreLive
  <1>10. OpenIsRegistered'
    <2> SUFFICES ASSUME NEW d \in CONNS, phase'[d] \in {"open", "holding"}, d \notin cancelled'
                 PROVE  registry'[Bucket(d)'][User(d)'] = d
      BY DEF OpenIsRegistered
    <2>1. Bucket(d)' = Bucket(d) /\ User(d)' = User(d) /\ d # c
      BY <1>2 DEF Bucket, User
    <2>2. registry[Bucket(d)][User(d)] = d /\ Bucket(d) \in Buckets /\ User(d) \in Users
      BY <1>2, <2>1, PlacesInBuckets DEF OpenIsRegistered
    <2> QED BY <1>2, <2>1, <2>2
  <1> QED BY <1>3, <1>4, <1>7, <1>9, <1>10

LEMMA SeatStep == SeatInv /\ [Next]_vars => SeatInv'
  <1> SUFFICES ASSUME SeatInv, [Next]_vars PROVE SeatInv'
    OBVIOUS
  <1> USE RelayAssumption DEF SeatInv, Goto, traffic, handler
  <1>1. ASSUME NEW c \in CONNS, Verify(c) PROVE SeatInv'
    <2>1. Types'
      BY <1>1 DEF Verify, Types
    <2>2. \A d \in CONNS : d # c => phase'[d] = phase[d] /\ ticket'[d] = ticket[d]
      BY <1>1 DEF Verify, Types
    <2>3. phase[c] = "unused" /\ phase'[c] = "verified" /\ UNCHANGED <<registry, cancelled>>
      BY <1>1 DEF Verify, Types
    <2> QED BY <2>1, <2>2, <2>3, RegistryStays
  <1>2. ASSUME NEW c \in CONNS,
               Redeem(c) \/ UpgradeFails(c) \/ JoinFull(c) \/ Replaced(c) \/ Expire(c)
                 \/ Disconnect(c) \/ Read(c) \/ Broadcast(c)
        PROVE  SeatInv'
    <2>1. /\ UNCHANGED <<registry, cancelled, ticket, now>>
          /\ \A d \in CONNS : d # c => phase'[d] = phase[d]
          /\ \/ phase[c] = "verified" /\ phase'[c] \in {"refused", "admitted"}
             \/ phase[c] = "admitted" /\ phase'[c] = "closed"
             \/ phase[c] = "open" /\ phase'[c] \in {"leaving", "holding"}
             \/ phase[c] = "holding" /\ phase'[c] = "open"
          /\ phase' \in [CONNS -> {"unused", "verified", "refused", "admitted",
                                  "open", "holding", "leaving", "closed"}]
          /\ used' \subseteq TICKETS
      <3> USE DEF Types
      <3>1. CASE Redeem(c)
        BY <3>1 DEF Redeem
      <3>2. CASE UpgradeFails(c) \/ JoinFull(c)
        BY <3>2 DEF UpgradeFails, JoinFull
      <3>3. CASE Replaced(c) \/ Expire(c) \/ Disconnect(c)
        BY <3>3 DEF Replaced, Expire, Disconnect
      <3>4. CASE Read(c)
        BY <3>4 DEF Read, CanRead
      <3>5. CASE Broadcast(c)
        BY <3>5 DEF Broadcast
      <3> QED BY <1>2, <3>1, <3>2, <3>3, <3>4, <3>5
    <2>2. Types'
      BY <2>1 DEF Types
    <2> QED BY <2>1, <2>2, RegistryStays
  <1>3. ASSUME NEW c \in CONNS, ReadOther(c) \/ Send(c) \/ SendFails(c) PROVE SeatInv'
    <2>1. UNCHANGED <<registry, cancelled, ticket, phase, now, used>>
      BY <1>3 DEF ReadOther, Send, SendFails
    <2>2. Types'
      BY <2>1 DEF Types
    <2> QED BY <2>1, <2>2, RegistryStays
  <1>4. CASE Tick \/ CleanUp
    <2>1. UNCHANGED <<registry, cancelled, ticket, phase>>
      BY <1>4 DEF Tick, CleanUp
    <2>2. Types'
      BY <1>4 DEF Types, Tick, CleanUp
    <2> QED BY <2>1, <2>2, RegistryStays
  <1>5. CASE UNCHANGED vars
    <2>1. UNCHANGED <<registry, cancelled, ticket, phase, now, used>>
      BY <1>5 DEF vars
    <2>2. Types'
      BY <2>1 DEF Types
    <2> QED BY <2>1, <2>2, RegistryStays
  <1> QED
    BY <1>1, <1>2, <1>3, <1>4, <1>5, JoinKeepsSeats, LeaveKeepsSeats DEF Next, Handle

LEMMA SeatInvHolds == Spec => []SeatInv
  BY SeatInit, SeatStep, PTL DEF Spec

\* BucketsAreLive: a bucket holds two users at most, and no connection whose handler
\* is gone or that was replaced, for any number of users and connections.
THEOREM SeatsAreGivenBack == Spec => []BucketsAreLive
  BY SeatInvHolds, PTL DEF SeatInv

\* OpenIsRegistered: no late cleanup of an older connection evicts a newer one.
THEOREM NewestIsNotEvicted == Spec => []OpenIsRegistered
  BY SeatInvHolds, PTL DEF SeatInv

-----------------------------------------------------------------------------
(* Spent tickets *)

\* The nonce of an admitted connection is remembered as long as its ticket is valid.
SpentIsRemembered ==
  \A c \in CONNS : phase[c] \in {"admitted", "open", "holding", "leaving", "closed"} =>
    ticket[c] \in used \/ now > ticket[c].expires

LEMMA SpentInit == Init => SpentIsRemembered
  BY DEF Init, SpentIsRemembered

\* The nonce is kept through the last second in which its ticket verifies.
LEMMA SpentStep ==
  ASSUME Types, SpentIsRemembered, [Next]_vars
  PROVE  SpentIsRemembered'
  <1> USE RelayAssumption DEF Types, Goto, traffic, handler
  <1>1. ASSUME NEW c \in CONNS, Redeem(c) PROVE SpentIsRemembered'
    BY <1>1 DEF Redeem, SpentIsRemembered
  <1>2. ASSUME NEW c \in CONNS, Verify(c) PROVE SpentIsRemembered'
    BY <1>2 DEF Verify, SpentIsRemembered
  <1>3. ASSUME UNCHANGED <<now, used, ticket>>,
               \A c \in CONNS : phase'[c] \in {"admitted", "open", "holding", "leaving", "closed"} =>
                 phase[c] \in {"admitted", "open", "holding", "leaving", "closed"}
        PROVE  SpentIsRemembered'
    BY <1>3 DEF SpentIsRemembered
  <1>4. ASSUME NEW c \in CONNS,
               UpgradeFails(c) \/ JoinFull(c) \/ Replaced(c) \/ Expire(c) \/ Disconnect(c)
        PROVE  SpentIsRemembered'
    BY <1>3, <1>4 DEF UpgradeFails, JoinFull, Replaced, Expire, Disconnect
  <1>5. ASSUME NEW c \in CONNS, Join(c) \/ Leave(c) PROVE SpentIsRemembered'
    BY <1>3, <1>5 DEF Join, Leave
  <1>6. ASSUME NEW c \in CONNS, Read(c) \/ Broadcast(c) PROVE SpentIsRemembered'
    BY <1>3, <1>6 DEF Read, CanRead, Broadcast
  <1>7. ASSUME NEW c \in CONNS, ReadOther(c) \/ Send(c) \/ SendFails(c) PROVE SpentIsRemembered'
    BY <1>3, <1>7 DEF ReadOther, Send, SendFails
  <1>8. CASE Tick
    BY <1>8 DEF Tick, SpentIsRemembered
  <1>9. CASE CleanUp
    BY <1>9 DEF CleanUp, Kept, SpentIsRemembered
  <1>10. CASE UNCHANGED vars
    BY <1>3, <1>10 DEF vars
  <1> QED
    BY <1>1, <1>2, <1>4, <1>5, <1>6, <1>7, <1>8, <1>9, <1>10 DEF Next, Handle

LEMMA OnlyRedeemAdmits ==
  ASSUME Types, [Next]_vars, NEW c \in CONNS, phase[c] = "verified", phase'[c] = "admitted"
  PROVE  ticket[c] \notin used
  <1> USE DEF Types, Goto, traffic, handler
  <1>1. ASSUME NEW d \in CONNS, Verify(d) \/ UpgradeFails(d) \/ Join(d) \/ JoinFull(d) \/ Leave(d)
        PROVE  FALSE
    BY <1>1 DEF Verify, UpgradeFails, Join, JoinFull, Leave
  <1>2. ASSUME NEW d \in CONNS, Replaced(d) \/ Expire(d) \/ Disconnect(d) PROVE FALSE
    BY <1>2 DEF Replaced, Expire, Disconnect
  <1>3. ASSUME NEW d \in CONNS, Read(d) \/ Broadcast(d) PROVE FALSE
    BY <1>3 DEF Read, CanRead, Broadcast
  <1>4. ASSUME NEW d \in CONNS, ReadOther(d) \/ Send(d) \/ SendFails(d) PROVE FALSE
    BY <1>4 DEF ReadOther, Send, SendFails
  <1>5. ~(Tick \/ CleanUp \/ UNCHANGED vars)
    BY DEF Tick, CleanUp, vars
  <1>6. PICK d \in CONNS : Redeem(d)
    BY <1>1, <1>2, <1>3, <1>4, <1>5 DEF Next, Handle
  <1> QED BY <1>6 DEF Redeem

LEMMA ReplayInv == Spec => [](SeatInv /\ SpentIsRemembered)
  <1>1. SeatInv /\ SpentIsRemembered /\ [Next]_vars => (SeatInv /\ SpentIsRemembered)'
    BY SeatStep, SpentStep DEF SeatInv
  <1> QED BY SeatInit, SpentInit, <1>1, PTL DEF Spec

\* ReplayIsRefused: while a ticket is valid, its nonce admits one connection only,
\* for any tickets, any clock, and whenever the cleanup runs.
THEOREM ReplaysAreRefused == Spec => ReplayIsRefused
  <1>1. SeatInv /\ SpentIsRemembered /\ [Next]_vars =>
          [\A c, d \in CONNS :
             (/\ c # d /\ ticket[c] = ticket[d]
              /\ phase[d] \in {"admitted", "open", "holding", "leaving", "closed"}
              /\ phase[c] = "verified" /\ phase'[c] = "admitted")
             => now > ticket[c].expires]_vars
    BY OnlyRedeemAdmits DEF SeatInv, SpentIsRemembered
  <1> QED BY <1>1, ReplayInv, PTL DEF Spec, ReplayIsRefused

-----------------------------------------------------------------------------
(* Frames *)

Frames == [from : CONNS, n : Nat]

\* FramesInOrder of one queue, whose receiver has seen s.
InOrder(q, s) ==
  \A i \in 1 .. Len(q) : q[i].n > 0 =>
    /\ s[q[i].from] < q[i].n
    /\ \A j \in i + 1 .. Len(q) : q[j].from = q[i].from /\ q[j].n > 0 => q[i].n < q[j].n

LEMMA EnqueueAppends ==
  ASSUME NEW q \in Seq(Frames), NEW f \in Frames
  PROVE  /\ Enqueue(q, f) \in Seq(Frames)
         /\ \/ Enqueue(q, f) = q
            \/ /\ Len(Enqueue(q, f)) = Len(q) + 1
               /\ \A i \in 1 .. Len(q) : Enqueue(q, f)[i] = q[i]
               /\ Enqueue(q, f)[Len(q) + 1] = f
  BY DEF Enqueue

\* A message of the relay itself disturbs no order; a new frame of a connection comes
\* after all that were seen or are queued.
LEMMA EnqueueKeepsOrder ==
  ASSUME NEW q \in Seq(Frames), NEW f \in Frames, NEW s \in [CONNS -> Nat], InOrder(q, s),
         f.n > 0 => /\ s[f.from] < f.n
                    /\ \A i \in 1 .. Len(q) : q[i].from = f.from => q[i].n < f.n
  PROVE  InOrder(Enqueue(q, f), s)
  <1>1. PICK r \in Seq(Frames) : r = Enqueue(q, f)
    BY EnqueueAppends
  <1>2. CASE r = q
    BY <1>1, <1>2
  <1>3. CASE /\ Len(r) = Len(q) + 1 /\ \A i \in 1 .. Len(q) : r[i] = q[i]
             /\ r[Len(q) + 1] = f
    <2> SUFFICES ASSUME NEW i \in 1 .. Len(r), r[i].n > 0
                 PROVE  /\ s[r[i].from] < r[i].n
                        /\ \A j \in i + 1 .. Len(r) :
                             r[j].from = r[i].from /\ r[j].n > 0 => r[i].n < r[j].n
      BY <1>1 DEF InOrder
    <2>1. CASE i \in 1 .. Len(q)
      BY <1>3, <2>1 DEF InOrder
    <2>2. CASE i = Len(q) + 1
      BY <1>3, <2>2
    <2> QED BY <1>3, <2>1, <2>2
  <1> QED BY <1>1, <1>2, <1>3, EnqueueAppends

\* The head of a queue is received.
Received(s, f) == IF f.n = 0 THEN s ELSE [s EXCEPT ![f.from] = f.n]

LEMMA TailKeepsOrder ==
  ASSUME NEW q \in Seq(Frames), q # << >>, NEW s \in [CONNS -> Nat], InOrder(q, s)
  PROVE  /\ InOrder(Tail(q), Received(s, Head(q)))
         /\ Received(s, Head(q)) \in [CONNS -> Nat]
  <1>1. PICK r \in Seq(Frames) : r = Tail(q)
    <2>1. Tail(q) \in Seq(Frames)
      OBVIOUS
    <2> QED BY <2>1
  <1>2. /\ Len(r) = Len(q) - 1 /\ Len(q) > 0 /\ Head(q) = q[1] /\ q[1] \in Frames
        /\ \A i \in 1 .. Len(r) : r[i] = q[i + 1] /\ r[i] \in Frames
    BY <1>1
  <1>3. Received(s, Head(q)) \in [CONNS -> Nat]
    BY <1>2 DEF Received, Frames
  <1>4. ASSUME NEW i \in 1 .. Len(r), r[i].n > 0
        PROVE  /\ Received(s, Head(q))[r[i].from] < r[i].n
               /\ \A j \in i + 1 .. Len(r) :
                    r[j].from = r[i].from /\ r[j].n > 0 => r[i].n < r[j].n
    <2>1. /\ 1 \in 1 .. Len(q) /\ i + 1 \in 1 .. Len(q) /\ i + 1 \in 1 + 1 .. Len(q)
          /\ r[i] = q[i + 1] /\ r[i] \in Frames
      BY <1>2
    <2>2. s[r[i].from] < r[i].n
      BY <1>4, <2>1 DEF InOrder
    <2>3. q[1].n > 0 /\ q[1].from = r[i].from => q[1].n < r[i].n
      BY <1>4, <2>1 DEF InOrder
    <2>4. Received(s, Head(q))[r[i].from] < r[i].n
      <3>1. PICK h \in Frames : h = q[1]
        BY <1>2
      <3>2. h.n \in Nat /\ h.from \in CONNS /\ r[i].from \in CONNS
        BY <2>1 DEF Frames
      <3>3. CASE h.n = 0
        BY <1>2, <2>2, <3>1, <3>3 DEF Received
      <3>4. CASE h.n > 0
        BY <1>2, <2>2, <2>3, <3>1, <3>2, <3>4 DEF Received
      <3> QED BY <3>2, <3>3, <3>4
    <2>5. ASSUME NEW j \in i + 1 .. Len(r), r[j].from = r[i].from, r[j].n > 0
          PROVE  r[i].n < r[j].n
      <3>1. j + 1 \in (i + 1) + 1 .. Len(q) /\ r[j] = q[j + 1]
        BY <1>2, <2>1
      <3> QED BY <1>4, <2>1, <2>5, <3>1 DEF InOrder
    <2> QED BY <2>4, <2>5
  <1> QED BY <1>1, <1>3, <1>4 DEF InOrder

\* The last frame of c that has been broadcast.
Released(c) == IF phase[c] = "holding" THEN read[c] - 1 ELSE read[c]

NotYetOpen == {"unused", "verified", "refused", "admitted"}

\* Nobody has a frame that was not broadcast; a connection that has not been open has
\* sent nothing and is sent nothing.
FramesAreReleased ==
  /\ read \in [CONNS -> Nat] /\ sending \subseteq CONNS
  /\ seen \in [CONNS -> [CONNS -> Nat]]
  /\ queue \in [CONNS -> Seq(Frames)]
  /\ \A c \in CONNS : phase[c] = "holding" => read[c] > 0
  /\ \A c \in CONNS : phase[c] \in NotYetOpen =>
       read[c] = 0 /\ queue[c] = << >> /\ c \notin sending
  /\ \A d, c \in CONNS : seen[d][c] <= Released(c)
  /\ \A d \in CONNS : \A i \in 1 .. Len(queue[d]) :
       queue[d][i].n <= Released(queue[d][i].from)

FrameInv == SeatInv /\ FramesAreReleased /\ FramesStayInBucket /\ FramesInOrder

LEMMA OrderPerQueue == FramesInOrder <=> \A d \in CONNS : InOrder(queue[d], seen[d])
  BY DEF FramesInOrder, InOrder

LEMMA FrameInit == Init => FrameInv
  BY SeatInit DEF Init, FrameInv, FramesAreReleased, FramesStayInBucket, FramesInOrder, Released

\* The frames of c that d is sent are of c's bucket, which is d's.
InBucket(f, d) ==
  f.n > 0 => /\ f.from # d
             /\ ticket[f.from].room = ticket[d].room
             /\ ticket[f.from].capability = ticket[d].capability

\* A message of the relay itself, or a dropped queue, adds no frame to a queue.
LEMMA ControlAddsNoFrame ==
  ASSUME NEW q \in Seq(Frames), NEW s \in [CONNS -> Nat], InOrder(q, s), NEW r,
         \/ r = q
         \/ r = << >>
         \/ \E e \in CONNS : r = Enqueue(q, Control(e))
  PROVE  /\ r \in Seq(Frames)
         /\ InOrder(r, s)
         /\ \A i \in 1 .. Len(r) :
              /\ r[i] \in Frames
              /\ r[i].n > 0 => i \in 1 .. Len(q) /\ r[i] = q[i]
  <1>1. CASE r = q
    BY <1>1
  <1>2. CASE r = << >>
    BY <1>2 DEF InOrder
  <1>3. ASSUME NEW e \in CONNS, r = Enqueue(q, Control(e))
        PROVE  /\ r \in Seq(Frames)
               /\ InOrder(r, s)
               /\ \A i \in 1 .. Len(r) :
                    /\ r[i] \in Frames
                    /\ r[i].n > 0 => i \in 1 .. Len(q) /\ r[i] = q[i]
    <2>a. Control(e) \in Frames /\ Control(e).n = 0
      BY DEF Control, Frames
    <2>1. PICK f \in Frames : f = Control(e) /\ f.n = 0
      BY <2>a
    <2>2. InOrder(Enqueue(q, f), s)
      BY <2>1, EnqueueKeepsOrder
    <2>3. r \in Seq(Frames) /\ InOrder(r, s)
      BY <1>3, <2>1, <2>2, EnqueueAppends
    <2>4. \/ r = q
          \/ /\ Len(r) = Len(q) + 1
             /\ \A i \in 1 .. Len(q) : r[i] = q[i]
             /\ r[Len(q) + 1] = f
      BY <1>3, <2>1, EnqueueAppends
    <2> QED BY <2>1, <2>3, <2>4
  <1> QED BY <1>1, <1>2, <1>3

\* Steps that send no frame, but may send a message of the relay itself, or drop a queue.
LEMMA NoFrameIsSent ==
  ASSUME FrameInv, Types', UNCHANGED seen,
         read' \in [CONNS -> Nat], sending' \subseteq CONNS,
         queue' = [c \in CONNS |-> queue'[c]],
         \A c \in CONNS : phase[c] # "unused" => phase'[c] # "unused" /\ ticket'[c] = ticket[c],
         \A c \in CONNS : Released(c) <= Released(c)',
         \A c \in CONNS : phase'[c] = "holding" => read'[c] > 0,
         \A c \in CONNS : phase'[c] \in NotYetOpen =>
           read'[c] = 0 /\ queue'[c] = << >> /\ c \notin sending',
         \A c \in CONNS : \/ queue'[c] = queue[c] \/ queue'[c] = << >>
                          \/ \E d \in CONNS : queue'[c] = Enqueue(queue[c], Control(d))
  PROVE  FramesAreReleased' /\ FramesStayInBucket' /\ FramesInOrder'
  <1> USE DEF FrameInv, FramesAreReleased
  <1>1. ASSUME NEW d \in CONNS
        PROVE  /\ queue'[d] \in Seq(Frames)
               /\ InOrder(queue'[d], seen[d])
               /\ \A i \in 1 .. Len(queue'[d]) :
                    /\ queue'[d][i] \in Frames
                    /\ queue'[d][i].n > 0 => /\ i \in 1 .. Len(queue[d])
                                             /\ queue'[d][i] = queue[d][i]
    <2>1. InOrder(queue[d], seen[d]) /\ queue[d] \in Seq(Frames) /\ seen[d] \in [CONNS -> Nat]
      BY OrderPerQueue
    <2>2. PICK q \in Seq(Frames), t \in [CONNS -> Nat] : q = queue[d] /\ t = seen[d]
      BY <2>1
    <2>5. PICK r : r = queue'[d]
      OBVIOUS
    <2>3. \/ r = q
          \/ r = << >>
          \/ \E e \in CONNS : r = Enqueue(q, Control(e))
      BY <2>2, <2>5
    <2>4. InOrder(q, t)
      BY <2>1, <2>2
    <2>6. /\ r \in Seq(Frames)
          /\ InOrder(r, t)
          /\ \A i \in 1 .. Len(r) :
               /\ r[i] \in Frames
               /\ r[i].n > 0 => i \in 1 .. Len(q) /\ r[i] = q[i]
      <3> HIDE DEF FrameInv, FramesAreReleased
      <3> QED BY ONLY <2>3, <2>4, q \in Seq(Frames), t \in [CONNS -> Nat], ControlAddsNoFrame
    <2>7. seen'[d] = seen[d]
      OBVIOUS
    <2> QED BY <2>2, <2>5, <2>6, <2>7
  <1>2. FramesInOrder'
    <2>1. \A d \in CONNS : InOrder(queue'[d], seen'[d])
      BY <1>1
    <2> QED BY <2>1 DEF FramesInOrder, InOrder
  <1>3. \A d, c \in CONNS : seen'[d][c] <= Released(c)'
    <2>1. ASSUME NEW d \in CONNS, NEW c \in CONNS
          PROVE  seen'[d][c] <= Released(c)'
      <3>1. /\ seen[d][c] \in Nat /\ Released(c) \in Int /\ Released(c)' \in Int
            /\ seen[d][c] <= Released(c) /\ Released(c) <= Released(c)'
        BY DEF Released
      <3> QED BY <3>1
    <2> QED BY <2>1
  <1>4. ASSUME NEW d \in CONNS, NEW i \in 1 .. Len(queue'[d])
        PROVE  (queue[d][i].n <= Released(queue[d][i].from) /\ InBucket(queue[d][i], d))'
    <2>1. PICK f \in Frames : f = queue'[d][i]
      BY <1>1
    <2>2. f.from \in CONNS /\ f.n \in Nat /\ Released(f.from)' \in Int /\ Released(f.from) \in Int
      BY <2>1 DEF Released, Frames
    <2>3. Released(f.from) >= 0 /\ Released(f.from) <= Released(f.from)'
      <3>1. read[f.from] \in Nat /\ (phase[f.from] = "holding" => read[f.from] > 0)
        BY <2>2
      <3> HIDE DEF FrameInv, FramesAreReleased
      <3> QED BY <2>2, <3>1 DEF Released
    <2>4. CASE f.n = 0
      <3>1. InBucket(f, d)'
        BY <2>4 DEF InBucket
      <3>2. f.n <= Released(f.from)'
        BY <2>2, <2>3, <2>4
      <3> QED BY <2>1, <3>1, <3>2 DEF InBucket
    <2>5. CASE f.n > 0
      <3>1. i \in 1 .. Len(queue[d]) /\ f = queue[d][i]
        BY <1>1, <2>1, <2>5
      <3>2. f.n <= Released(f.from)
        BY <3>1
      <3>3. f.from # d /\ ticket[f.from].room = ticket[d].room
            /\ ticket[f.from].capability = ticket[d].capability
        BY <2>5, <3>1 DEF FramesStayInBucket
      <3>4. phase[f.from] # "unused" /\ phase[d] # "unused"
        <4>1. Released(f.from) > 0
          BY <2>2, <2>5, <3>2
        <4>2. phase[f.from] \notin NotYetOpen
          BY <2>2, <4>1 DEF Released, NotYetOpen
        <4>3. phase[d] \notin NotYetOpen
          BY <3>1
        <4> QED BY <4>2, <4>3 DEF NotYetOpen
      <3>5. ticket'[f.from] = ticket[f.from] /\ ticket'[d] = ticket[d]
        BY <2>2, <3>4
      <3>6. f.n <= Released(f.from)'
        BY <2>2, <2>3, <3>2
      <3>7. InBucket(f, d)'
        BY <3>3, <3>5 DEF InBucket
      <3> QED BY <2>1, <3>6, <3>7 DEF InBucket
    <2> QED BY <2>2, <2>4, <2>5
  <1>5. FramesStayInBucket'
    BY <1>4 DEF FramesStayInBucket, InBucket
  <1>6. FramesAreReleased'
    BY <1>1, <1>3, <1>4
  <1> QED BY <1>2, <1>5, <1>6

\* Steps that neither read, queue nor send anything.
LEMMA NothingMoves ==
  ASSUME FrameInv, Types', UNCHANGED <<read, queue, sending, seen>>,
         \A c \in CONNS : phase[c] # "unused" => phase'[c] # "unused" /\ ticket'[c] = ticket[c],
         \A c \in CONNS : phase'[c] = "holding" <=> phase[c] = "holding",
         \A c \in CONNS : phase'[c] \in NotYetOpen => phase[c] \in NotYetOpen
  PROVE  FramesAreReleased' /\ FramesStayInBucket' /\ FramesInOrder'
  <1>1. \A c \in CONNS : Released(c) <= Released(c)'
    BY DEF FrameInv, FramesAreReleased, Released
  <1>2. /\ read' \in [CONNS -> Nat] /\ sending' \subseteq CONNS
        /\ queue' = [c \in CONNS |-> queue'[c]]
        /\ \A c \in CONNS : phase'[c] = "holding" => read'[c] > 0
        /\ \A c \in CONNS : phase'[c] \in NotYetOpen =>
             read'[c] = 0 /\ queue'[c] = << >> /\ c \notin sending'
        /\ \A c \in CONNS : queue'[c] = queue[c]
    BY DEF FrameInv, FramesAreReleased
  <1> QED BY <1>1, <1>2, NoFrameIsSent

LEMMA QuietKeepsFrames ==
  ASSUME FrameInv, Types', NEW c \in CONNS,
         \/ Verify(c) \/ Redeem(c) \/ UpgradeFails(c) \/ JoinFull(c)
         \/ Replaced(c) \/ Expire(c) \/ Disconnect(c)
  PROVE  FramesAreReleased' /\ FramesStayInBucket' /\ FramesInOrder'
  <1> USE DEF Goto, traffic, handler
  <1>t. Types
    BY DEF FrameInv, SeatInv
  <1>1. /\ UNCHANGED <<read, queue, sending, seen>>
        /\ \A d \in CONNS : phase[d] # "unused" =>
             phase'[d] # "unused" /\ ticket'[d] = ticket[d]
        /\ \A d \in CONNS : phase'[d] = "holding" <=> phase[d] = "holding"
        /\ \A d \in CONNS : phase'[d] \in NotYetOpen => phase[d] \in NotYetOpen
    <2> USE <1>t DEF Types, NotYetOpen
    <2>1. CASE Verify(c)
      BY <2>1 DEF Verify
    <2>2. CASE Redeem(c) \/ UpgradeFails(c) \/ JoinFull(c)
      BY <2>2 DEF Redeem, UpgradeFails, JoinFull
    <2>3. CASE Replaced(c) \/ Expire(c) \/ Disconnect(c)
      BY <2>3 DEF Replaced, Expire, Disconnect
    <2> QED BY <2>1, <2>2, <2>3
  <1> QED BY <1>1, NothingMoves

LEMMA ReadKeepsFrames ==
  ASSUME FrameInv, Types', NEW c \in CONNS, Read(c)
  PROVE  FramesAreReleased' /\ FramesStayInBucket' /\ FramesInOrder'
  <1>1. /\ phase[c] = "open" /\ UNCHANGED <<queue, sending, seen, ticket>>
        /\ read' = [read EXCEPT ![c] = @ + 1] /\ phase' = [phase EXCEPT ![c] = "holding"]
    BY DEF Read, CanRead, Goto
  <1>2. read \in [CONNS -> Nat] /\ read' \in [CONNS -> Nat] /\ Types
    BY <1>1 DEF FrameInv, SeatInv, FramesAreReleased
  <1>3. /\ phase'[c] = "holding" /\ read'[c] = read[c] + 1
        /\ \A d \in CONNS : d # c => phase'[d] = phase[d] /\ read'[d] = read[d]
    BY <1>1, <1>2 DEF Types
  <1>4. \A d \in CONNS : Released(d) <= Released(d)'
    BY <1>1, <1>2, <1>3 DEF Released
  <1>5. /\ sending' \subseteq CONNS
        /\ queue' = [d \in CONNS |-> queue'[d]]
        /\ \A d \in CONNS : phase[d] # "unused" => phase'[d] # "unused" /\ ticket'[d] = ticket[d]
        /\ \A d \in CONNS : phase'[d] = "holding" => read'[d] > 0
        /\ \A d \in CONNS : phase'[d] \in NotYetOpen =>
             read'[d] = 0 /\ queue'[d] = << >> /\ d \notin sending'
        /\ \A d \in CONNS : queue'[d] = queue[d]
    BY <1>1, <1>2, <1>3 DEF FrameInv, FramesAreReleased, NotYetOpen
  <1> QED BY <1>1, <1>2, <1>4, <1>5, NoFrameIsSent

\* The steps of a connection that may send the relay's own messages or drop its queue.
LEMMA ControlKeepsFrames ==
  ASSUME FrameInv, Types', NEW c \in CONNS, ReadOther(c) \/ Leave(c) \/ SendFails(c)
  PROVE  FramesAreReleased' /\ FramesStayInBucket' /\ FramesInOrder'
  <1> USE DEF Goto, handler
  <1>1. /\ Types /\ read \in [CONNS -> Nat] /\ queue \in [CONNS -> Seq(Frames)]
        /\ sending \subseteq CONNS
        /\ \A d \in CONNS : phase[d] = "holding" => read[d] > 0
        /\ \A d \in CONNS : phase[d] \in NotYetOpen =>
             read[d] = 0 /\ queue[d] = << >> /\ d \notin sending
    BY DEF FrameInv, SeatInv, FramesAreReleased
  <1>2. /\ phase[c] \notin NotYetOpen /\ UNCHANGED <<ticket, seen>>
        /\ sending' \subseteq sending
        /\ \A d \in CONNS : d # c => /\ phase'[d] = phase[d] /\ read'[d] = read[d]
                                     /\ queue'[d] = queue[d]
        /\ phase'[c] = phase[c] \/ (phase[c] = "leaving" /\ phase'[c] = "closed")
        /\ read'[c] \in {read[c], read[c] + 1} /\ read' \in [CONNS -> Nat]
        /\ queue' = [d \in CONNS |-> queue'[d]]
        /\ \/ queue'[c] = queue[c] \/ queue'[c] = << >>
           \/ queue'[c] = Enqueue(queue[c], Control(c))
    <2>1. CASE ReadOther(c)
      BY <1>1, <2>1 DEF ReadOther, CanRead, Types, NotYetOpen
    <2>2. CASE Leave(c)
      BY <1>1, <2>2 DEF Leave, Types, NotYetOpen
    <2>3. CASE SendFails(c)
      BY <1>1, <2>3 DEF SendFails, NotYetOpen
    <2> QED BY <2>1, <2>2, <2>3
  <1>3. \A d \in CONNS : Released(d) <= Released(d)'
    BY <1>1, <1>2 DEF Released
  <1>4. /\ \A d \in CONNS : phase[d] # "unused" => phase'[d] # "unused" /\ ticket'[d] = ticket[d]
        /\ \A d \in CONNS : phase'[d] = "holding" => read'[d] > 0
    <2>1. phase[c] # "unused" /\ phase'[c] # "unused"
      BY <1>2 DEF NotYetOpen
    <2>2. phase'[c] = "holding" => phase[c] = "holding"
      BY <1>2
    <2>3. ASSUME NEW d \in CONNS, phase'[d] = "holding" PROVE read'[d] > 0
      <3>1. read[d] \in Nat /\ read[d] > 0
        BY <1>1, <1>2, <2>2, <2>3
      <3>2. read'[d] \in {read[d], read[d] + 1}
        BY <1>2
      <3> QED BY <3>1, <3>2
    <2>4. \A d \in CONNS : phase[d] # "unused" => phase'[d] # "unused" /\ ticket'[d] = ticket[d]
      BY <1>2, <2>1
    <2> QED BY <2>3, <2>4
  <1>6. \A d \in CONNS : phase'[d] \in NotYetOpen =>
             read'[d] = 0 /\ queue'[d] = << >> /\ d \notin sending'
    <2>1. phase'[c] \notin NotYetOpen
      BY <1>2 DEF NotYetOpen
    <2> QED BY <1>1, <1>2, <2>1
  <1>5. \A d \in CONNS : \/ queue'[d] = queue[d] \/ queue'[d] = << >>
                         \/ \E e \in CONNS : queue'[d] = Enqueue(queue[d], Control(e))
    BY <1>2
  <1> QED BY <1>1, <1>2, <1>3, <1>4, <1>5, <1>6, NoFrameIsSent

\* The connection that joins tells the one it replaces to close.
LEMMA JoinKeepsFrames ==
  ASSUME FrameInv, Types', NEW c \in CONNS, Join(c)
  PROVE  FramesAreReleased' /\ FramesStayInBucket' /\ FramesInOrder'
  <1> USE DEF Goto
  <1>1. /\ Types /\ read \in [CONNS -> Nat] /\ queue \in [CONNS -> Seq(Frames)]
        /\ sending \subseteq CONNS
        /\ \A d \in CONNS : phase[d] = "holding" => read[d] > 0
        /\ \A d \in CONNS : phase[d] \in NotYetOpen =>
             read[d] = 0 /\ queue[d] = << >> /\ d \notin sending
    BY DEF FrameInv, SeatInv, FramesAreReleased
  <1>2. PICK p : p = registry[Bucket(c)][User(c)]
    OBVIOUS
  <1>3. /\ phase[c] = "admitted" /\ UNCHANGED <<ticket, read, seen>>
        /\ phase' = [phase EXCEPT ![c] = "open"]
        /\ sending' = sending \union {c}
        /\ queue' = IF p \in sending THEN [queue EXCEPT ![p] = Enqueue(@, Control(c))] ELSE queue
    BY <1>2 DEF Join
  <1>4. \A d \in CONNS : IF d # c THEN phase'[d] = phase[d] ELSE phase'[d] = "open"
    BY <1>1, <1>3 DEF Types
  <1>5. /\ queue' = [d \in CONNS |-> queue'[d]]
        /\ \A d \in CONNS : \/ queue'[d] = queue[d]
                            \/ d \in sending /\ queue'[d] = Enqueue(queue[d], Control(c))
    BY <1>1, <1>3
  <1>6. \A d \in CONNS : Released(d) <= Released(d)'
    BY <1>1, <1>3, <1>4 DEF Released
  <1>7. /\ \A d \in CONNS : phase[d] # "unused" => phase'[d] # "unused" /\ ticket'[d] = ticket[d]
        /\ \A d \in CONNS : phase'[d] = "holding" => read'[d] > 0
        /\ \A d \in CONNS : phase'[d] \in NotYetOpen =>
             read'[d] = 0 /\ queue'[d] = << >> /\ d \notin sending'
        /\ read' \in [CONNS -> Nat] /\ sending' \subseteq CONNS
    BY <1>1, <1>3, <1>4, <1>5 DEF NotYetOpen
  <1> QED BY <1>3, <1>5, <1>6, <1>7, NoFrameIsSent

LEMMA SameBucket ==
  ASSUME Types, BucketsAreLive, NEW c \in CONNS, phase[c] # "unused",
         NEW d \in CONNS, d \in Entries(Bucket(c))
  PROVE  ticket[c].room = ticket[d].room /\ ticket[c].capability = ticket[d].capability
  <1>1. Bucket(c) \in Buckets
    BY PlacesInBuckets
  <1>2. PICK u \in Users : d = registry[Bucket(c)][u] /\ d # NONE
    BY DEF Entries
  <1>3. Bucket(d) = Bucket(c)
    BY <1>1, <1>2 DEF BucketsAreLive
  <1> QED BY <1>3 DEF Bucket, RoomKey

\* What is broadcast is newer than all that is queued or seen of the sender.
LEMMA BroadcastKeepsFrames ==
  ASSUME FrameInv, Types', NEW c \in CONNS, Broadcast(c)
  PROVE  FramesAreReleased' /\ FramesStayInBucket' /\ FramesInOrder'
  <1> USE DEF Goto
  <1>1. /\ Types /\ BucketsAreLive
        /\ read \in [CONNS -> Nat] /\ queue \in [CONNS -> Seq(Frames)]
        /\ seen \in [CONNS -> [CONNS -> Nat]] /\ sending \subseteq CONNS
        /\ \A d \in CONNS : phase[d] = "holding" => read[d] > 0
        /\ \A d \in CONNS : phase[d] \in NotYetOpen =>
             read[d] = 0 /\ queue[d] = << >> /\ d \notin sending
        /\ \A d, e \in CONNS : seen[d][e] <= Released(e)
        /\ \A d \in CONNS : \A i \in 1 .. Len(queue[d]) :
             queue[d][i].n <= Released(queue[d][i].from)
        /\ FramesStayInBucket
    BY DEF FrameInv, SeatInv, FramesAreReleased
  <1>2. PICK f \in Frames : f = [from |-> c, n |-> read[c]]
    BY <1>1 DEF Frames
  <1>3. /\ phase[c] = "holding" /\ UNCHANGED <<ticket, read, sending, seen>>
        /\ phase' = [phase EXCEPT ![c] = "open"]
        /\ queue' = [d \in CONNS |->
                       IF d \in {e \in Entries(Bucket(c)) : e # c} \intersect sending
                         THEN Enqueue(queue[d], f) ELSE queue[d]]
    BY <1>2 DEF Broadcast
  <1>4. /\ \A d \in CONNS : IF d # c THEN phase'[d] = phase[d] ELSE phase'[d] = "open"
        /\ f.from = c /\ f.n = read[c] /\ read[c] > 0
    BY <1>1, <1>2, <1>3 DEF Types
  <1>5. /\ \A d \in CONNS : Released(d) \in Nat /\ Released(d)' \in Nat /\ Released(d) <= Released(d)'
        /\ Released(c) < f.n /\ f.n <= Released(c)'
    BY <1>1, <1>3, <1>4 DEF Released
  <1>6. ASSUME NEW d \in CONNS
        PROVE  /\ queue'[d] \in Seq(Frames)
               /\ InOrder(queue'[d], seen'[d])
               /\ queue'[d] # queue[d] => /\ d # c /\ d \in sending
                                          /\ ticket[c].room = ticket[d].room
                                          /\ ticket[c].capability = ticket[d].capability
               /\ \A i \in 1 .. Len(queue'[d]) :
                    \/ i \in 1 .. Len(queue[d]) /\ queue'[d][i] = queue[d][i]
                    \/ queue'[d] # queue[d] /\ queue'[d][i] = f
    <2>1. PICK q \in Seq(Frames), s \in [CONNS -> Nat] : q = queue[d] /\ s = seen[d]
      BY <1>1
    <2>2. InOrder(q, s) /\ seen'[d] = s
      BY <1>3, <2>1, OrderPerQueue DEF FrameInv
    <2>3. CASE queue'[d] = q
      BY <2>1, <2>2, <2>3
    <2>4. CASE queue'[d] # q
      <3>1. /\ d \in Entries(Bucket(c)) /\ d # c /\ d \in sending
            /\ queue'[d] = Enqueue(q, f)
        BY <1>3, <2>1, <2>4
      <3>2. ticket[c].room = ticket[d].room /\ ticket[c].capability = ticket[d].capability
        BY <1>1, <1>3, <3>1, SameBucket
      <3>3. s[f.from] < f.n
        BY <1>1, <1>4, <1>5, <2>1
      <3>4. \A i \in 1 .. Len(q) : q[i].from = f.from => q[i].n < f.n
        <4>1. SUFFICES ASSUME NEW i \in 1 .. Len(q), q[i].from = c PROVE q[i].n < f.n
          BY <1>4
        <4>2. q[i] \in Frames
          BY <4>1
        <4>3. q[i].n <= Released(q[i].from)
          BY <1>1, <2>1, <4>1
        <4>4. q[i].n \in Nat /\ f.n \in Nat
          BY <4>2 DEF Frames
        <4> QED BY <1>5, <4>1, <4>3, <4>4
      <3>5. InOrder(Enqueue(q, f), s)
        BY <2>2, <3>3, <3>4, EnqueueKeepsOrder
      <3>6. /\ queue'[d] \in Seq(Frames)
            /\ \A i \in 1 .. Len(queue'[d]) :
                 (i \in 1 .. Len(q) /\ queue'[d][i] = q[i]) \/ queue'[d][i] = f
        <4>1. PICK r : r = Enqueue(q, f)
          OBVIOUS
        <4>2. /\ r \in Seq(Frames)
              /\ \A i \in 1 .. Len(r) : (i \in 1 .. Len(q) /\ r[i] = q[i]) \/ r[i] = f
          <5>1. /\ r \in Seq(Frames)
                /\ \/ r = q
                   \/ /\ Len(r) = Len(q) + 1 /\ \A i \in 1 .. Len(q) : r[i] = q[i]
                      /\ r[Len(q) + 1] = f
            BY <4>1, EnqueueAppends
          <5> QED BY ONLY <5>1, q \in Seq(Frames)
        <4> QED BY <3>1, <4>1, <4>2
      <3> QED BY <2>1, <2>2, <2>4, <3>1, <3>2, <3>5, <3>6
    <2> QED BY <2>3, <2>4
  <1>7. FramesInOrder'
    <2>1. \A d \in CONNS : InOrder(queue'[d], seen'[d])
      BY <1>6
    <2> QED BY <2>1 DEF FramesInOrder, InOrder
  <1>8. ASSUME NEW d \in CONNS, NEW i \in 1 .. Len(queue'[d])
        PROVE  (queue[d][i].n <= Released(queue[d][i].from) /\ InBucket(queue[d][i], d))'
    <2>1. CASE i \in 1 .. Len(queue[d]) /\ queue'[d][i] = queue[d][i]
      <3>1. PICK g \in Frames : g = queue[d][i]
        BY <1>1, <2>1
      <3>2. g.from \in CONNS /\ g.n \in Nat /\ g.n <= Released(g.from)
        BY <1>1, <2>1, <3>1 DEF Frames
      <3>3. g.n <= Released(g.from)'
        BY <1>5, <3>2
      <3>4. InBucket(g, d)'
        BY <1>1, <1>3, <2>1, <3>1 DEF InBucket, FramesStayInBucket
      <3> QED BY <2>1, <3>1, <3>3, <3>4 DEF InBucket
    <2>2. CASE queue'[d] # queue[d] /\ queue'[d][i] = f
      <3>1. InBucket(f, d)'
        BY <1>3, <1>4, <1>6, <2>2 DEF InBucket
      <3>2. f.n <= Released(f.from)'
        BY <1>4, <1>5
      <3> QED BY <2>2, <3>1, <3>2 DEF InBucket
    <2> QED BY <1>6, <2>1, <2>2
  <1>9. FramesStayInBucket'
    BY <1>8 DEF FramesStayInBucket, InBucket
  <1>10. FramesAreReleased'
    <2>1. queue' \in [CONNS -> Seq(Frames)]
      BY <1>3, <1>6
    <2>2. \A d, e \in CONNS : seen'[d][e] <= Released(e)'
      <3>1. ASSUME NEW d \in CONNS, NEW e \in CONNS PROVE seen'[d][e] <= Released(e)'
        <4>1. seen[d][e] \in Nat /\ seen[d][e] <= Released(e) /\ seen' = seen
          BY <1>1, <1>3
        <4> QED BY <1>5, <4>1
      <3> QED BY <3>1
    <2>3. \A d \in CONNS : phase'[d] \in NotYetOpen =>
             read'[d] = 0 /\ queue'[d] = << >> /\ d \notin sending'
      BY <1>1, <1>3, <1>4, <1>6 DEF NotYetOpen
    <2>4. \A d \in CONNS : phase'[d] = "holding" => read'[d] > 0
      BY <1>1, <1>3, <1>4
    <2> QED BY <1>1, <1>3, <1>8, <2>1, <2>2, <2>3, <2>4 DEF FramesAreReleased
  <1> QED BY <1>7, <1>9, <1>10

\* The head of a queue becomes the last frame seen of its sender.
LEMMA SendKeepsFrames ==
  ASSUME FrameInv, Types', NEW d \in CONNS, Send(d)
  PROVE  FramesAreReleased' /\ FramesStayInBucket' /\ FramesInOrder'
  <1>1. /\ read \in [CONNS -> Nat] /\ queue \in [CONNS -> Seq(Frames)]
        /\ seen \in [CONNS -> [CONNS -> Nat]] /\ sending \subseteq CONNS
        /\ \A c \in CONNS : phase[c] = "holding" => read[c] > 0
        /\ \A c \in CONNS : phase[c] \in NotYetOpen =>
             read[c] = 0 /\ queue[c] = << >> /\ c \notin sending
        /\ \A e, c \in CONNS : seen[e][c] <= Released(c)
        /\ \A e \in CONNS : \A i \in 1 .. Len(queue[e]) :
             queue[e][i].n <= Released(queue[e][i].from)
        /\ FramesStayInBucket
    BY DEF FrameInv, FramesAreReleased
  <1>2. PICK q \in Seq(Frames), s \in [CONNS -> Nat] : q = queue[d] /\ s = seen[d]
    BY <1>1
  <1>3. InOrder(q, s)
    BY <1>2, OrderPerQueue DEF FrameInv
  <1>4. q # << >> /\ UNCHANGED <<phase, ticket, read, sending>>
    BY <1>2 DEF Send, handler
  <1>5. PICK f \in Frames : f = Head(q) /\ f = q[1] /\ f.from \in CONNS /\ f.n \in Nat
    <2>1. Head(q) \in Frames /\ Head(q) = q[1]
      BY <1>4
    <2>2. Head(q).from \in CONNS /\ Head(q).n \in Nat
      BY <2>1 DEF Frames
    <2> QED BY <2>1, <2>2
  <1>6. PICK r \in Seq(Frames) : r = Tail(q) /\ Len(r) = Len(q) - 1
                                 /\ \A i \in 1 .. Len(r) : r[i] = q[i + 1]
    <2>1. Tail(q) \in Seq(Frames) /\ Len(Tail(q)) = Len(q) - 1
          /\ \A i \in 1 .. Len(Tail(q)) : Tail(q)[i] = q[i + 1]
      BY <1>4
    <2> QED BY <2>1
  <1>7. PICK t \in [CONNS -> Nat] : t = Received(s, f) /\ InOrder(r, t)
    BY <1>3, <1>4, <1>5, <1>6, TailKeepsOrder
  <1>8. /\ queue' = [queue EXCEPT ![d] = r]
        /\ seen' = IF f.n = 0 THEN seen ELSE [seen EXCEPT ![d][f.from] = f.n]
    BY <1>2, <1>5, <1>6 DEF Send
  <1>9. /\ queue'[d] = r /\ seen'[d] = t
        /\ seen' \in [CONNS -> [CONNS -> Nat]] /\ queue' \in [CONNS -> Seq(Frames)]
        /\ \A e \in CONNS : e # d => queue'[e] = queue[e] /\ seen'[e] = seen[e]
    BY <1>1, <1>2, <1>5, <1>7, <1>8 DEF Received
  <1>10. FramesInOrder'
    <2>1. \A e \in CONNS : InOrder(queue'[e], seen'[e])
      BY <1>7, <1>9, OrderPerQueue DEF FrameInv
    <2> QED BY <2>1 DEF FramesInOrder, InOrder
  <1>11. \A c \in CONNS : Released(c)' = Released(c)
    BY <1>4 DEF Released
  <1>12. \A e \in CONNS : \A i \in 1 .. Len(queue'[e]) : \E j \in 1 .. Len(queue[e]) :
           queue'[e][i] = queue[e][j]
    <2>1. ASSUME NEW e \in CONNS, NEW i \in 1 .. Len(queue'[e])
          PROVE  \E j \in 1 .. Len(queue[e]) : queue'[e][i] = queue[e][j]
      <3>1. CASE e = d
        <4>1. i + 1 \in 1 .. Len(q) /\ r[i] = q[i + 1]
          BY <1>6, <1>9, <3>1
        <4> QED BY <1>2, <1>9, <3>1, <4>1
      <3>2. CASE e # d
        BY <1>9, <3>2
      <3> QED BY <3>1, <3>2
    <2> QED BY <2>1
  <1>13. ASSUME NEW e \in CONNS, NEW i \in 1 .. Len(queue'[e])
         PROVE  (queue[e][i].n <= Released(queue[e][i].from) /\ InBucket(queue[e][i], e))'
    <2>1. PICK j \in 1 .. Len(queue[e]) : queue'[e][i] = queue[e][j]
      BY <1>12
    <2>2. PICK g \in Frames : g = queue[e][j]
      BY <1>1
    <2>3. g.from \in CONNS /\ g.n <= Released(g.from)
      BY <1>1, <2>2 DEF Frames
    <2>4. g.n <= Released(g.from)'
      BY <1>11, <2>3
    <2>5. InBucket(g, e)'
      BY <1>1, <1>4, <2>2 DEF InBucket, FramesStayInBucket
    <2> QED BY <2>1, <2>2, <2>4, <2>5 DEF InBucket
  <1>14. FramesStayInBucket'
    BY <1>13 DEF FramesStayInBucket, InBucket
  <1>15. \A e, c \in CONNS : seen'[e][c] <= Released(c)'
    <2>1. f.n <= Released(f.from)
      <3>1. 1 \in 1 .. Len(q)
        BY <1>4
      <3> QED BY <1>1, <1>2, <1>5, <3>1
    <2>2. ASSUME NEW c \in CONNS PROVE t[c] \in {s[c]} \/ (c = f.from /\ t[c] = f.n)
      BY <1>5, <1>7 DEF Received
    <2>3. ASSUME NEW e \in CONNS, NEW c \in CONNS PROVE seen'[e][c] <= Released(c)
      BY <1>1, <1>2, <1>9, <2>1, <2>2
    <2> QED BY <1>11, <2>3
  <1>16. FramesAreReleased'
    <2>1. \A c \in CONNS : phase'[c] \in NotYetOpen =>
            read'[c] = 0 /\ queue'[c] = << >> /\ c \notin sending'
      BY <1>1, <1>2, <1>4, <1>9
    <2> QED BY <1>1, <1>4, <1>9, <1>13, <1>15, <2>1 DEF FramesAreReleased
  <1> QED BY <1>10, <1>14, <1>16

LEMMA FrameStep == FrameInv /\ [Next]_vars => FrameInv'
  <1> SUFFICES ASSUME FrameInv, [Next]_vars PROVE FrameInv'
    OBVIOUS
  <1>1. SeatInv' /\ Types'
    BY SeatStep DEF FrameInv, SeatInv
  <1>2. ASSUME NEW c \in CONNS, Handle(c)
        PROVE  FramesAreReleased' /\ FramesStayInBucket' /\ FramesInOrder'
    BY <1>1, <1>2, QuietKeepsFrames, ReadKeepsFrames, ControlKeepsFrames, JoinKeepsFrames,
       BroadcastKeepsFrames, SendKeepsFrames DEF Handle
  <1>3. CASE Tick \/ CleanUp \/ UNCHANGED vars
    <2>1. UNCHANGED <<phase, ticket, read, queue, sending, seen>>
      BY <1>3 DEF Tick, CleanUp, vars, traffic, handler
    <2>2. /\ UNCHANGED <<read, queue, sending, seen>>
          /\ \A c \in CONNS : phase[c] # "unused" =>
                phase'[c] # "unused" /\ ticket'[c] = ticket[c]
          /\ \A c \in CONNS : phase'[c] = "holding" <=> phase[c] = "holding"
          /\ \A c \in CONNS : phase'[c] \in NotYetOpen => phase[c] \in NotYetOpen
      BY <2>1
    <2>3. FramesAreReleased' /\ FramesStayInBucket' /\ FramesInOrder'
      BY <1>1, <2>2, NothingMoves
    <2> QED BY <1>1, <2>3 DEF FrameInv
  <1> QED BY <1>1, <1>2, <1>3 DEF Next, FrameInv

LEMMA FrameInvHolds == Spec => []FrameInv
  BY FrameInit, FrameStep, PTL DEF Spec

\* FramesStayInBucket: no frame crosses to another room or capability, for any buckets,
\* queues and replacements.
THEOREM FramesKeepTheirBucket == Spec => []FramesStayInBucket
  BY FrameInvHolds, PTL DEF FrameInv

\* FramesInOrder: the frames of one connection are neither duplicated nor reordered, for
\* any capacity of the channels and any number of frames.
THEOREM FramesKeepTheirOrder == Spec => []FramesInOrder
  BY FrameInvHolds, PTL DEF FrameInv
=============================================================================
