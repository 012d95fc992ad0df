----------------------------- MODULE MCTunnel -----------------------------
(* Constant definitions for the model-checking run of Tunnel.              *)
EXTENDS Tunnel, TLC

CONSTANTS c1, c2, c3

Ticket(n, room, u, cap) ==
  [nonce |-> n, room |-> room, user |-> u, capability |-> cap, expires |-> 0]

T(n, u, cap) == Ticket(n, "r", u, cap)

\* Tunnels of a and b and a second one of a's after a retry; probes of a, of a again,
\* and of b, one of c, who was a member of the room before, and one of b's other room.
A1 == T(1, "a", "tunnel")
A2 == T(2, "a", "tunnel")
B  == T(3, "b", "tunnel")
ProbeA1 == T(4, "a", "probe")
ProbeA2 == T(5, "a", "probe")
ProbeB  == T(6, "b", "probe")
ProbeC  == T(7, "c", "probe")
Elsewhere == Ticket(8, "s", "b", "probe")

Tickets == {A1, A2, B, ProbeA1, ProbeA2, ProbeB, ProbeC, Elsewhere}

Give(t, n) == [ticket |-> t, frames |-> n, heard |-> TRUE]

\* A client that hears nothing of the relay.
Deaf(t, n) == [ticket |-> t, frames |-> n, heard |-> FALSE]

Clients(g1, g2, g3) == c1 :> g1 @@ c2 :> g2 @@ c3 :> g3

Scenarios ==
  { \* a retries while b's tunnel runs
    Clients(Deaf(A1, 0), Give(A2, 0), Give(B, 0)),
    \* a's tunnel carries a stream to b, who has a probe open as well
    Clients(Give(A1, 2), Deaf(B, 0), Give(ProbeB, 0)),
    \* b is in two rooms
    Clients(Give(ProbeA1, 1), Give(Elsewhere, 1), Give(ProbeB, 1)),
    \* three users for two seats
    Clients(Give(ProbeA1, 0), Give(ProbeB, 0), Give(ProbeC, 0)),
    \* a ticket that is presented twice
    Clients(Give(ProbeA1, 0), Give(ProbeA1, 0), Give(ProbeB, 1)),
    \* a user's connection is replaced by another one while both have sent
    Clients(Give(ProbeA1, 2), Give(ProbeA2, 1), Give(ProbeB, 0)) }
=============================================================================
