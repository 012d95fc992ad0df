---------------------------- MODULE MCMatchSetup ----------------------------
(* Constant definitions for the model-checking run of MatchSetup.          *)
EXTENDS MatchSetup, TLC

Symmetry == Permutations(USERS) \union Permutations(FINGERPRINTS)

\* Nothing writes the setup tables of a room that is over: its behaviour is
\* explored by the runs of RoomLifecycle.  Spare invites change nothing here.
InSetup == \A r \in ROOMS : room[r] \notin Terminal /\ (r \in invites => room[r] = "WAITING")
=============================================================================
