---------------------------- MODULE MCNativeMatch ----------------------------
(* A bound for the model-checking run of NativeMatch.                      *)
EXTENDS NativeMatch

\* Two mishaps at most: requests or replies that are lost, and a page that is closed while
\* nothing cancels its room.  That page is the guest's; no request of a match tells the
\* host from the guest.
TwoMishaps ==
  /\ page[HOST] # "dropped"
  /\ losses + (IF page[GUEST] = "dropped" THEN 1 ELSE 0) <= 2
=============================================================================
