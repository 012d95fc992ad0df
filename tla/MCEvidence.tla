----------------------------- MODULE MCEvidence -----------------------------
(* The model-checking run of Evidence.                                     *)
EXTENDS Evidence

\* A step of the probe and one outside it neither read nor write a common variable
\* while a run of the probe goes on: of their orders the run explores those in which
\* the probe's runs end, and its sockets close, first.
ProbeFirst == evidenceVars' = evidenceVars \/ Closed
=============================================================================
