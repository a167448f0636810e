--------------------------- MODULE MCSessionOperator ---------------------------
(***************************************************************************)
(* SessionOperator and its inductive invariants for TLC, and what the         *)
(* repository says of the operator that its code does not do.                *)
(***************************************************************************)
EXTENDS SessionOperatorInv

\* README.md: a session whose agent crashed is reported as failed.  Here: a pod
\* whose container exited with an error, and that nobody stopped or finished.
CrashedSessionFails ==
  \A s \in Sessions :
    cr[s].life = "live" /\ pod[s].phase = "Failed" /\ pod[s].annotation # "finished"
      ~> cr[s].state = "Failed" \/ cr[s].life # "live"

=============================================================================
