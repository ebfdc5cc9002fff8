--------------------------- MODULE MCJobProgress ----------------------------
(* Constants of JobProgress for TLC.  The events of agents and the others   *)
(* touch different state, so a job emits one kind or the other; a job that    *)
(* processes a commit, or none.                                             *)
EXTENDS JobProgress

CONSTANTS job, c1, v1, v2, r1, r2

MCEmissions ==
  { {<<"commit_skipped", c1>>, <<"audit_verdict", v1>>, <<"audit_verdict", v2>>,
     <<"bundle_ready", job>>, <<"job_completed", job>>},
    {<<"commit_skipped", c1>>, <<"bundle_ready", job>>, <<"job_completed", job>>},
    Starting \cup Completing }
============================================================================
