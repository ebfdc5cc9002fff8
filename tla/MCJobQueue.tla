----------------------------- MODULE MCJobQueue -----------------------------
(* Constants of JobQueue for TLC: a job and the message that cancels it,    *)
(* which goes through the same queue.                                       *)
EXTENDS JobQueue

CONSTANTS j1, x1, w1, w2

MCJobOf == [m \in {x1} |-> j1]
============================================================================
