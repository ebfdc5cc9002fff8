--------------------------- MODULE MCCredentials ---------------------------
(* Constants of Credentials for TLC.  Requests of one kind are alike: no   *)
(* property tells them apart, and none is a liveness property.             *)
EXTENDS Credentials, TLC

CONSTANTS c1, g1, t1, d1, d2, r1, r2

MCSymmetry == Permutations({d1, d2}) \cup Permutations({r1, r2})
============================================================================
