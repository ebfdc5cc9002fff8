---------------------------- MODULE MCJobService ----------------------------
(* Constants of JobService for TLC: two create requests of one organization *)
(* for the same repository and branch.                                      *)
EXTENDS JobService

CONSTANTS o1, j1, j2, repoA

MCOrgOf == [j \in {j1, j2} |-> o1]
MCTargetOf == [j \in {j1, j2} |-> repoA]
============================================================================
