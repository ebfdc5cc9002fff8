--------------------------- MODULE MCCalibration ----------------------------
(* Constants of Calibration for TLC: two shards of the bootstrap, one of    *)
(* which is over the cap, and patches that name shards by relativePath, by  *)
(* path, or a shard that is not there yet, which has two names.             *)
EXTENDS Calibration

CONSTANTS r1, r2, p1, p2, new, alias

MCFiles == {r1, r2, p1, p2, new}
MCNames == MCFiles \cup {alias}
MCFileOf == [n \in MCNames |-> IF n = alias THEN new ELSE n]
MCGenerated ==
  << [relativePath |-> r1, path |-> p1, tokens |-> 1],
     [relativePath |-> r2, path |-> p2, tokens |-> 3] >>

Patch(operation, target, tokens, delta) ==
  [operation |-> operation, target |-> target, tokens |-> tokens, delta |-> delta]

MCProposals ==
  { <<>>,
    << Patch("append", r1, 1, 1), Patch("delete", r1, 0, -4) >>,
    << Patch("append", p1, 1, 1), Patch("update_weight", r1, 1, 0) >>,
    << Patch("replace", new, 1, 1), Patch("append", r2, 1, 1) >>,
    << Patch("replace", r1, 0, -1), Patch("append", r1, 1, 1) >>,
    << Patch("delete", r2, 0, -2), Patch("update_weight", new, 0, 0) >>,
    << Patch("append", alias, 1, 1), Patch("append", new, 2, 2) >> }
============================================================================
