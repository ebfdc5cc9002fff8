----------------------------- MODULE PathMetrics ----------------------------
(***************************************************************************)
(* packages/calibration-metrics: how well the paths a retro spec mentions  *)
(* predict the paths its commit changed.  A path is a sequence of names,   *)
(* and a number with three decimals is a number of thousandths.            *)
(***************************************************************************)
EXTENDS Lists, SequencesExt, FiniteSets

\* Math.round(x * 1000) / 1000 of sum / count, for sum and count in thousandths and ones.
Rounded(sum, count) == (2 * sum + count) \div (2 * count)

\* mean and average of scores in thousandths; mean of no scores is 0.
Mean(scores) ==
  IF scores = <<>> THEN 0 ELSE Rounded(ListSum(scores), Len(scores))

\* A mentioned path becomes a known path that ends in it, if there is one.  (The known
\* paths are those of the shards, not of the source files.)
ResolvePath(path, known) ==
  LET i == SelectInSeq(known, LAMBDA k : k = path)
      j == SelectInSeq(known, LAMBDA k : IsSuffix(path, k))
  IN IF i # 0 THEN known[i] ELSE IF j # 0 THEN known[j] ELSE path

\* BARE_PATH needs a directory, BACKTICK_PATH does not.
Found(spec) == {p \in spec.bare : Len(p) > 1} \cup spec.quoted

ExtractPredictedPaths(spec, known) == {ResolvePath(p, known) : p \in Found(spec)}

ComputeOverlap(predicted, actual) ==
  LET union == Cardinality(predicted \cup actual)
  IN [overlap |-> IF union = 0 THEN 1000
                  ELSE Rounded(1000 * Cardinality(predicted \cap actual), union),
      missed |-> actual \ predicted,
      hallucinated |-> predicted \ actual]
============================================================================
